---------------------------- MODULE AtClientProofs ----------------------------
(***************************************************************************)
(* Theorems about AtClient for every set of requests and every bound on    *)
(* the modem: who may write into a response, how many notices a late       *)
(* response can leave behind, and that every call gets its own answer, its *)
(* lines counted all or not at all, until the first wait that times out.   *)
(***************************************************************************)
EXTENDS AtClient, Integers, TLAPS

\* While its response is open a caller has at most the notice of an earlier
\* call; once the parser has closed it there is one notice more, unless the
\* caller has already been given it.
HolderTokens(t) ==
    /\ pc[t] \in {"granted", "c_granted"} => resp = NULL /\ tokens <= 1
    /\ pc[t] \in {"open", "written", "sent", "c_sent"} =>
         IF resp = NULL THEN tokens \in 1..2 ELSE tokens <= 1
    /\ pc[t] = "c_loop" =>
         IF tries = 0 /\ resp # NULL THEN tokens <= 1
         ELSE IF resp = NULL THEN tokens \in 1..2 /\ (tries > 0 => tokens = 1)
         ELSE tokens = 0
    /\ pc[t] \in {"wait", "c_wait"} => resp # NULL /\ tokens = 0
    /\ pc[t] \in {"woken", "timedout", "exit", "c_woken", "c_exit", "c_freed"} =>
         IF resp = NULL THEN tokens <= 1 ELSE tokens = 0

Tokens == /\ TokensBounded
          /\ \A t \in Callers : lock = t => HolderTokens(t)

\* wait_connect is called before any other call, and sends before it waits.
Connecting ==
    /\ pc["NB"] \in {"start", "c_call", "c_lock", "c_granted"} => tries = 0
    /\ pc["NB"] \in {"c_sent", "c_wait"} => tries > 0

IInv == TypeOK /\ OpenOnlyUnderLock /\ Tokens /\ Connecting

-----------------------------------------------------------------------------
(* The data.                                                               *)

LEMMA CallerFacts ==
    /\ \A t \in Callers : Other(t) \in Callers /\ Other(t) # t
    /\ \A t, u \in Callers : u = t \/ u = Other(t)
    /\ "NB" \in Callers /\ "parser" \in Callers /\ "NB" # "parser"
BY DEF Callers, Other

LEMMA AgedLines ==
    ASSUME NEW lines \in Seq(Line), NEW t \in Callers
    PROVE  Aged(lines, t) \in Seq(Line) /\ Len(Aged(lines, t)) = Len(lines)
<1>1. \A i \in 1..Len(lines) : lines[i] \in Line
  OBVIOUS
<1>2. \A i \in 1..Len(lines) : [lines[i] EXCEPT !.of = "old"] \in Line
  BY <1>1 DEF Line
<1> QED BY <1>1, <1>2 DEF Aged

LEMMA AgedAnswers ==
    ASSUME NEW answers \in Seq(Answer), NEW t \in Callers
    PROVE  /\ Aged(answers, t) \in Seq(Answer)
           /\ Len(Aged(answers, t)) = Len(answers)
<1>1. \A i \in 1..Len(answers) : answers[i] \in Answer
  OBVIOUS
<1>2. \A i \in 1..Len(answers) : [answers[i] EXCEPT !.of = "old"] \in Answer
  BY <1>1 DEF Answer
<1> QED BY <1>1, <1>2 DEF Aged

LEMMA TailType ==
    ASSUME LineType, wire # <<>>
    PROVE  Tail(wire) \in Seq(Line) /\ Len(Tail(wire)) <= MaxWire
<1>1. wire \in Seq(Line) /\ Len(wire) <= MaxWire /\ MaxWire \in Nat
  BY BoundsAssumption DEF LineType
<1> QED BY <1>1

LEMMA ObjectType ==
    ASSUME NEW req \in Request
    PROVE  Object(req) \in Response
BY DEF Object, Response

LEMMA SendType ==
    ASSUME TypeOK, NEW t \in Callers, SendCommand(t)
    PROVE  /\ modem' \in Seq(Answer) /\ Len(modem') <= MaxModem
           /\ wire' \in Seq(Line) /\ Len(wire') <= MaxWire
           /\ Aged(obj[t].buf, t) \in Seq(Line)
<1> USE BoundsAssumption
<1>1. obj[t] \in Response /\ obj[t].req \in Request /\ obj[t].req.data \in Nat
      /\ obj[t].buf \in Seq(Line)
  BY DEF TypeOK, CallType, Response, Request
<1>2. Aged(wire, t) \in Seq(Line) /\ Len(Aged(wire, t)) = Len(wire)
  BY AgedLines DEF TypeOK, LineType
<1>3. Aged(modem, t) \in Seq(Answer) /\ Len(Aged(modem, t)) = Len(modem)
  BY AgedAnswers DEF TypeOK, LineType
<1>4. Aged(obj[t].buf, t) \in Seq(Line)
  BY <1>1, AgedLines
<1>5. [of |-> t, left |-> obj[t].req.data] \in Answer
  BY <1>1 DEF Answer
<1>6. wire' \in Seq(Line) /\ Len(wire') <= MaxWire
  BY <1>2 DEF SendCommand, TypeOK, LineType
<1>7. modem' \in Seq(Answer) /\ Len(modem') <= MaxModem
  BY <1>3, <1>5 DEF SendCommand, TypeOK, LineType
<1> QED BY <1>4, <1>6, <1>7

LEMMA StoredType ==
    ASSUME NEW o \in Response, NEW line \in Line, line_counts \in Nat
    PROVE  Stored(o, line) \in Seq(Line) /\ Counted(o) \in Nat
<1>1. Gap \in Line
  BY DEF Gap, Line, Kinds
<1>2. o.buf \in Seq(Line)
  BY DEF Response
<1>3. \A i \in 1..Len(o.buf) : o.buf[i] \in Line
  BY <1>2
<1>4. CASE Fits(o)
  <2> DEFINE at(i) == IF i = line_counts + 1 THEN line
                      ELSE IF i <= Len(o.buf) THEN o.buf[i] ELSE Gap
  <2>1. \A i \in 1..(line_counts + 1) : at(i) \in Line
    BY <1>1, <1>2, <1>3
  <2>2. [i \in 1..(line_counts + 1) |-> at(i)] \in Seq(Line)
    BY <2>1
  <2> QED BY <2>2, <1>4 DEF Stored, Counted
<1> QED BY <1>2, <1>4 DEF Stored, Counted

-----------------------------------------------------------------------------
(* Types.                                                                  *)

LEMMA PcStep ==
    ASSUME CallType, NEW t \in Callers, NEW label, Goto(t, label),
           t = "NB" => label \in NBPcs, t = "parser" => label \in ParserPcs
    PROVE  /\ pc' \in [Callers -> NBPcs \cup ParserPcs]
           /\ pc'["NB"] \in NBPcs /\ pc'["parser"] \in ParserPcs
BY CallerFacts DEF CallType, Goto, Callers

LEMMA HandOver ==
    ASSUME CallType, ClientType, NEW t \in Callers, Unlock(t)
    PROVE  /\ pc' \in [Callers -> NBPcs \cup ParserPcs]
           /\ pc'["NB"] \in NBPcs /\ pc'["parser"] \in ParserPcs
           /\ lock' \in Callers \cup {NULL}
<1>1. t \in Callers /\ Other(t) \in Callers /\ Other(t) # t
  BY CallerFacts
<1>2. CASE pc[Other(t)] \in {"lock", "c_lock"}
  <2>1. pc' = [pc EXCEPT ![t] = "done",
                 ![Other(t)] = IF @ = "lock" THEN "granted" ELSE "c_granted"]
    BY <1>2 DEF Unlock
  <2>2. lock' = Other(t)
    BY <1>2 DEF Unlock
  <2>3. t = "parser" \/ pc["parser"] # "c_lock"
    BY DEF CallType, ParserPcs
  <2> QED BY <1>1, <1>2, <2>1, <2>2, <2>3 DEF CallType, Callers, NBPcs, ParserPcs, Other
<1>3. CASE pc[Other(t)] \notin {"lock", "c_lock"}
  <2>1. Goto(t, "done") /\ lock' = NULL
    BY <1>3 DEF Unlock
  <2>2. "done" \in NBPcs /\ "done" \in ParserPcs
    BY DEF NBPcs, ParserPcs
  <2> QED BY <2>1, <2>2, PcStep
<1> QED BY <1>2, <1>3

LEMMA CallStepType ==
    ASSUME TypeOK, NEW t \in Callers, CallStep(t)
    PROVE  TypeOK'
<1> USE DEF TypeOK
<1>0. t = "NB" \/ t = "parser"
  BY DEF Callers
<1>1. CASE TakeLock(t) \/ Granted(t)
  <2>1. \/ Goto(t, "open") /\ pc[t] \in {"call", "granted"}
        \/ Goto(t, "c_loop") /\ pc[t] \in {"c_call", "c_granted"}
        \/ Goto(t, "lock") /\ pc[t] = "call"
        \/ Goto(t, "c_lock") /\ pc[t] = "c_call"
    BY <1>1 DEF TakeLock, Granted, Owns
  <2>2. /\ pc' \in [Callers -> NBPcs \cup ParserPcs]
        /\ pc'["NB"] \in NBPcs /\ pc'["parser"] \in ParserPcs
    BY <2>1, PcStep DEF NBPcs, ParserPcs, CallType
  <2>3. ClientType'
    BY <1>1 DEF TakeLock, Granted, Owns, ClientType
  <2>4. CallType'
    BY <1>1, <2>2 DEF TakeLock, Granted, CallType
  <2>5. LineType'
    BY <1>1 DEF TakeLock, Granted, LineType, lineVars
  <2> QED BY <2>3, <2>4, <2>5
<1>2. CASE ExecSend(t)
  <2>1. /\ pc' \in [Callers -> NBPcs \cup ParserPcs]
        /\ pc'["NB"] \in NBPcs /\ pc'["parser"] \in ParserPcs
    BY <1>2, PcStep DEF NBPcs, ParserPcs, ExecSend
  <2>2. SendCommand(t) /\ UNCHANGED <<clientVars, result, tries, slipped>>
    BY <1>2 DEF ExecSend
  <2>3. ClientType'
    BY <2>2 DEF ClientType, clientVars
  <2>4. obj' \in [Callers -> Response]
    BY <1>2, <2>2, SendType DEF ExecSend, CallType, Response
  <2>5. CallType'
    BY <2>1, <2>2, <2>4 DEF CallType
  <2>6. LineType'
    BY <2>2, SendType DEF LineType
  <2> QED BY <2>3, <2>5, <2>6
<1>7. CASE ExecReset(t)
  <2>1. /\ pc' \in [Callers -> NBPcs \cup ParserPcs]
        /\ pc'["NB"] \in NBPcs /\ pc'["parser"] \in ParserPcs
    BY <1>7, PcStep DEF NBPcs, ParserPcs, ExecReset
  <2>2. obj' \in [Callers -> Response]
    BY <1>7 DEF ExecReset, CallType, Response
  <2>3. CallType'
    BY <1>7, <2>1, <2>2 DEF ExecReset, CallType
  <2> QED BY <1>7, <2>3 DEF ExecReset, ClientType, LineType, clientVars, lineVars
<1>3. CASE TakeNotice(t)
  <2>1. \/ Goto(t, "woken") /\ pc[t] = "sent"
        \/ Goto(t, "c_woken") /\ pc[t] = "c_sent"
        \/ Goto(t, "wait") /\ pc[t] = "sent"
        \/ Goto(t, "c_wait") /\ pc[t] = "c_sent"
    BY <1>3 DEF TakeNotice
  <2>2. /\ pc' \in [Callers -> NBPcs \cup ParserPcs]
        /\ pc'["NB"] \in NBPcs /\ pc'["parser"] \in ParserPcs
    BY <2>1, PcStep DEF NBPcs, ParserPcs, CallType
  <2>3. ClientType'
    BY <1>3 DEF TakeNotice, ClientType
  <2>4. CallType'
    BY <1>3, <2>2 DEF TakeNotice, CallType
  <2>5. LineType'
    BY <1>3 DEF TakeNotice, LineType, lineVars
  <2> QED BY <2>3, <2>4, <2>5
<1>4. CASE ExecCheck(t)
  <2>1. /\ pc' \in [Callers -> NBPcs \cup ParserPcs]
        /\ pc'["NB"] \in NBPcs /\ pc'["parser"] \in ParserPcs
    BY <1>4, PcStep DEF NBPcs, ParserPcs, ExecCheck
  <2>2. ClientType'
    BY <1>4 DEF ExecCheck, ClientType
  <2>3. CallType'
    BY <1>4, <2>1 DEF ExecCheck, CallType
  <2>4. LineType'
    BY <1>4 DEF ExecCheck, LineType, lineVars
  <2> QED BY <2>2, <2>3, <2>4
<1>5. CASE Exit(t)
  <2>1. Unlock(t) /\ resp' = NULL
        /\ UNCHANGED <<resp_status, tokens, line_counts, obj, result, tries, lineVars>>
    BY <1>5 DEF Exit, ClosedByExit
  <2>2. ClientType'
    BY <2>1, HandOver DEF ClientType
  <2>3. CallType'
    BY <2>1, HandOver DEF CallType
  <2>4. LineType'
    BY <2>1 DEF LineType, lineVars
  <2> QED BY <2>2, <2>3, <2>4
<1>6. CASE Delete(t)
  <2>1. Goto(t, IF t = "NB" THEN "idle" ELSE "read")
        /\ UNCHANGED <<clientVars, lineVars>>
    BY <1>6 DEF Delete
  <2>2. /\ pc' \in [Callers -> NBPcs \cup ParserPcs]
        /\ pc'["NB"] \in NBPcs /\ pc'["parser"] \in ParserPcs
    BY <2>1, PcStep, CallerFacts DEF NBPcs, ParserPcs
  <2>3. obj' \in [Callers -> Response]
    BY <1>6, ObjectType, RequestsAssumption DEF Delete, CallType
  <2>4. CallType'
    BY <1>6, <2>2, <2>3 DEF Delete, CallType, MaxTries
  <2>5. ClientType' /\ LineType'
    BY <2>1 DEF ClientType, LineType, clientVars, lineVars
  <2> QED BY <2>4, <2>5
<1> QED BY <1>1, <1>2, <1>3, <1>4, <1>5, <1>6, <1>7 DEF CallStep

\* The steps only NB_IOT takes.
LEMMA NBStepType ==
    ASSUME TypeOK,
           NBCalls \/ ConnectSend \/ ConnectGiveUp \/ ConnectCheck \/ ConnectDelete
    PROVE  TypeOK'
<1> USE DEF TypeOK
<1>0. "NB" \in Callers /\ "NB" # "parser"
  BY CallerFacts
<1>1. CASE NBCalls
  <2> PICK req \in Requests : Calls("NB", req, "call") \/ Calls("NB", req, "c_call")
    BY <1>1 DEF NBCalls, ExecCall, ConnectCall
  <2>1. Goto("NB", "call") \/ Goto("NB", "c_call")
    BY DEF Calls
  <2>2. /\ pc' \in [Callers -> NBPcs \cup ParserPcs]
        /\ pc'["NB"] \in NBPcs /\ pc'["parser"] \in ParserPcs
    BY <1>0, <2>1, PcStep DEF NBPcs
  <2>3. Object(req) \in Response
    BY ObjectType, RequestsAssumption
  <2>4. UNCHANGED <<clientVars, result, tries, lineVars>>
    BY <1>1 DEF NBCalls, ExecCall, ConnectCall
  <2>5. CallType'
    BY <2>2, <2>3, <2>4 DEF Calls, CallType
  <2> QED BY <2>4, <2>5 DEF ClientType, LineType, clientVars, lineVars
<1>2. CASE ConnectSend
  <2>1. /\ pc' \in [Callers -> NBPcs \cup ParserPcs]
        /\ pc'["NB"] \in NBPcs /\ pc'["parser"] \in ParserPcs
    BY <1>0, <1>2, PcStep DEF NBPcs, ConnectSend
  <2>2. SendCommand("NB") /\ UNCHANGED <<clientVars, result, slipped>>
    BY <1>2 DEF ConnectSend
  <2>3. tries' \in 0..MaxTries
    BY <1>2 DEF ConnectSend, TimeLeft, CallType, MaxTries
  <2>6. obj' \in [Callers -> Response]
    BY <1>0, <1>2, <2>2, SendType DEF ConnectSend, CallType, Response
  <2>4. CallType'
    BY <2>1, <2>2, <2>3, <2>6 DEF CallType
  <2>5. LineType'
    BY <1>0, <2>2, SendType DEF LineType
  <2> QED BY <2>2, <2>4, <2>5 DEF ClientType, clientVars
<1>3. CASE ConnectGiveUp \/ ConnectCheck
  <2>1. Goto("NB", "c_exit") /\ UNCHANGED <<clientVars, tries, obj, lineVars>>
    BY <1>3 DEF ConnectGiveUp, ConnectCheck
  <2>2. /\ pc' \in [Callers -> NBPcs \cup ParserPcs]
        /\ pc'["NB"] \in NBPcs /\ pc'["parser"] \in ParserPcs
    BY <1>0, <2>1, PcStep DEF NBPcs
  <2>3. result' \in [Callers -> {"none", "EOK", "ERROR", "ETIMEOUT", "connected"}]
    BY <1>3 DEF ConnectGiveUp, ConnectCheck, CallType
  <2>4. CallType'
    BY <2>1, <2>2, <2>3 DEF CallType
  <2> QED BY <2>1, <2>4 DEF ClientType, LineType, clientVars, lineVars
<1>4. CASE ConnectDelete
  <2>1. Goto("NB", "c_freed") /\ UNCHANGED <<clientVars, result, tries, lineVars>>
        /\ obj' = [obj EXCEPT !["NB"] = Object(CloseRequest)]
    BY <1>4 DEF ConnectDelete
  <2>2. /\ pc' \in [Callers -> NBPcs \cup ParserPcs]
        /\ pc'["NB"] \in NBPcs /\ pc'["parser"] \in ParserPcs
    BY <1>0, <2>1, PcStep DEF NBPcs
  <2>3. Object(CloseRequest) \in Response
    BY ObjectType, RequestsAssumption
  <2>4. CallType'
    BY <2>1, <2>2, <2>3 DEF CallType
  <2> QED BY <2>1, <2>4 DEF ClientType, LineType, clientVars, lineVars
<1> QED BY <1>1, <1>2, <1>3, <1>4

LEMMA NotifyPc ==
    ASSUME CallType, NotifyCaller
    PROVE  /\ pc' \in [Callers -> NBPcs \cup ParserPcs]
           /\ pc'["NB"] \in NBPcs /\ pc'["parser"] \in ParserPcs
<1>1. CASE \E t \in Callers : pc[t] \in {"wait", "c_wait"}
  <2>1. pc' = [t \in Callers |-> IF pc[t] = "wait" THEN "woken"
                                 ELSE IF pc[t] = "c_wait" THEN "c_woken" ELSE pc[t]]
    BY <1>1 DEF NotifyCaller
  <2>2. "woken" \in NBPcs /\ "woken" \in ParserPcs /\ "c_woken" \in NBPcs
        /\ "c_wait" \notin ParserPcs
    BY DEF NBPcs, ParserPcs
  <2> QED BY <2>1, <2>2, CallerFacts DEF CallType
<1> QED BY <1>1 DEF NotifyCaller, CallType

LEMMA ParseResponseType ==
    ASSUME TypeOK, ParseResponse
    PROVE  TypeOK'
<1> USE DEF TypeOK
<1> DEFINE o    == obj[resp]
           line == Head(wire)
<1>1. resp \in Callers /\ o \in Response /\ wire # <<>> /\ line \in Line
  BY DEF ParseResponse, ClientType, CallType, LineType
<1>2. Stored(o, line) \in Seq(Line) /\ Counted(o) \in Nat
  BY <1>1, StoredType DEF ClientType
<1>3. UNCHANGED <<lock, result, tries, modem, slipped>> /\ wire' = Tail(wire)
  BY DEF ParseResponse
<1>4. StatusAfter(o, line) \in {"OK", "ERROR", "TIMEOUT", "BUFF_FULL"}
  BY DEF StatusAfter, ClientType
<1>5. resp_status' = StatusAfter(o, line)
  BY DEF ParseResponse
<1>6. LineType'
  BY <1>1, <1>3, TailType DEF LineType
<1>7. CASE Ends(o, line)
  <2>1. /\ obj' = [obj EXCEPT ![resp].buf = Stored(o, line),
                              ![resp].line_counts = Counted(o)]
        /\ resp' = NULL /\ NotifyCaller /\ line_counts' = 0
    BY <1>7 DEF ParseResponse, ClosedByParser, ResetCounts
  <2>2. obj' \in [Callers -> Response]
    BY <1>1, <1>2, <2>1 DEF CallType, Response
  <2>3. CallType'
    BY <1>3, <2>1, <2>2, NotifyPc DEF CallType
  <2>4. tokens' \in Nat
    BY <2>1 DEF NotifyCaller, ClientType
  <2>5. ClientType'
    BY <1>3, <1>4, <1>5, <2>1, <2>4 DEF ClientType
  <2> QED BY <1>6, <2>3, <2>5
<1>8. CASE ~Ends(o, line)
  <2>1. /\ obj' = [obj EXCEPT ![resp].buf = Stored(o, line)]
        /\ line_counts' = Counted(o) /\ UNCHANGED <<resp, tokens, pc>>
    BY <1>8 DEF ParseResponse
  <2>2. obj' \in [Callers -> Response]
    BY <1>1, <1>2, <2>1 DEF CallType, Response
  <2>3. CallType'
    BY <1>3, <2>1, <2>2 DEF CallType
  <2>4. ClientType'
    BY <1>2, <1>3, <1>4, <1>5, <2>1 DEF ClientType
  <2> QED BY <1>6, <2>3, <2>4
<1> QED BY <1>7, <1>8

LEMMA ParserType ==
    ASSUME TypeOK, ParseOther \/ ParseContent \/ ContentCall \/ CloseUnanswered
    PROVE  TypeOK'
<1> USE DEF TypeOK
<1>0. "parser" \in Callers /\ "NB" # "parser"
  BY CallerFacts
<1>1. CASE ParseOther
  <2>1. UNCHANGED <<clientVars, callVars, modem, slipped>>
        /\ wire # <<>> /\ wire' = Tail(wire)
    BY <1>1 DEF ParseOther
  <2>2. LineType'
    BY <2>1, TailType DEF LineType
  <2> QED BY <2>1, <2>2 DEF ClientType, CallType, clientVars, callVars
<1>2. CASE ParseContent
  <2>1. /\ UNCHANGED <<clientVars, result, tries, modem, slipped>>
        /\ wire # <<>> /\ wire' = Tail(wire)
    BY <1>2 DEF ParseContent
  <2>2. LineType'
    BY <2>1, TailType DEF LineType
  <2>3. \/ Goto("parser", "delay") /\ obj' = [obj EXCEPT !["parser"] = Object(CloseRequest)]
        \/ Goto("parser", "no_resp") /\ obj' = obj
    BY <1>2 DEF ParseContent, Calls
  <2>4. /\ pc' \in [Callers -> NBPcs \cup ParserPcs]
        /\ pc'["NB"] \in NBPcs /\ pc'["parser"] \in ParserPcs
    BY <1>0, <2>3, PcStep DEF ParserPcs
  <2>5. Object(CloseRequest) \in Response
    BY ObjectType, RequestsAssumption
  <2>6. CallType'
    BY <2>1, <2>3, <2>4, <2>5 DEF CallType
  <2> QED BY <2>1, <2>2, <2>6 DEF ClientType, clientVars
<1>3. CASE ContentCall
  <2>1. Goto("parser", "call") /\ UNCHANGED <<clientVars, obj, result, tries, lineVars>>
    BY <1>3 DEF ContentCall
  <2>2. /\ pc' \in [Callers -> NBPcs \cup ParserPcs]
        /\ pc'["NB"] \in NBPcs /\ pc'["parser"] \in ParserPcs
    BY <1>0, <2>1, PcStep DEF ParserPcs
  <2>3. CallType'
    BY <2>1, <2>2 DEF CallType
  <2> QED BY <2>1, <2>3 DEF ClientType, LineType, clientVars, lineVars
<1>4. CASE CloseUnanswered
  <2>1. /\ resp' = NULL /\ resp_status' = "OK" /\ SendCommand("parser")
        /\ Goto("parser", "asserted") /\ slipped' = TRUE
        /\ UNCHANGED <<tokens, lock, line_counts, obj, result, tries>>
    BY <1>4 DEF CloseUnanswered
  <2>2. LineType'
    BY <1>0, <2>1, SendType DEF LineType
  <2>3. /\ pc' \in [Callers -> NBPcs \cup ParserPcs]
        /\ pc'["NB"] \in NBPcs /\ pc'["parser"] \in ParserPcs
    BY <1>0, <2>1, PcStep DEF ParserPcs
  <2>4. CallType'
    BY <2>1, <2>3 DEF CallType
  <2> QED BY <2>1, <2>2, <2>4 DEF ClientType
<1> QED BY <1>1, <1>2, <1>3, <1>4

LEMMA ModemType ==
    ASSUME TypeOK, ModemStep
    PROVE  TypeOK'
<1> USE DEF TypeOK
<1>1. modem \in Seq(Answer) /\ Len(modem) <= MaxModem /\ MaxModem \in Nat
      /\ wire \in Seq(Line) /\ Len(wire) <= MaxWire /\ MaxWire \in Nat
  BY BoundsAssumption DEF LineType
<1>2. ASSUME NEW line \in Line, Arrives(line)
      PROVE  wire' \in Seq(Line) /\ Len(wire') <= MaxWire
  BY <1>1, <1>2 DEF Arrives
<1>3. ASSUME modem # <<>>
      PROVE  /\ Head(modem) \in Answer
             /\ Tail(modem) \in Seq(Answer) /\ Len(Tail(modem)) <= MaxModem
  BY <1>1, <1>3
<1>4. CASE ModemLine
  <2>1. Head(modem) = modem[1] /\ 1 \in 1..Len(modem) /\ Head(modem) \in Answer
    BY <1>1, <1>3, <1>4 DEF ModemLine
  <2>2. wire' \in Seq(Line) /\ Len(wire') <= MaxWire
    <3>1. \A kind \in {"data", "ok", "error"} : [kind |-> kind, of |-> Head(modem).of] \in Line
      BY <2>1 DEF Line, Kinds, Answer
    <3> QED BY <3>1, <1>2, <1>4 DEF ModemLine
  <2>3. modem' \in Seq(Answer) /\ Len(modem') <= MaxModem
    <3>1. CASE Head(modem).left > 0
      <4>1. [Head(modem) EXCEPT !.left = @ - 1] \in Answer
        BY <2>1, <3>1 DEF Answer
      <4>2. modem' = [modem EXCEPT ![1] = [Head(modem) EXCEPT !.left = @ - 1]]
        BY <1>4, <2>1, <3>1 DEF ModemLine
      <4> QED BY <1>1, <2>1, <4>1, <4>2
    <3>2. CASE ~(Head(modem).left > 0)
      BY <1>3, <1>4, <3>2 DEF ModemLine
    <3> QED BY <3>1, <3>2
  <2> QED BY <1>4, <2>2, <2>3
       DEF ModemLine, ClientType, CallType, LineType, clientVars, callVars
<1>5. CASE ModemDrop
  BY <1>1, <1>3, <1>5 DEF ModemDrop, ClientType, CallType, LineType, clientVars, callVars
<1>6. CASE ModemUrc
  <2>1. \A kind \in {"urc", "content"} : [kind |-> kind, of |-> "none"] \in Line
    BY DEF Line, Kinds
  <2>2. wire' \in Seq(Line) /\ Len(wire') <= MaxWire
    BY <1>2, <1>6, <2>1 DEF ModemUrc
  <2> QED BY <1>6, <2>2
       DEF ModemUrc, ClientType, CallType, LineType, clientVars, callVars
<1>7. CASE UnknownLine
  <2>1. Gap \in Line
    BY DEF Gap, Line, Kinds
  <2>2. wire' \in Seq(Line) /\ Len(wire') <= MaxWire
    BY <1>2, <1>7, <2>1 DEF UnknownLine
  <2> QED BY <1>7, <2>2
       DEF UnknownLine, ClientType, CallType, LineType, clientVars, callVars
<1>8. CASE LoseLine
  BY TailType, <1>8 DEF LoseLine, ClientType, CallType, LineType, clientVars, callVars
<1> QED BY <1>4, <1>5, <1>6, <1>7, <1>8 DEF ModemStep

LEMMA TimeoutType ==
    ASSUME TypeOK, NEW t \in Callers, Timeout(t)
    PROVE  TypeOK'
<1> USE DEF TypeOK
<1>1. \/ Goto(t, "timedout") /\ pc[t] = "wait"
      \/ Goto(t, "c_loop") /\ pc[t] = "c_wait"
  BY DEF Timeout
<1>2. /\ pc' \in [Callers -> NBPcs \cup ParserPcs]
      /\ pc'["NB"] \in NBPcs /\ pc'["parser"] \in ParserPcs
  BY <1>1, PcStep DEF NBPcs, ParserPcs, CallType
<1>3. UNCHANGED <<clientVars, obj, result, tries, modem, wire>> /\ slipped' = TRUE
  BY DEF Timeout
<1> QED BY <1>2, <1>3 DEF ClientType, CallType, LineType, clientVars

LEMMA TypeStep ==
    ASSUME TypeOK, Next
    PROVE  TypeOK'
<1>1. "NB" \in Callers /\ "parser" \in Callers
  BY CallerFacts
<1>2. CASE NBCalls \/ NBStep
  BY <1>1, <1>2, CallStepType, NBStepType DEF NBStep
<1>3. CASE ParserStep
  BY <1>1, <1>3, CallStepType, ParseResponseType, ParserType DEF ParserStep
<1>4. CASE ModemStep
  BY <1>4, ModemType
<1>5. CASE \E t \in Callers : Timeout(t)
  BY <1>5, TimeoutType
<1> QED BY <1>2, <1>3, <1>4, <1>5 DEF Next

-----------------------------------------------------------------------------
(* A response is open only under its owner's lock.                         *)

LEMMA GotoPc ==
    ASSUME CallType, NEW t \in Callers, NEW label, Goto(t, label)
    PROVE  \A u \in Callers : pc'[u] = IF u = t THEN label ELSE pc[u]
BY DEF CallType, Goto

LEMMA UnlockPc ==
    ASSUME CallType, NEW t \in Callers, Unlock(t)
    PROVE  /\ pc'[t] = "done"
           /\ \/ /\ pc[Other(t)] \in {"lock", "c_lock"} /\ lock' = Other(t)
                 /\ pc'[Other(t)] \in {"granted", "c_granted"}
              \/ /\ pc[Other(t)] \notin {"lock", "c_lock"} /\ lock' = NULL
                 /\ pc'[Other(t)] = pc[Other(t)]
<1>1. t \in Callers /\ Other(t) \in Callers /\ Other(t) # t
  BY CallerFacts
<1>2. CASE pc[Other(t)] \in {"lock", "c_lock"}
  BY <1>1, <1>2 DEF Unlock, CallType
<1>3. CASE pc[Other(t)] \notin {"lock", "c_lock"}
  BY <1>1, <1>3, GotoPc DEF Unlock
<1> QED BY <1>2, <1>3

LEMMA NotifiedPc ==
    ASSUME CallType, NotifyCaller
    PROVE  \/ /\ \E t \in Callers : pc[t] \in {"wait", "c_wait"}
              /\ tokens' = tokens
              /\ \A t \in Callers : pc'[t] = IF pc[t] = "wait" THEN "woken"
                                              ELSE IF pc[t] = "c_wait" THEN "c_woken"
                                              ELSE pc[t]
           \/ /\ \A t \in Callers : pc[t] \notin {"wait", "c_wait"}
              /\ tokens' = tokens + 1 /\ pc' = pc
BY DEF NotifyCaller, CallType

\* One lemma for the steps that neither take nor release the lock.
LEMMA OpenKept ==
    ASSUME OpenOnlyUnderLock, lock' = lock, resp' \in {resp, NULL},
           \A t \in Callers : pc'[t] \in Inside <=> pc[t] \in Inside
    PROVE  OpenOnlyUnderLock'
BY DEF OpenOnlyUnderLock

LEMMA OpenCallStep ==
    ASSUME TypeOK, OpenOnlyUnderLock, NEW t \in Callers, CallStep(t)
    PROVE  OpenOnlyUnderLock'
<1>0. CallType
  BY DEF TypeOK
<1>1. CASE TakeLock(t) \/ Granted(t)
  <2>1. CASE lock = NULL \/ Granted(t)
    <3>1. resp' = t /\ lock' = t /\ (Goto(t, "open") \/ Goto(t, "c_loop"))
      BY <1>1, <2>1 DEF TakeLock, Granted, Owns
    <3>2. pc'[t] \in Inside /\ \A u \in Callers : u # t => pc'[u] = pc[u]
      BY <1>0, <3>1, GotoPc DEF Inside
    <3>3. lock \in {NULL, t}
      BY <1>1, <2>1 DEF Granted, OpenOnlyUnderLock, Inside
    <3>4. \A u \in Callers : u # t => pc[u] \notin Inside
      BY <3>3, NullAssumption DEF OpenOnlyUnderLock
    <3> QED BY <3>1, <3>2, <3>4 DEF OpenOnlyUnderLock
  <2>2. CASE lock # NULL /\ TakeLock(t)
    <3>1. /\ Goto(t, "lock") \/ Goto(t, "c_lock")
          /\ lock' = lock /\ resp' = resp /\ pc[t] \in {"call", "c_call"}
      BY <2>2 DEF TakeLock
    <3>2. \A u \in Callers : pc'[u] \in Inside <=> pc[u] \in Inside
      BY <1>0, <3>1, GotoPc DEF Inside
    <3> QED BY <3>1, <3>2, OpenKept
  <2> QED BY <1>1, <2>1, <2>2
<1>2. CASE ExecSend(t) \/ ExecReset(t) \/ TakeNotice(t) \/ ExecCheck(t)
  <2>1. /\ \E label \in Inside : Goto(t, label)
        /\ lock' = lock /\ resp' = resp /\ pc[t] \in Inside
    BY <1>2 DEF ExecSend, ExecReset, TakeNotice, ExecCheck, Inside, clientVars
  <2>2. \A u \in Callers : pc'[u] \in Inside <=> pc[u] \in Inside
    BY <1>0, <2>1, GotoPc
  <2> QED BY <2>1, <2>2, OpenKept
<1>3. CASE Exit(t)
  <2>1. resp' = NULL /\ Unlock(t) /\ pc[t] \in Inside
    BY <1>3 DEF Exit, ClosedByExit, Inside
  <2>2. lock = t /\ pc[Other(t)] \notin Inside
    BY <2>1, CallerFacts DEF OpenOnlyUnderLock
  <2>3. /\ pc'[t] \notin Inside
        /\ pc'[Other(t)] \in Inside <=> lock' = Other(t)
        /\ lock' \in {NULL, Other(t)}
    BY <1>0, <2>1, <2>2, UnlockPc, CallerFacts, NullAssumption DEF Inside
  <2> QED BY <2>1, <2>3, CallerFacts, NullAssumption DEF OpenOnlyUnderLock
<1>4. CASE Delete(t)
  <2>1. /\ Goto(t, IF t = "NB" THEN "idle" ELSE "read")
        /\ lock' = lock /\ resp' = resp /\ pc[t] = "done"
    BY <1>4 DEF Delete, clientVars
  <2>2. \A u \in Callers : pc'[u] \in Inside <=> pc[u] \in Inside
    BY <1>0, <2>1, GotoPc DEF Inside
  <2> QED BY <2>1, <2>2, OpenKept
<1> QED BY <1>1, <1>2, <1>3, <1>4 DEF CallStep

LEMMA OpenStep ==
    ASSUME TypeOK, OpenOnlyUnderLock, Next
    PROVE  OpenOnlyUnderLock'
<1>0. CallType /\ "NB" \in Callers /\ "parser" \in Callers
  BY CallerFacts DEF TypeOK
<1>1. ASSUME NEW t \in Callers, CallStep(t)
      PROVE  OpenOnlyUnderLock'
  BY <1>1, OpenCallStep
<1>2. CASE NBCalls
  <2>1. /\ Goto("NB", "call") \/ Goto("NB", "c_call")
        /\ lock' = lock /\ resp' = resp /\ pc["NB"] \in {"start", "idle"}
    BY <1>2 DEF NBCalls, ExecCall, ConnectCall, Calls, clientVars
  <2>2. \A u \in Callers : pc'[u] \in Inside <=> pc[u] \in Inside
    BY <1>0, <2>1, GotoPc DEF Inside
  <2> QED BY <2>1, <2>2, OpenKept
<1>3. CASE ConnectSend \/ ConnectGiveUp \/ ConnectCheck \/ ConnectDelete
  <2>1. /\ Goto("NB", "c_sent") \/ Goto("NB", "c_exit") \/ Goto("NB", "c_freed")
        /\ lock' = lock /\ resp' = resp /\ pc["NB"] \in {"c_loop", "c_woken", "c_exit"}
    BY <1>3 DEF ConnectSend, ConnectGiveUp, ConnectCheck, ConnectDelete, clientVars
  <2>2. \A u \in Callers : pc'[u] \in Inside <=> pc[u] \in Inside
    BY <1>0, <2>1, GotoPc DEF Inside
  <2> QED BY <2>1, <2>2, OpenKept
<1>4. CASE ParseResponse
  <2>1. lock' = lock /\ resp' \in {resp, NULL} /\ (NotifyCaller \/ pc' = pc)
    BY <1>4 DEF ParseResponse, ClosedByParser
  <2>2. \A u \in Callers : pc'[u] \in Inside <=> pc[u] \in Inside
    BY <1>0, <2>1, NotifiedPc DEF Inside
  <2> QED BY <2>1, <2>2, OpenKept
<1>5. CASE ParseContent \/ ContentCall \/ CloseUnanswered
  <2>1. /\ \E label \in {"delay", "no_resp", "call", "asserted"} : Goto("parser", label)
        /\ lock' = lock /\ resp' \in {resp, NULL}
        /\ pc["parser"] \in {"read", "delay", "no_resp"}
    BY <1>5 DEF ParseContent, ContentCall, CloseUnanswered, Calls, clientVars
  <2>2. \A u \in Callers : pc'[u] \in Inside <=> pc[u] \in Inside
    BY <1>0, <2>1, GotoPc DEF Inside
  <2> QED BY <2>1, <2>2, OpenKept
<1>6. CASE ParseOther \/ ModemStep
  <2>1. lock' = lock /\ resp' = resp /\ pc' = pc
    BY <1>6 DEF ParseOther, ModemStep, ModemLine, ModemDrop, ModemUrc, UnknownLine,
                LoseLine, clientVars, callVars
  <2> QED BY <2>1, OpenKept
<1>7. ASSUME NEW t \in Callers, Timeout(t)
      PROVE  OpenOnlyUnderLock'
  <2>1. /\ Goto(t, "timedout") \/ Goto(t, "c_loop")
        /\ lock' = lock /\ resp' = resp /\ pc[t] \in {"wait", "c_wait"}
    BY <1>7 DEF Timeout, clientVars
  <2>2. \A u \in Callers : pc'[u] \in Inside <=> pc[u] \in Inside
    BY <1>0, <2>1, GotoPc DEF Inside
  <2> QED BY <2>1, <2>2, OpenKept
<1> QED BY <1>0, <1>1, <1>2, <1>3, <1>4, <1>5, <1>6, <1>7 DEF Next, NBStep, ParserStep

-----------------------------------------------------------------------------
(* How many notices there are.                                             *)

\* For a step that leaves the response, its notices and its owner alone.
LEMMA TokensKept ==
    ASSUME Tokens, lock' = lock, tokens' = tokens, resp' = resp,
           \A t \in Callers : lock = t =>
               pc'[t] = pc[t] /\ (tries' = tries \/ pc[t] # "c_loop")
    PROVE  Tokens'
<1>1. ASSUME NEW t \in Callers, lock' = t
      PROVE  HolderTokens(t)'
  BY <1>1 DEF Tokens, HolderTokens
<1> QED BY <1>1 DEF Tokens, TokensBounded

\* For a step of the owner.
LEMMA TokensOfOwner ==
    ASSUME NEW t \in Callers, lock' = t, HolderTokens(t)'
    PROVE  Tokens'
BY NullAssumption DEF Tokens, TokensBounded

LEMMA TokensCallStep ==
    ASSUME TypeOK, OpenOnlyUnderLock, Tokens, Connecting, NEW t \in Callers, CallStep(t)
    PROVE  Tokens'
<1>0. CallType /\ tokens \in Nat /\ tries \in Nat /\ t # NULL
  BY NullAssumption DEF TypeOK, ClientType, CallType, MaxTries
<1>1. CASE TakeLock(t) \/ Granted(t)
  <2>1. CASE lock = NULL \/ Granted(t)
    <3>1. /\ lock' = t /\ resp' = t /\ tokens' = tokens /\ tries' = tries
          /\ \/ Goto(t, "open")
             \/ Goto(t, "c_loop") /\ pc[t] \in {"c_call", "c_granted"}
      BY <1>1, <2>1 DEF TakeLock, Granted, Owns
    <3>2. tokens <= 1
      BY <1>1, <2>1 DEF Granted, Tokens, TokensBounded, HolderTokens, OpenOnlyUnderLock,
                        Inside
    <3>3. CASE Goto(t, "open")
      <4>1. pc'[t] = "open"
        BY <1>0, <3>3, GotoPc
      <4>2. HolderTokens(t)'
        BY <1>0, <3>1, <3>2, <4>1 DEF HolderTokens
      <4> QED BY <3>1, <4>2, TokensOfOwner
    <3>4. CASE Goto(t, "c_loop") /\ pc[t] \in {"c_call", "c_granted"}
      <4>1. pc'[t] = "c_loop" /\ t = "NB"
        BY <1>0, <3>4, GotoPc DEF CallType, ParserPcs, Callers
      <4>2. tries = 0
        BY <3>4, <4>1 DEF Connecting
      <4>3. HolderTokens(t)'
        BY <1>0, <3>1, <3>2, <4>1, <4>2 DEF HolderTokens
      <4> QED BY <3>1, <4>3, TokensOfOwner
    <3> QED BY <3>1, <3>3, <3>4
  <2>2. CASE lock # NULL /\ TakeLock(t)
    <3>1. /\ Goto(t, "lock") \/ Goto(t, "c_lock")
          /\ UNCHANGED <<lock, resp, tokens, tries>> /\ pc[t] \in {"call", "c_call"}
      BY <2>2 DEF TakeLock
    <3>2. lock # t
      BY <3>1 DEF OpenOnlyUnderLock, Inside
    <3> QED BY <1>0, <3>1, <3>2, GotoPc, TokensKept
  <2> QED BY <1>1, <2>1, <2>2
<1>2. CASE ExecSend(t) \/ ExecReset(t)
  <2>1. /\ UNCHANGED <<lock, resp, tokens, tries>>
        /\ pc[t] \in {"open", "written"} /\ pc'[t] \in {"written", "sent"}
    BY <1>0, <1>2, GotoPc DEF ExecSend, ExecReset, clientVars
  <2>2. lock = t
    BY <2>1 DEF OpenOnlyUnderLock, Inside
  <2>3. HolderTokens(t)'
    BY <2>1, <2>2 DEF Tokens, HolderTokens
  <2> QED BY <2>1, <2>2, <2>3, TokensOfOwner
<1>3. CASE TakeNotice(t)
  <2>1. /\ UNCHANGED <<lock, resp, tries>> /\ pc[t] \in {"sent", "c_sent"}
        /\ \/ tokens > 0 /\ tokens' = tokens - 1 /\ pc'[t] \in {"woken", "c_woken"}
           \/ ~(tokens > 0) /\ tokens' = tokens /\ pc'[t] \in {"wait", "c_wait"}
    BY <1>0, <1>3, GotoPc DEF TakeNotice
  <2>2. lock = t
    BY <2>1 DEF OpenOnlyUnderLock, Inside
  <2>3. IF resp = NULL THEN tokens \in 1..2 ELSE tokens <= 1
    BY <2>1, <2>2 DEF Tokens, HolderTokens
  <2>4. HolderTokens(t)'
    BY <1>0, <2>1, <2>3 DEF HolderTokens
  <2> QED BY <2>1, <2>2, <2>4, TokensOfOwner
<1>4. CASE ExecCheck(t)
  <2>1. /\ UNCHANGED <<lock, resp, tokens, tries>>
        /\ pc[t] \in {"woken", "timedout"} /\ pc'[t] = "exit"
    BY <1>0, <1>4, GotoPc DEF ExecCheck
  <2>2. lock = t
    BY <2>1 DEF OpenOnlyUnderLock, Inside
  <2>3. HolderTokens(t)'
    BY <2>1, <2>2 DEF Tokens, HolderTokens
  <2> QED BY <2>1, <2>2, <2>3, TokensOfOwner
<1>5. CASE Exit(t)
  <2>1. resp' = NULL /\ tokens' = tokens /\ Unlock(t) /\ pc[t] \in {"exit", "c_freed"}
    BY <1>5 DEF Exit, ClosedByExit
  <2>2. lock = t
    BY <2>1 DEF OpenOnlyUnderLock, Inside
  <2>3. tokens <= 1
    BY <1>0, <2>1, <2>2 DEF Tokens, HolderTokens
  <2>4. \/ lock' = NULL
        \/ lock' = Other(t) /\ pc'[Other(t)] \in {"granted", "c_granted"}
    BY <1>0, <2>1, UnlockPc
  <2>5. CASE lock' = NULL
    BY <2>1, <2>3, <2>5, NullAssumption DEF Tokens, TokensBounded
  <2>6. CASE lock' = Other(t) /\ pc'[Other(t)] \in {"granted", "c_granted"}
    <3>1. HolderTokens(Other(t))'
      BY <2>1, <2>3, <2>6 DEF HolderTokens
    <3> QED BY <2>6, <3>1, TokensOfOwner, CallerFacts
  <2> QED BY <2>4, <2>5, <2>6
<1>6. CASE Delete(t)
  <2>1. UNCHANGED <<lock, resp, tokens>> /\ pc[t] = "done"
        /\ \A u \in Callers : u # t => pc'[u] = pc[u]
    BY <1>0, <1>6, GotoPc DEF Delete, clientVars
  <2>2. lock # t
    BY <2>1 DEF OpenOnlyUnderLock, Inside
  <2>3. tries' = tries \/ pc["parser"] # "c_loop"
    BY <1>0 DEF CallType, ParserPcs
  <2>4. t = "NB" \/ tries' = tries
    BY <1>6 DEF Delete
  <2>5. \A u \in Callers : lock = u =>
          pc'[u] = pc[u] /\ (tries' = tries \/ pc[u] # "c_loop")
    BY <2>1, <2>2, <2>3, <2>4 DEF Callers
  <2> QED BY <2>1, <2>5, TokensKept
<1> QED BY <1>1, <1>2, <1>3, <1>4, <1>5, <1>6 DEF CallStep

\* The steps of wait_connect.
LEMMA TokensConnect ==
    ASSUME TypeOK, OpenOnlyUnderLock, Tokens, Connecting,
           ConnectSend \/ ConnectGiveUp \/ ConnectCheck \/ ConnectDelete
    PROVE  Tokens'
<1>0. CallType /\ tokens \in Nat /\ tries \in Nat /\ "NB" \in Callers
  BY CallerFacts DEF TypeOK, ClientType, CallType, MaxTries
<1>1. lock = "NB"
  BY <1>0
  DEF ConnectSend, ConnectGiveUp, ConnectCheck, ConnectDelete, OpenOnlyUnderLock, Inside
<1>2. HolderTokens("NB")
  BY <1>0, <1>1 DEF Tokens
<1>3. CASE ConnectSend
  <2>1. /\ UNCHANGED <<lock, resp, tokens>> /\ tries' = tries + 1
        /\ pc["NB"] = "c_loop" /\ pc'["NB"] = "c_sent"
    BY <1>0, <1>3, GotoPc DEF ConnectSend, clientVars
  <2>2. HolderTokens("NB")'
    BY <1>0, <1>2, <2>1 DEF HolderTokens
  <2> QED BY <1>0, <1>1, <2>1, <2>2, TokensOfOwner
<1>4. CASE ConnectGiveUp \/ ConnectCheck \/ ConnectDelete
  <2>1. /\ UNCHANGED <<lock, resp, tokens, tries>> /\ pc'["NB"] \in {"c_exit", "c_freed"}
        /\ \/ pc["NB"] = "c_loop" /\ tries > 0
           \/ pc["NB"] \in {"c_woken", "c_exit"}
    BY <1>0, <1>4, GotoPc DEF ConnectGiveUp, ConnectCheck, ConnectDelete, clientVars
  <2>2. HolderTokens("NB")'
    BY <1>0, <1>2, <2>1 DEF HolderTokens
  <2> QED BY <1>0, <1>1, <2>1, <2>2, TokensOfOwner
<1> QED BY <1>3, <1>4

\* The end of a response gives one notice to the caller, now or later.
LEMMA TokensResponse ==
    ASSUME TypeOK, OpenOnlyUnderLock, Tokens, Connecting, ParseResponse
    PROVE  Tokens'
<1>0. CallType /\ tokens \in Nat /\ tries \in Nat
  BY DEF TypeOK, ClientType, CallType, MaxTries
<1>1. resp \in Callers /\ lock = resp /\ lock' = lock /\ tries' = tries /\ resp # NULL
  BY DEF ParseResponse, TypeOK, ClientType, OpenOnlyUnderLock
<1>2. HolderTokens(resp) /\ pc[resp] \in Inside
  BY <1>1 DEF Tokens, OpenOnlyUnderLock
<1>3. CASE Ends(obj[resp], Head(wire))
  <2>1. resp' = NULL /\ NotifyCaller
    BY <1>3 DEF ParseResponse, ClosedByParser
  <2>2. \A t \in Callers : pc[t] \in {"wait", "c_wait"} => t = resp
    BY <1>1 DEF OpenOnlyUnderLock, Inside
  <2>3. CASE pc[resp] \in {"wait", "c_wait"}
    <3>1. tokens' = tokens /\ pc'[resp] \in {"woken", "c_woken"}
      BY <1>0, <1>1, <2>1, <2>3, NotifiedPc
    <3>2. tokens = 0
      BY <1>2, <2>3 DEF HolderTokens
    <3> DEFINE t == resp
    <3>3. lock' = t /\ t \in Callers /\ pc'[t] \in {"woken", "c_woken"}
      BY <1>1, <3>1
    <3> HIDE DEF t
    <3>4. \A u \in Callers : pc'[u] \in {"woken", "c_woken"} => HolderTokens(u)'
      BY <2>1, <3>1, <3>2 DEF HolderTokens
    <3> QED BY <3>3, <3>4, NullAssumption DEF Tokens, TokensBounded
  <2>4. CASE pc[resp] \notin {"wait", "c_wait"}
    <3>1. tokens' = tokens + 1 /\ pc' = pc
      BY <1>0, <2>1, <2>2, <2>4, NotifiedPc
    <3>2. ASSUME NEW u \in Callers, u = resp
          PROVE  HolderTokens(u)'
      BY <1>0, <1>1, <1>2, <2>1, <2>4, <3>1, <3>2 DEF HolderTokens, Inside
    <3> QED BY <1>1, <3>2, NullAssumption DEF Tokens, TokensBounded
  <2> QED BY <2>3, <2>4
<1>4. CASE ~Ends(obj[resp], Head(wire))
  <2>1. UNCHANGED <<resp, tokens, pc>>
    BY <1>4 DEF ParseResponse
  <2> QED BY <1>1, <2>1, TokensKept
<1> QED BY <1>3, <1>4

LEMMA TokensStep ==
    ASSUME TypeOK, OpenOnlyUnderLock, Tokens, Connecting, Next
    PROVE  Tokens'
<1>0. CallType /\ "NB" \in Callers /\ "parser" \in Callers
  BY CallerFacts DEF TypeOK
<1>1. ASSUME NEW t \in Callers, CallStep(t)
      PROVE  Tokens'
  BY <1>1, TokensCallStep
<1>2. CASE NBCalls \/ ParseContent \/ ContentCall \/ CloseUnanswered
  <2>1. \E t \in Callers : /\ pc[t] \notin Inside
                           /\ \A u \in Callers : u # t => pc'[u] = pc[u]
    <3>1. \/ pc["NB"] \notin Inside /\ (Goto("NB", "call") \/ Goto("NB", "c_call"))
          \/ pc["parser"] \notin Inside /\ \E label : Goto("parser", label)
      BY <1>2 DEF NBCalls, ExecCall, ConnectCall, ParseContent, ContentCall,
                  CloseUnanswered, Calls, Inside
    <3> QED BY <1>0, <3>1, GotoPc
  <2>2. UNCHANGED <<lock, resp, tokens, tries>>
    <3>1. lock = NULL => resp = NULL
      BY DEF OpenOnlyUnderLock
    <3> QED BY <1>2, <3>1 DEF NBCalls, ExecCall, ConnectCall, ParseContent, ContentCall,
                              CloseUnanswered, clientVars
  <2> QED BY <2>1, <2>2, TokensKept DEF OpenOnlyUnderLock
<1>3. CASE ParseOther \/ ModemStep
  <2>1. UNCHANGED <<lock, resp, tokens, tries, pc>>
    BY <1>3 DEF ParseOther, ModemStep, ModemLine, ModemDrop, ModemUrc, UnknownLine,
                LoseLine, clientVars, callVars
  <2> QED BY <2>1, TokensKept
<1>4. ASSUME NEW t \in Callers, Timeout(t)
      PROVE  Tokens'
  <2>1. /\ UNCHANGED <<lock, resp, tokens, tries>> /\ pc[t] \in {"wait", "c_wait"}
        /\ pc'[t] = IF pc[t] = "wait" THEN "timedout" ELSE "c_loop"
    BY <1>0, <1>4, GotoPc DEF Timeout, clientVars
  <2>2. lock = t
    BY <2>1 DEF OpenOnlyUnderLock, Inside
  <2>3. resp # NULL /\ tokens = 0
    BY <2>1, <2>2 DEF Tokens, HolderTokens
  <2>4. HolderTokens(t)'
    BY <2>1, <2>3 DEF HolderTokens
  <2> QED BY <2>1, <2>2, <2>4, TokensOfOwner
<1> QED BY <1>1, <1>2, <1>3, <1>4, <1>0, TokensConnect, TokensResponse
     DEF Next, NBStep, ParserStep

LEMMA ConnectingStep ==
    ASSUME TypeOK, OpenOnlyUnderLock, Connecting, Next
    PROVE  Connecting'
<1>0. /\ CallType /\ tries \in Nat /\ "NB" \in Callers /\ "parser" \in Callers
      /\ "parser" # "NB" /\ \A t \in Callers : t = "NB" \/ t = "parser"
  BY CallerFacts DEF TypeOK, CallType, MaxTries, Callers
<1> DEFINE early == {"start", "c_call", "c_lock", "c_granted"}
<1>1. ASSUME tries' = tries, pc'["NB"] \in early => pc["NB"] \in early,
             pc'["NB"] \in {"c_sent", "c_wait"} => pc["NB"] \in {"c_sent", "c_wait"}
      PROVE  Connecting'
  BY <1>1 DEF Connecting
<1>2. CASE CallStep("parser")
  <2>1. tries' = tries
    BY <1>0, <1>2 DEF CallStep, TakeLock, Granted, ExecSend, ExecReset, TakeNotice, ExecCheck, Exit,
                      Delete
  <2>2. \/ pc'["NB"] = pc["NB"]
        \/ pc["NB"] = "lock" /\ pc'["NB"] = "granted"
        \/ pc["NB"] = "c_lock" /\ pc'["NB"] = "c_granted"
    <3>1. CASE Exit("parser")
      BY <1>0, <3>1 DEF Exit, Unlock, Goto, Other, CallType
    <3>2. CASE ~Exit("parser")
      <4>1. \E label : Goto("parser", label)
        BY <1>2, <3>2 DEF CallStep, TakeLock, Granted, Owns, ExecSend, ExecReset,
                          TakeNotice, ExecCheck, Delete
      <4> QED BY <1>0, <4>1, GotoPc
    <3> QED BY <3>1, <3>2
  <2> QED BY <1>1, <2>1, <2>2
<1>3. CASE CallStep("NB")
  <2>1. CASE Delete("NB")
    <3>1. pc'["NB"] = "idle"
      BY <1>0, <2>1, GotoPc DEF Delete
    <3> QED BY <3>1 DEF Connecting
  <2>2. CASE Exit("NB")
    <3>1. pc'["NB"] = "done"
      BY <1>0, <2>2, UnlockPc DEF Exit
    <3> QED BY <3>1 DEF Connecting
  <2>3. CASE ~Delete("NB") /\ ~Exit("NB")
    <3>1. tries' = tries
      BY <1>3, <2>3 DEF CallStep, TakeLock, Granted, ExecSend, ExecReset, TakeNotice, ExecCheck
    <3>2. \/ pc["NB"] \in {"call", "c_call", "granted", "c_granted"}
             /\ pc'["NB"] \in {"open", "c_loop", "lock"}
          \/ pc["NB"] = "c_call" /\ pc'["NB"] = "c_lock"
          \/ pc["NB"] = "c_sent" /\ pc'["NB"] \in {"c_woken", "c_wait"}
          \/ pc["NB"] \in {"open", "written", "sent", "woken", "timedout"}
             /\ pc'["NB"] \in {"written", "sent", "woken", "wait", "exit"}
      BY <1>0, <1>3, <2>3, GotoPc
         DEF CallStep, TakeLock, Granted, Owns, ExecSend, ExecReset, TakeNotice, ExecCheck
    <3> QED BY <1>1, <3>1, <3>2
  <2> QED BY <2>1, <2>2, <2>3
<1>4. CASE NBCalls
  <2>1. /\ tries' = tries
        /\ \/ pc'["NB"] = "call"
           \/ pc["NB"] = "start" /\ pc'["NB"] = "c_call"
    BY <1>0, <1>4, GotoPc DEF NBCalls, ExecCall, ConnectCall, Calls
  <2> QED BY <1>1, <2>1
<1>5. CASE ConnectSend
  <2>1. pc'["NB"] = "c_sent" /\ tries' = tries + 1
    BY <1>0, <1>5, GotoPc DEF ConnectSend
  <2> QED BY <1>0, <2>1 DEF Connecting
<1>6. CASE ConnectGiveUp \/ ConnectCheck \/ ConnectDelete
  <2>1. pc'["NB"] \in {"c_exit", "c_freed"}
    BY <1>0, <1>6, GotoPc DEF ConnectGiveUp, ConnectCheck, ConnectDelete
  <2> QED BY <2>1 DEF Connecting
<1>7. CASE ParseResponse
  <2>1. tries' = tries /\ (NotifyCaller \/ pc' = pc)
    BY <1>7 DEF ParseResponse
  <2>2. pc'["NB"] \in {pc["NB"], "woken", "c_woken"}
    BY <1>0, <2>1, NotifiedPc
  <2> QED BY <1>1, <2>1, <2>2
<1>8. CASE ParseContent \/ ContentCall \/ CloseUnanswered
  <2>1. tries' = tries /\ \E label : Goto("parser", label)
    BY <1>8 DEF ParseContent, ContentCall, CloseUnanswered, Calls
  <2>2. pc'["NB"] = pc["NB"]
    BY <1>0, <2>1, GotoPc
  <2> QED BY <1>1, <2>1, <2>2
<1>9. CASE ParseOther \/ ModemStep
  <2>1. tries' = tries /\ pc' = pc
    BY <1>9 DEF ParseOther, ModemStep, ModemLine, ModemDrop, ModemUrc, UnknownLine,
                LoseLine, callVars
  <2> QED BY <1>1, <2>1
<1>10. ASSUME NEW t \in Callers, Timeout(t)
       PROVE  Connecting'
  <2>1. tries' = tries /\ (Goto(t, "timedout") \/ Goto(t, "c_loop"))
    BY <1>10 DEF Timeout
  <2>2. pc'["NB"] \in {pc["NB"], "timedout", "c_loop"}
    BY <1>0, <2>1, GotoPc
  <2> QED BY <1>1, <2>1, <2>2
<1> QED BY <1>2, <1>3, <1>4, <1>5, <1>6, <1>7, <1>8, <1>9, <1>10
     DEF Next, NBStep, ParserStep

-----------------------------------------------------------------------------
(* The invariant.                                                          *)

LEMMA InitInvariant == Init => IInv
<1> SUFFICES ASSUME Init PROVE IInv
  OBVIOUS
<1>1. pc["NB"] = "start" /\ pc["parser"] = "read"
  BY DEF Init
<1>2. TypeOK
  <2>1. ClientType
    BY DEF Init, ClientType
  <2>2. obj \in [Callers -> Response]
    BY ObjectType, RequestsAssumption DEF Init
  <2>3. pc \in [Callers -> NBPcs \cup ParserPcs]
    BY DEF Init, Callers, NBPcs, ParserPcs
  <2>4. CallType
    BY <1>1, <2>2, <2>3 DEF Init, CallType, NBPcs, ParserPcs, MaxTries
  <2>5. Len(wire) <= MaxWire /\ Len(modem) <= MaxModem
    <3>1. wire = <<>> /\ modem = <<>>
      BY DEF Init
    <3> QED BY <3>1, BoundsAssumption
  <2>6. LineType
    <3>1. modem \in Seq(Answer) /\ wire \in Seq(Line)
      <4>1. modem = <<>> /\ wire = <<>>
        BY DEF Init
      <4> QED BY <4>1
    <3>2. slipped \in BOOLEAN
      BY DEF Init
    <3> QED BY <2>5, <3>1, <3>2 DEF LineType
  <2> QED BY <2>1, <2>4, <2>6 DEF TypeOK
<1>3. OpenOnlyUnderLock
  BY <1>1, NullAssumption DEF Init, OpenOnlyUnderLock, Inside, Callers
<1>4. Tokens
  <2>1. tokens = 0 /\ \A t \in Callers : lock # t
    BY NullAssumption DEF Init
  <2> QED BY <2>1 DEF Tokens, TokensBounded
<1>5. Connecting
  BY <1>1 DEF Init, Connecting
<1> QED BY <1>2, <1>3, <1>4, <1>5 DEF IInv

\* The invariant holds in every state of the client, whatever the modem sends
\* or leaves out, and whenever the waits time out.
THEOREM AtInvariance == Spec => []IInv
<1>1. IInv /\ [Next]_vars => IInv'
  <2> SUFFICES ASSUME IInv, [Next]_vars PROVE IInv'
    OBVIOUS
  <2>1. CASE Next
    BY <2>1, TypeStep, OpenStep, TokensStep, ConnectingStep DEF IInv
  <2>2. CASE UNCHANGED vars
    BY <2>2 DEF IInv, TypeOK, ClientType, CallType, LineType, OpenOnlyUnderLock, Tokens,
                TokensBounded, HolderTokens, Connecting, vars, clientVars, callVars,
                lineVars
  <2> QED BY <2>1, <2>2
<1> QED BY <1>1, InitInvariant, PTL DEF Spec

\* Every variable of the client keeps its type: neither the lines on the wire
\* nor the unanswered commands outgrow their bounds.
THEOREM AtTypeCorrect == Spec => []TypeOK
<1>1. IInv => TypeOK
  BY DEF IInv
<1> QED BY <1>1, AtInvariance, PTL

\* client->resp is RT_NULL or the response of the thread that owns
\* client->lock: client_parser writes into no response of a call that is over
\* (at_client.c:676-719).
THEOREM OpenOnlyUnderLockAlways == Spec => []OpenOnlyUnderLock
<1>1. IInv => OpenOnlyUnderLock
  BY DEF IInv
<1> QED BY <1>1, AtInvariance, PTL

\* Late answers, any number of them, leave at most one token in
\* client->resp_notice when no call is under way (at_client.c:311, 719).
THEOREM TokensBoundedAlways == Spec => []TokensBounded
<1>1. IInv => TokensBounded
  BY DEF IInv, Tokens
<1> QED BY <1>1, AtInvariance, PTL

-----------------------------------------------------------------------------
(* Commands and answers stay in step until the first timeout.              *)

\* A request that ends by its number of lines ends at the last of its answer.
Fitting(req) == req.line_num \in {0, req.data + 1}

FittingRequests == \A req \in Requests \cup {CloseRequest} : Fitting(req)

\* Where the owner has opened its response, or not yet, and has sent nothing;
\* where it waits for the answer; where it has it.
Unsent   == {"granted", "open", "c_granted", "c_loop"}
Awaiting == {"written", "sent", "wait", "c_sent", "c_wait"}
Answered == {"woken", "exit", "c_woken", "c_exit", "c_freed"}

\* Where a thread of either kind is about to own the lock.
Calling  == {"delay", "call", "lock", "c_call", "c_lock"}
InConnect == {"c_call", "c_lock", "c_granted", "c_loop", "c_sent", "c_wait", "c_woken", "c_exit"}

IsAnswer(line) == line.kind \in {"data", "ok", "error"}

\* No answer is on its way.
NoAnswers == \A i \in 1..Len(wire) : ~IsAnswer(wire[i])
Quiet == modem = <<>> /\ NoAnswers

\* How many lines of its answer to t the modem has sent, at most.
Emitted(t) == IF modem = <<>> THEN obj[t].req.data + 1
              ELSE obj[t].req.data - modem[1].left

\* The lines of the answer on the wire can be numbered, in order, from behind
\* those that the parser has counted up to those the modem has sent.
Numbering(t, num) ==
    \A i \in 1..Len(wire) : IsAnswer(wire[i]) =>
        /\ line_counts < num[i] /\ num[i] <= Emitted(t)
        /\ \A j \in 1..Len(wire) : i < j /\ IsAnswer(wire[j]) => num[i] < num[j]

ModemAnswers(t) ==
    /\ Len(modem) <= 1
    /\ modem # <<>> => modem[1].of = t /\ modem[1].left <= obj[t].req.data

WireAnswers(t) ==
    /\ \A i \in 1..Len(wire) : IsAnswer(wire[i]) => wire[i].of = t
    /\ \A i \in 1..Len(wire) : wire[i].kind \in {"ok", "error"} =>
          /\ modem = <<>>
          /\ \A j \in 1..Len(wire) : i < j => ~IsAnswer(wire[j])
    /\ \E num \in [1..Len(wire) -> Nat] : Numbering(t, num)

BufferFills(t) ==
    /\ \A i \in 1..Len(obj[t].buf) : obj[t].buf[i].of = t
    /\ Len(obj[t].buf) = line_counts
    /\ line_counts <= obj[t].req.room /\ line_counts <= Emitted(t)
    /\ obj[t].req.line_num # 0 => line_counts < obj[t].req.line_num

InProgress(t) == ModemAnswers(t) /\ WireAnswers(t) /\ BufferFills(t)

\* The response is a whole answer, or one that failed.
Complete(t, ok) ==
    LET o == obj[t]
    IN  /\ \A i \in 1..Len(o.buf) : o.buf[i].of = t
        /\ IF o.req.line_num # 0 THEN ok => Len(o.buf) = o.req.line_num
           ELSE Len(o.buf) < o.req.room
                => /\ o.buf # <<>>
                   /\ o.buf[Len(o.buf)].kind \in IF ok THEN {"ok"} ELSE {"ok", "error"}

\* What the buffer of t holds.
BufferInStep(t) ==
    /\ Fitting(obj[t].req)
    /\ pc[t] \in Calling \cup Unsent => obj[t].buf = <<>>
    /\ pc[t] \in InConnect => obj[t].req.line_num = 0
    /\ pc[t] \in {"exit", "done"} /\ result[t] = "EOK" => Complete(t, TRUE)
    /\ pc[t] = "c_exit" => Complete(t, FALSE)
    /\ pc[t] \in {"c_exit", "c_freed"} => result[t] # "EOK"
    /\ pc[t] # "timedout" /\ (pc[t] = "c_loop" => tries = 0)

\* What is on its way while nobody, or the owner t, expects an answer.
Idle == resp = NULL \/ pc[resp] \in Unsent => Quiet /\ line_counts = 0

OwnerInStep(t) ==
    /\ pc[t] \in Unsent => tokens = 0 /\ (pc[t] \in {"open", "c_loop"} => resp = t)
    /\ pc[t] \in Awaiting =>
         IF resp = NULL THEN tokens = 1 /\ Complete(t, resp_status = "OK")
                        ELSE tokens = 0 /\ InProgress(t)
    /\ pc[t] \in Answered => resp = NULL /\ tokens = 0
    /\ pc[t] \in {"woken", "c_woken"} => Complete(t, resp_status = "OK")

Owners == /\ lock = NULL => tokens = 0
          /\ \A t \in Callers : lock = t => OwnerInStep(t)

Synced == (\A t \in Callers : BufferInStep(t)) /\ Idle /\ Owners

InStep == ~slipped => Synced

-----------------------------------------------------------------------------
(* The line, and the answer on it.                                         *)

LEMMA TailLines ==
    ASSUME NEW w \in Seq(Line), w # <<>>
    PROVE  /\ Len(w) \in Nat \ {0} /\ Head(w) = w[1] /\ w[1] \in Line
           /\ Len(Tail(w)) = Len(w) - 1
           /\ \A i \in 1..Len(Tail(w)) : i + 1 \in 1..Len(w) /\ Tail(w)[i] = w[i + 1]
OBVIOUS

LEMMA AddedLines ==
    ASSUME NEW w \in Seq(Line), NEW line \in Line
    PROVE  /\ Len(w) \in Nat /\ Len(Append(w, line)) = Len(w) + 1
           /\ \A i \in 1..Len(w) : Append(w, line)[i] = w[i]
           /\ Append(w, line)[Len(w) + 1] = line
OBVIOUS

\* What the answer of t is measured with.
LEMMA EmittedFacts ==
    ASSUME TypeOK, NEW t \in Callers
    PROVE  /\ Emitted(t) \in Int
           /\ modem # <<>> => Emitted(t) <= obj[t].req.data
           /\ Emitted(t) <= obj[t].req.data + 1
           /\ obj[t].req.data \in Nat /\ obj[t].req.line_num \in Nat
           /\ obj[t].req.room \in Nat /\ obj[t].buf \in Seq(Line)
           /\ wire \in Seq(Line) /\ line_counts \in Nat
<1>1. /\ obj[t].req.data \in Nat /\ obj[t].req.line_num \in Nat
      /\ obj[t].req.room \in Nat /\ obj[t].buf \in Seq(Line)
  BY DEF TypeOK, CallType, Response, Request
<1>2. modem # <<>> => modem[1].left \in Nat
  <2>1. modem \in Seq(Answer)
    BY DEF TypeOK, LineType
  <2>2. modem # <<>> => modem[1] \in Answer
    BY <2>1
  <2> QED BY <2>2 DEF Answer
<1> QED BY <1>1, <1>2 DEF Emitted, TypeOK, LineType, ClientType

\* The oldest line goes, and the numbers of the others stay.
LEMMA TailAnswers ==
    ASSUME NEW t, wire \in Seq(Line), wire # <<>>, wire' = Tail(wire), modem' = modem,
           Emitted(t)' = Emitted(t), WireAnswers(t),
           NEW num \in [1..Len(wire) -> Nat], Numbering(t, num),
           \A j \in 2..Len(wire) : IsAnswer(wire[j]) => line_counts' < num[j]
    PROVE  WireAnswers(t)'
<1>1. /\ Len(wire) \in Nat \ {0} /\ Len(wire') = Len(wire) - 1
      /\ \A i \in 1..Len(wire') : i + 1 \in 2..Len(wire) /\ wire'[i] = wire[i + 1]
  BY TailLines
<1>2. PICK n \in [1..Len(wire') -> Nat] : \A i \in 1..Len(wire') : n[i] = num[i + 1]
  <2>1. [i \in 1..Len(wire') |-> num[i + 1]] \in [1..Len(wire') -> Nat]
    BY <1>1
  <2> QED BY <2>1
<1>3. \A i \in 1..Len(wire') : IsAnswer(wire'[i]) =>
        /\ line_counts' < n[i] /\ n[i] <= Emitted(t)
        /\ \A j \in 1..Len(wire') : i < j /\ IsAnswer(wire'[j]) => n[i] < n[j]
  <2> TAKE i \in 1..Len(wire')
  <2> HAVE IsAnswer(wire'[i])
  <2>1. /\ i + 1 \in 2..Len(wire) /\ i + 1 \in 1..Len(wire) /\ IsAnswer(wire[i + 1])
        /\ n[i] = num[i + 1]
    BY <1>1, <1>2
  <2>2. line_counts' < n[i] /\ n[i] <= Emitted(t)
    BY <2>1 DEF Numbering
  <2>3. ASSUME NEW j \in 1..Len(wire'), i < j, IsAnswer(wire'[j])
        PROVE  n[i] < n[j]
    <3>1. /\ j + 1 \in 1..Len(wire) /\ IsAnswer(wire[j + 1]) /\ n[j] = num[j + 1]
          /\ i + 1 < j + 1
      BY <1>1, <1>2, <2>3
    <3> QED BY <2>1, <3>1 DEF Numbering
  <2> QED BY <2>2, <2>3
<1>4. Numbering(t, n)'
  BY <1>3 DEF Numbering, IsAnswer
<1>5. /\ \A i \in 1..Len(wire) : IsAnswer(wire[i]) => wire[i].of = t
      /\ \A i \in 1..Len(wire) : wire[i].kind \in {"ok", "error"} =>
            /\ modem = <<>>
            /\ \A j \in 1..Len(wire) : i < j => ~IsAnswer(wire[j])
  BY DEF WireAnswers
<1>6. \A i \in 1..Len(wire') : i + 1 \in 1..Len(wire)
  BY <1>1
<1>7. \A i \in 1..Len(wire') : IsAnswer(wire'[i]) => wire'[i].of = t
  BY <1>1, <1>5, <1>6
<1>8. \A i \in 1..Len(wire') : wire'[i].kind \in {"ok", "error"} =>
          /\ modem' = <<>>
          /\ \A j \in 1..Len(wire') : i < j => ~IsAnswer(wire'[j])
  <2> TAKE i \in 1..Len(wire')
  <2> HAVE wire'[i].kind \in {"ok", "error"}
  <2>1. i + 1 \in 1..Len(wire) /\ wire[i + 1].kind \in {"ok", "error"}
    BY <1>1, <1>6
  <2>2. \A j \in 1..Len(wire') : i < j =>
          j + 1 \in 1..Len(wire) /\ i + 1 < j + 1 /\ wire'[j] = wire[j + 1]
    BY <1>1, <1>6
  <2> QED BY <1>5, <2>1, <2>2
<1> QED BY <1>4, <1>7, <1>8 DEF WireAnswers, IsAnswer

\* A line is lost, or read and not part of the answer.
LEMMA TailInStep ==
    ASSUME TypeOK, wire # <<>>, wire' = Tail(wire), modem' = modem
    PROVE  /\ Quiet => Quiet'
           /\ \A t \in Callers :
                 obj'[t] = obj[t] /\ line_counts' = line_counts /\ InProgress(t)
                     => InProgress(t)'
<1>0. wire \in Seq(Line)
  BY DEF TypeOK, LineType
<1>1. /\ Len(wire) \in Nat \ {0} /\ Len(wire') = Len(wire) - 1
      /\ \A i \in 1..Len(wire') : i + 1 \in 1..Len(wire) /\ wire'[i] = wire[i + 1]
  BY <1>0, TailLines
<1>2. Quiet => Quiet'
  BY <1>1 DEF Quiet, NoAnswers, IsAnswer
<1>3. ASSUME NEW t \in Callers, obj'[t] = obj[t], line_counts' = line_counts, InProgress(t)
      PROVE  InProgress(t)'
  <2>1. Emitted(t)' = Emitted(t)
    BY <1>3 DEF Emitted
  <2>2. ModemAnswers(t)' /\ BufferFills(t)'
    BY <1>3, <2>1 DEF InProgress, ModemAnswers, BufferFills
  <2>3. WireAnswers(t)'
    <3>1. PICK num \in [1..Len(wire) -> Nat] : Numbering(t, num)
      BY <1>3 DEF InProgress, WireAnswers
    <3>2. \A j \in 2..Len(wire) : IsAnswer(wire[j]) => line_counts' < num[j]
      BY <1>1, <1>3, <3>1 DEF Numbering
    <3> QED BY <1>0, <1>3, <2>1, <3>1, <3>2, TailAnswers DEF InProgress
  <2> QED BY <2>2, <2>3 DEF InProgress
<1> QED BY <1>2, <1>3

\* The modem sends something that is no answer, or gives up on an answer.
LEMMA QuietArrivals ==
    ASSUME TypeOK, NEW t \in Callers, InProgress(t), obj'[t] = obj[t],
           line_counts' = line_counts, ModemUrc \/ ModemDrop
    PROVE  InProgress(t)'
<1>0. /\ wire \in Seq(Line) /\ modem \in Seq(Answer) /\ Emitted(t) \in Int
      /\ obj[t].req.data \in Nat /\ line_counts \in Nat
  BY EmittedFacts DEF TypeOK, LineType
<1>1. PICK num \in [1..Len(wire) -> Nat] : Numbering(t, num)
  BY DEF InProgress, WireAnswers
<1>2. /\ \A i \in 1..Len(wire) : IsAnswer(wire[i]) => wire[i].of = t
      /\ \A i \in 1..Len(wire) : wire[i].kind \in {"ok", "error"} =>
            /\ modem = <<>>
            /\ \A j \in 1..Len(wire) : i < j => ~IsAnswer(wire[j])
  BY DEF InProgress, WireAnswers
<1>3. CASE ModemUrc
  <2>1. PICK line \in Line : wire' = Append(wire, line) /\ ~IsAnswer(line)
    <3>1. \A kind \in {"urc", "content"} : LET line == [kind |-> kind, of |-> "none"]
                                           IN  line \in Line /\ ~IsAnswer(line)
      BY DEF Line, Kinds, IsAnswer
    <3> QED BY <1>3, <3>1 DEF ModemUrc, Arrives
  <2>2. /\ Len(wire) \in Nat /\ Len(wire') = Len(wire) + 1
        /\ \A i \in 1..Len(wire) : wire'[i] = wire[i]
        /\ wire'[Len(wire) + 1] = line
    BY <1>0, <2>1, AddedLines
  <2>3. \A i \in 1..Len(wire') : IsAnswer(wire'[i]) => i \in 1..Len(wire) /\ wire'[i] = wire[i]
    BY <2>1, <2>2
  <2>4. \A i \in 1..Len(wire') : wire'[i].kind \in {"ok", "error"} =>
          IsAnswer(wire'[i])
    BY DEF IsAnswer
  <2>5. modem' = modem
    BY <1>3 DEF ModemUrc
  <2>6. Emitted(t)' = Emitted(t)
    BY <2>5 DEF Emitted
  <2>7. PICK n \in [1..Len(wire') -> Nat] : \A i \in 1..Len(wire) : n[i] = num[i]
    <3>1. [i \in 1..Len(wire') |-> IF i \in 1..Len(wire) THEN num[i] ELSE 0]
             \in [1..Len(wire') -> Nat]
      BY <1>1
    <3>2. 1..Len(wire) \subseteq 1..Len(wire')
      BY <2>2
    <3> QED BY <3>1, <3>2
  <2>8. Numbering(t, n)'
    BY <1>1, <2>3, <2>6, <2>7 DEF Numbering, IsAnswer
  <2>9. WireAnswers(t)'
    <3>1. \A i \in 1..Len(wire') : IsAnswer(wire'[i]) => wire'[i].of = t
      BY <1>2, <2>3
    <3>2. \A i \in 1..Len(wire') : wire'[i].kind \in {"ok", "error"} =>
              /\ modem' = <<>>
              /\ \A j \in 1..Len(wire') : i < j => ~IsAnswer(wire'[j])
      BY <1>2, <2>3, <2>4, <2>5
    <3> QED BY <2>8, <3>1, <3>2 DEF WireAnswers, IsAnswer
  <2> QED BY <2>5, <2>6, <2>9 DEF InProgress, ModemAnswers, BufferFills
<1>4. CASE ModemDrop
  <2>1. modem # <<>> /\ wire' = wire /\ modem' = <<>>
    <3>1. modem # <<>> /\ wire' = wire /\ modem' = Tail(modem) /\ Len(modem) <= 1
      BY <1>4 DEF ModemDrop, InProgress, ModemAnswers
    <3> QED BY <1>0, <3>1
  <2>2. Emitted(t)' = obj[t].req.data + 1 /\ Emitted(t) <= obj[t].req.data + 1
    BY <2>1, EmittedFacts DEF Emitted
  <2>3. Numbering(t, num)'
    BY <1>0, <1>1, <2>1, <2>2 DEF Numbering
  <2>4. WireAnswers(t)'
    BY <1>1, <1>2, <2>1, <2>3 DEF WireAnswers
  <2>5. ModemAnswers(t)'
    <3>1. Len(modem') <= 1
      BY <2>1
    <3> QED BY <2>1, <3>1 DEF ModemAnswers
  <2>6. BufferFills(t)'
    <3>1. line_counts <= Emitted(t)
      BY DEF InProgress, BufferFills
    <3>2. line_counts' <= Emitted(t)'
      BY <1>0, <2>2, <3>1
    <3> QED BY <3>2 DEF InProgress, BufferFills
  <2> QED BY <2>4, <2>5, <2>6 DEF InProgress
<1> QED BY <1>3, <1>4

\* The next line of the answer arrives.
LEMMA AnswerArrives ==
    ASSUME TypeOK, NEW t \in Callers, InProgress(t), obj'[t] = obj[t],
           line_counts' = line_counts, ModemLine
    PROVE  InProgress(t)'
<1>0. /\ wire \in Seq(Line) /\ modem \in Seq(Answer) /\ Emitted(t) \in Int
      /\ obj[t].req.data \in Nat /\ line_counts \in Nat
  BY EmittedFacts DEF TypeOK, LineType
<1> DEFINE a == modem[1]
<1>1. /\ modem # <<>> /\ Len(modem) = 1 /\ Head(modem) = a /\ a \in Answer
      /\ a.of = t /\ a.left \in Nat /\ a.left <= obj[t].req.data
  <2>1. modem # <<>>
    BY DEF ModemLine
  <2>2. Len(modem) = 1
    <3>1. Len(modem) \in Nat /\ Len(modem) # 0
      BY <1>0, <2>1
    <3>2. Len(modem) <= 1
      BY DEF InProgress, ModemAnswers
    <3>3. \A k \in Nat : k # 0 /\ k <= 1 => k = 1
      OBVIOUS
    <3> QED BY <3>1, <3>2, <3>3, Zenon
  <2>3. Head(modem) = modem[1] /\ modem[1] \in Answer
    BY <1>0, <2>1
  <2> QED BY <2>1, <2>2, <2>3 DEF InProgress, ModemAnswers, Answer
<1>2. PICK line \in Line :
         /\ wire' = Append(wire, line) /\ IsAnswer(line) /\ line.of = t
         /\ \/ a.left > 0 /\ line.kind = "data" /\ modem' = [modem EXCEPT ![1].left = @ - 1]
            \/ ~(a.left > 0) /\ modem' = Tail(modem)
  <2>1. \A kind \in {"data", "ok", "error"} :
          LET line == [kind |-> kind, of |-> t] IN line \in Line /\ IsAnswer(line)
    BY DEF Line, Kinds, IsAnswer
  <2> QED BY <1>1, <2>1 DEF ModemLine, Arrives
<1>3. /\ ModemAnswers(t)' /\ Emitted(t)' = Emitted(t) + 1
      /\ line.kind # "data" => modem' = <<>>
  <2>1. CASE a.left > 0
    <3>1. /\ modem' # <<>> /\ Len(modem') = 1 /\ modem'[1].of = t
          /\ modem'[1].left = a.left - 1
      BY <1>0, <1>1, <1>2, <2>1 DEF Answer
    <3>2. Emitted(t)' = obj[t].req.data - (a.left - 1)
      BY <3>1 DEF Emitted
    <3>3. Emitted(t) = obj[t].req.data - a.left
      BY <1>1 DEF Emitted
    <3> QED BY <1>0, <1>1, <1>2, <2>1, <3>1, <3>2, <3>3 DEF ModemAnswers
  <2>2. CASE ~(a.left > 0)
    <3>1. modem' = <<>> /\ Len(modem') = 0
      BY <1>0, <1>1, <1>2, <2>2
    <3>2. Emitted(t)' = obj[t].req.data + 1
      BY <3>1 DEF Emitted
    <3>3. Emitted(t) = obj[t].req.data - a.left /\ a.left = 0
      BY <1>1, <2>2 DEF Emitted
    <3> QED BY <1>0, <3>1, <3>2, <3>3 DEF ModemAnswers
  <2> QED BY <2>1, <2>2
<1>4. PICK num \in [1..Len(wire) -> Nat] : Numbering(t, num)
  BY DEF InProgress, WireAnswers
<1>5. /\ Len(wire) \in Nat /\ Len(wire') = Len(wire) + 1
      /\ \A i \in 1..Len(wire) : wire'[i] = wire[i]
      /\ wire'[Len(wire) + 1] = line
  BY <1>0, <1>2, AddedLines
<1>6. /\ line_counts <= Emitted(t)
      /\ \A i \in 1..Len(wire) : wire[i].kind \notin {"ok", "error"}
      /\ \A i \in 1..Len(wire) : IsAnswer(wire[i]) => wire[i].of = t
  BY <1>1 DEF InProgress, BufferFills, WireAnswers
<1>7. PICK n \in [1..Len(wire') -> Nat] :
         /\ \A i \in 1..Len(wire) : n[i] = num[i]
         /\ n[Len(wire) + 1] = Emitted(t) + 1
  <2>1. Emitted(t) + 1 \in Nat
    BY <1>0, <1>6
  <2>2. [i \in 1..Len(wire') |-> IF i \in 1..Len(wire) THEN num[i] ELSE Emitted(t) + 1]
           \in [1..Len(wire') -> Nat]
    BY <1>4, <2>1
  <2>3. 1..Len(wire) \subseteq 1..Len(wire') /\ Len(wire) + 1 \in 1..Len(wire')
        /\ Len(wire) + 1 \notin 1..Len(wire)
    BY <1>5
  <2> QED BY <2>2, <2>3
<1>8. \A i \in 1..Len(wire') : i \in 1..Len(wire) \/ i = Len(wire) + 1
  BY <1>5
<1>9. Numbering(t, n)'
  <2>1. ASSUME NEW i \in 1..Len(wire'), IsAnswer(wire'[i])
        PROVE  line_counts' < n[i] /\ n[i] <= Emitted(t) + 1
    <3>1. CASE i \in 1..Len(wire)
      <4>1. num[i] \in Nat /\ line_counts < num[i] /\ num[i] <= Emitted(t) /\ n[i] = num[i]
        BY <1>4, <1>5, <1>7, <2>1, <3>1 DEF Numbering
      <4> QED BY <1>0, <4>1
    <3>2. CASE i = Len(wire) + 1
      <4>1. n[i] = Emitted(t) + 1
        BY <1>7, <3>2
      <4> QED BY <1>0, <1>6, <4>1
    <3> QED BY <1>8, <3>1, <3>2
  <2>2. ASSUME NEW i \in 1..Len(wire'), IsAnswer(wire'[i]),
               NEW j \in 1..Len(wire'), i < j, IsAnswer(wire'[j])
        PROVE  n[i] < n[j]
    <3>1. i \in 1..Len(wire)
      BY <1>5, <1>8, <2>2
    <3>2. n[i] = num[i] /\ num[i] <= Emitted(t) /\ IsAnswer(wire[i])
      BY <1>4, <1>5, <1>7, <2>2, <3>1 DEF Numbering
    <3>3. CASE j \in 1..Len(wire)
      BY <1>4, <1>5, <1>7, <2>2, <3>1, <3>2, <3>3 DEF Numbering
    <3>4. CASE j = Len(wire) + 1
      <4>1. n[j] = Emitted(t) + 1 /\ num[i] \in Nat
        BY <1>4, <1>7, <3>1, <3>4
      <4> QED BY <1>0, <3>2, <4>1
    <3> QED BY <1>8, <3>3, <3>4
  <2> QED BY <1>3, <2>1, <2>2 DEF Numbering, IsAnswer
<1>10. WireAnswers(t)'
  <2>1. \A i \in 1..Len(wire') : IsAnswer(wire'[i]) => wire'[i].of = t
    BY <1>2, <1>5, <1>6, <1>8
  <2>2. \A i \in 1..Len(wire') : wire'[i].kind \in {"ok", "error"} =>
            /\ modem' = <<>>
            /\ \A j \in 1..Len(wire') : i < j => ~IsAnswer(wire'[j])
    <3>1. \A i \in 1..Len(wire') : wire'[i].kind \in {"ok", "error"} => i = Len(wire) + 1
      BY <1>5, <1>6, <1>8
    <3>2. \A j \in 1..Len(wire') : ~(Len(wire) + 1 < j)
      BY <1>5
    <3> QED BY <1>3, <1>5, <3>1, <3>2
  <2> QED BY <1>9, <2>1, <2>2 DEF WireAnswers, IsAnswer
<1>11. BufferFills(t)'
  <2>1. line_counts' <= Emitted(t)'
    BY <1>0, <1>3, <1>6
  <2> QED BY <2>1 DEF InProgress, BufferFills
<1> QED BY <1>3, <1>10, <1>11 DEF InProgress

-----------------------------------------------------------------------------
(* The parser reads a line of the answer.                                  *)

\* What the response of t holds once the line is in it.
LEMMA StoredLine ==
    ASSUME TypeOK, NEW t \in Callers, NEW line \in Line, BufferFills(t), line.of = t
    PROVE  LET o == obj[t]
           IN  /\ Stored(o, line) \in Seq(Line)
               /\ Len(Stored(o, line)) = Counted(o) /\ Counted(o) \in Nat
               /\ \A i \in 1..Counted(o) : Stored(o, line)[i].of = t
               /\ Counted(o) <= o.req.room
               /\ IF Fits(o) THEN /\ Counted(o) = line_counts + 1
                                  /\ Stored(o, line)[Counted(o)] = line
                             ELSE Counted(o) = line_counts /\ line_counts = o.req.room
<1> DEFINE o == obj[t]
<1>1. /\ o \in Response /\ o.req.room \in Nat /\ o.buf \in Seq(Line) /\ line_counts \in Nat
      /\ Len(o.buf) = line_counts /\ line_counts <= o.req.room
      /\ \A i \in 1..Len(o.buf) : o.buf[i].of = t
  BY EmittedFacts DEF TypeOK, CallType, BufferFills
<1>2. Stored(o, line) \in Seq(Line) /\ Counted(o) \in Nat
  BY <1>1, StoredType
<1> HIDE DEF o
<1>3. CASE Fits(o)
  <2> DEFINE at(i) == IF i = line_counts + 1 THEN line
                      ELSE IF i <= Len(o.buf) THEN o.buf[i] ELSE Gap
  <2>1. Stored(o, line) = [i \in 1..(line_counts + 1) |-> at(i)]
    BY <1>3 DEF Stored
  <2>2. Counted(o) = line_counts + 1 /\ line_counts < o.req.room
    BY <1>3 DEF Counted, Fits
  <2>3. Len(Stored(o, line)) = line_counts + 1
    <3>1. line_counts + 1 \in Nat
      BY <1>1
    <3>2. DOMAIN Stored(o, line) = 1..(line_counts + 1)
      BY <2>1
    <3> QED BY <1>2, <3>1, <3>2
  <2>4. \A i \in 1..(line_counts + 1) : i = line_counts + 1 \/ i \in 1..Len(o.buf)
    BY <1>1
  <2>5. \A i \in 1..(line_counts + 1) : at(i).of = t
    BY <1>1, <2>4
  <2>6. Stored(o, line)[line_counts + 1] = line
    BY <1>1, <2>1
  <2>7. \A i \in 1..Counted(o) : Stored(o, line)[i].of = t
    BY <2>1, <2>2, <2>5
  <2>8. Counted(o) <= o.req.room
    BY <1>1, <2>2
  <2> QED BY <1>2, <1>3, <2>2, <2>3, <2>6, <2>7, <2>8 DEF o
<1>4. CASE ~Fits(o)
  <2>1. Stored(o, line) = o.buf /\ Counted(o) = line_counts
    BY <1>4 DEF Stored, Counted
  <2>2. line_counts = o.req.room
    BY <1>1, <1>4 DEF Fits
  <2> QED BY <1>1, <1>2, <1>4, <2>1, <2>2 DEF o
<1> QED BY <1>3, <1>4

\* What is known of the line that the parser reads next.
LEMMA NextAnswer ==
    ASSUME TypeOK, NEW t \in Callers, InProgress(t), wire # <<>>, IsAnswer(Head(wire))
    PROVE  /\ Head(wire) \in Line /\ Head(wire).of = t
           /\ line_counts + 1 <= Emitted(t)
           /\ /\ Head(wire).kind # "data" \/ line_counts = obj[t].req.data
              /\ modem' = modem /\ wire' = Tail(wire)
              => Quiet'
           /\ \E num \in [1..Len(wire) -> Nat] :
                 /\ Numbering(t, num)
                 /\ \A j \in 2..Len(wire) : IsAnswer(wire[j]) => line_counts + 1 < num[j]
<1>0. /\ wire \in Seq(Line) /\ Emitted(t) \in Int /\ line_counts \in Nat
      /\ obj[t].req.data \in Nat /\ Emitted(t) <= obj[t].req.data + 1
      /\ modem # <<>> => Emitted(t) <= obj[t].req.data
  BY EmittedFacts
<1>1. /\ Len(wire) \in Nat \ {0} /\ Head(wire) = wire[1] /\ wire[1] \in Line
      /\ Len(Tail(wire)) = Len(wire) - 1
      /\ \A i \in 1..Len(Tail(wire)) : i + 1 \in 1..Len(wire) /\ Tail(wire)[i] = wire[i + 1]
  BY <1>0, TailLines
<1>2. 1 \in 1..Len(wire) /\ IsAnswer(wire[1]) /\ wire[1].of = t
  BY <1>1 DEF InProgress, WireAnswers
<1>3. PICK num \in [1..Len(wire) -> Nat] : Numbering(t, num)
  BY DEF InProgress, WireAnswers
<1>4. num[1] \in Nat /\ line_counts < num[1] /\ num[1] <= Emitted(t)
  BY <1>2, <1>3 DEF Numbering
<1>5. \A j \in 2..Len(wire) : IsAnswer(wire[j]) =>
        /\ num[j] \in Nat /\ num[1] < num[j] /\ num[j] <= Emitted(t)
  <2>1. \A j \in 2..Len(wire) : j \in 1..Len(wire) /\ 1 < j
    BY <1>1
  <2> QED BY <1>2, <1>3, <2>1 DEF Numbering
<1>6. \A j \in 2..Len(wire) : IsAnswer(wire[j]) => line_counts + 1 < num[j]
  BY <1>0, <1>4, <1>5
<1>7. ASSUME modem = <<>>, \A j \in 2..Len(wire) : ~IsAnswer(wire[j]),
             modem' = modem, wire' = Tail(wire)
      PROVE  Quiet'
  <2>1. \A i \in 1..Len(wire') : i + 1 \in 2..Len(wire) /\ wire'[i] = wire[i + 1]
    BY <1>1, <1>7
  <2>2. \A i \in 1..Len(wire') : ~IsAnswer(wire'[i])
    BY <1>7, <2>1
  <2> QED BY <1>7, <2>2 DEF Quiet, NoAnswers, IsAnswer
<1>8. ASSUME wire[1].kind # "data"
      PROVE  modem = <<>> /\ \A j \in 2..Len(wire) : ~IsAnswer(wire[j])
  <2>1. wire[1].kind \in {"ok", "error"}
    BY <1>2, <1>8 DEF IsAnswer
  <2>2. modem = <<>> /\ \A j \in 1..Len(wire) : 1 < j => ~IsAnswer(wire[j])
    BY <1>2, <2>1 DEF InProgress, WireAnswers
  <2>3. \A j \in 2..Len(wire) : j \in 1..Len(wire) /\ 1 < j
    BY <1>1
  <2> QED BY <2>2, <2>3
<1>9. ASSUME line_counts = obj[t].req.data
      PROVE  modem = <<>> /\ \A j \in 2..Len(wire) : ~IsAnswer(wire[j])
  <2>1. Emitted(t) = obj[t].req.data + 1 /\ num[1] = Emitted(t)
    BY <1>0, <1>4, <1>9
  <2>2. modem = <<>>
    BY <1>0, <2>1
  <2>3. \A j \in 2..Len(wire) : ~IsAnswer(wire[j])
    BY <1>0, <1>4, <1>5, <2>1
  <2> QED BY <2>2, <2>3
<1>10. line_counts + 1 <= Emitted(t)
  BY <1>0, <1>4
<1> QED BY <1>1, <1>2, <1>3, <1>6, <1>7, <1>8, <1>9, <1>10

\* What the parser does with the line.
LEMMA ParsedLine ==
    ASSUME TypeOK, ParseResponse, InProgress(resp)
    PROVE  LET o == obj[resp] line == Head(wire)
           IN  /\ resp \in Callers /\ wire # <<>> /\ IsAnswer(line)
               /\ wire' = Tail(wire) /\ modem' = modem
               /\ obj'[resp].buf = Stored(o, line) /\ obj'[resp].req = o.req
               /\ \A u \in Callers : u # resp => obj'[u] = obj[u]
               /\ Ends(o, line) \/ line_counts' = Counted(o)
<1> DEFINE o    == obj[resp]
           line == Head(wire)
<1>1. resp \in Callers /\ wire # <<>> /\ IsAnswer(line)
  BY DEF ParseResponse, TypeOK, ClientType, IsAnswer
<1>2. obj \in [Callers -> Response]
  BY DEF TypeOK, CallType
<1>3. wire' = Tail(wire) /\ modem' = modem
  BY DEF ParseResponse
<1>4. \/ obj' = [obj EXCEPT ![resp].buf = Stored(o, line), ![resp].line_counts = Counted(o)]
      \/ obj' = [obj EXCEPT ![resp].buf = Stored(o, line)]
  BY DEF ParseResponse
<1>5. /\ obj'[resp].buf = Stored(o, line) /\ obj'[resp].req = o.req
      /\ \A u \in Callers : u # resp => obj'[u] = obj[u]
  BY <1>1, <1>2, <1>4 DEF Response
<1>6. Ends(o, line) \/ line_counts' = Counted(o)
  BY DEF ParseResponse
<1> QED BY <1>1, <1>3, <1>5, <1>6

LEMMA AnswerGoesOn ==
    ASSUME TypeOK, ParseResponse, NEW t \in Callers, t = resp, InProgress(t),
           Fitting(obj[t].req), ~Ends(obj[t], Head(wire))
    PROVE  InProgress(t)'
<1> DEFINE o    == obj[t]
           line == Head(wire)
<1>1. /\ wire # <<>> /\ IsAnswer(line)
      /\ wire' = Tail(wire) /\ modem' = modem /\ line_counts' = Counted(o)
      /\ obj'[t].buf = Stored(o, line) /\ obj'[t].req = o.req
  BY ParsedLine
<1>2. /\ wire \in Seq(Line) /\ Emitted(t) \in Int /\ line_counts \in Nat
      /\ o.req.line_num \in Nat
  BY EmittedFacts
<1>3. Emitted(t)' = Emitted(t)
  BY <1>1 DEF Emitted
<1>4. line \in Line /\ line.of = t /\ line_counts + 1 <= Emitted(t)
  BY <1>1, NextAnswer
<1>5. /\ Len(Stored(o, line)) = Counted(o) /\ Counted(o) \in Nat
      /\ \A i \in 1..Counted(o) : Stored(o, line)[i].of = t
      /\ Counted(o) <= o.req.room
      /\ Counted(o) \in {line_counts, line_counts + 1}
  BY <1>4, StoredLine DEF InProgress
<1>6. BufferFills(t)'
  <2>1. Counted(o) <= Emitted(t)
    BY <1>2, <1>4, <1>5
  <2>2. o.req.line_num # 0 => Counted(o) < o.req.line_num
    <3>1. o.req.line_num # 0 => Counted(o) # o.req.line_num
      BY DEF Ends, EndsCount
    <3>2. o.req.line_num # 0 => line_counts < o.req.line_num
      BY DEF InProgress, BufferFills
    <3> QED BY <1>2, <1>5, <3>1, <3>2
  <2> QED BY <1>1, <1>3, <1>5, <2>1, <2>2 DEF BufferFills
<1>7. ModemAnswers(t)'
  BY <1>1 DEF InProgress, ModemAnswers
<1>8. WireAnswers(t)'
  <2>1. PICK num \in [1..Len(wire) -> Nat] :
          /\ Numbering(t, num)
          /\ \A j \in 2..Len(wire) : IsAnswer(wire[j]) => line_counts + 1 < num[j]
    BY <1>1, NextAnswer
  <2>2. \A j \in 2..Len(wire) : IsAnswer(wire[j]) => line_counts' < num[j]
    <3>1. \A j \in 2..Len(wire) : num[j] \in Nat
      BY <1>2, <2>1
    <3> QED BY <1>1, <1>2, <1>5, <2>1, <3>1
  <2> QED BY <1>1, <1>2, <1>3, <2>1, <2>2, TailAnswers DEF InProgress
<1> QED BY <1>6, <1>7, <1>8 DEF InProgress

LEMMA AnswerEnds ==
    ASSUME TypeOK, ParseResponse, NEW t \in Callers, t = resp, InProgress(t),
           Fitting(obj[t].req), Ends(obj[t], Head(wire))
    PROVE  Quiet' /\ line_counts' = 0 /\ Complete(t, resp_status = "OK")'
<1> DEFINE o    == obj[t]
           line == Head(wire)
<1>1. /\ wire # <<>> /\ IsAnswer(line)
      /\ wire' = Tail(wire) /\ modem' = modem
      /\ obj'[t].buf = Stored(o, line) /\ obj'[t].req = o.req
  BY ParsedLine
<1>2. /\ line_counts \in Nat /\ o.req.data \in Nat /\ o.req.line_num \in Nat
      /\ o.req.room \in Nat
  BY EmittedFacts
<1>3. line_counts' = 0 /\ resp_status' = StatusAfter(o, line)
  BY DEF ParseResponse, ResetCounts
<1>4. line \in Line /\ line.of = t
  BY <1>1, NextAnswer
<1>5. /\ Len(Stored(o, line)) = Counted(o) /\ Counted(o) \in Nat
      /\ Stored(o, line) \in Seq(Line)
      /\ \A i \in 1..Counted(o) : Stored(o, line)[i].of = t
      /\ IF Fits(o) THEN /\ Counted(o) = line_counts + 1
                         /\ Stored(o, line)[Counted(o)] = line
                    ELSE Counted(o) = line_counts /\ line_counts = o.req.room
  BY <1>4, StoredLine DEF InProgress
<1>6. o.req.line_num # 0 => line_counts < o.req.line_num
  BY DEF InProgress, BufferFills
<1>7. Quiet'
  <2>1. CASE line.kind # "data"
    BY <1>1, <2>1, NextAnswer
  <2>2. CASE line.kind = "data"
    <3>1. Counted(o) = o.req.line_num /\ o.req.line_num # 0
      BY <2>2 DEF Ends, EndsOK, EndsCount
    <3>2. o.req.line_num = o.req.data + 1
      BY <3>1 DEF Fitting
    <3>3. line_counts = o.req.data
      BY <1>2, <1>5, <1>6, <3>1, <3>2
    <3> QED BY <1>1, <3>3, NextAnswer
  <2> QED BY <2>1, <2>2
<1>8. CASE o.req.line_num # 0
  <2>1. resp_status' = "OK" => Counted(o) = o.req.line_num
    BY <1>3, <1>8 DEF Ends, EndsOK, EndsCount, StatusAfter
  <2> QED BY <1>1, <1>3, <1>5, <1>7, <1>8, <2>1 DEF Complete
<1>9. CASE o.req.line_num = 0
  <2>1. /\ line.kind \in {"ok", "error"}
        /\ resp_status' = "OK" => line.kind = "ok"
    BY <1>3, <1>9 DEF Ends, EndsOK, EndsCount, StatusAfter
  <2>2. Counted(o) < o.req.room => Stored(o, line) # <<>> /\ Stored(o, line)[Counted(o)] = line
    <3>1. Counted(o) < o.req.room => Fits(o)
      BY <1>2, <1>5
    <3>2. Fits(o) => Len(Stored(o, line)) # 0
      BY <1>2, <1>5
    <3> QED BY <1>5, <3>1, <3>2
  <2>3. /\ \A i \in 1..Len(obj'[t].buf) : obj'[t].buf[i].of = t
        /\ Len(obj'[t].buf) < obj'[t].req.room =>
              /\ obj'[t].buf # <<>>
              /\ obj'[t].buf[Len(obj'[t].buf)].kind
                    \in IF resp_status' = "OK" THEN {"ok"} ELSE {"ok", "error"}
    BY <1>1, <1>5, <2>1, <2>2
  <2> QED BY <1>1, <1>3, <1>7, <1>9, <2>3 DEF Complete
<1> QED BY <1>8, <1>9

-----------------------------------------------------------------------------
(* What the steps leave alone.                                             *)

\* A step of the line or of the modem.
LEMMA SyncedByLine ==
    ASSUME TypeOK, Synced, UNCHANGED <<clientVars, callVars>>,
           Quiet => Quiet', \A t \in Callers : InProgress(t) => InProgress(t)'
    PROVE  Synced'
<1>0. /\ UNCHANGED <<resp, resp_status, tokens, lock, line_counts>>
      /\ UNCHANGED <<pc, obj, result, tries>>
  BY DEF clientVars, callVars
<1>1. \A t \in Callers : BufferInStep(t)'
  BY <1>0 DEF Synced, BufferInStep, Complete
<1>2. Idle'
  BY <1>0 DEF Synced, Idle
<1>3. Owners'
  <2>1. \A t \in Callers, ok \in BOOLEAN : Complete(t, ok) => Complete(t, ok)'
    BY <1>0 DEF Complete
  <2>2. ASSUME NEW t \in Callers, OwnerInStep(t)
        PROVE  OwnerInStep(t)'
    <3>1. Complete(t, resp_status = "OK") => Complete(t, resp_status = "OK")'
      BY <1>0 DEF Complete
    <3> QED BY <1>0, <2>2, <3>1 DEF OwnerInStep
  <2> QED BY <1>0, <2>2 DEF Synced, Owners
<1> QED BY <1>1, <1>2, <1>3 DEF Synced

\* A step of t while it does not own the lock.
LEMMA SyncedByOutsider ==
    ASSUME TypeOK, OpenOnlyUnderLock, Synced, NEW t \in Callers, lock # t,
           UNCHANGED clientVars, Quiet => Quiet',
           \A u \in Callers : u # t => /\ pc'[u] = pc[u] /\ obj'[u] = obj[u]
                                       /\ result'[u] = result[u]
                                       /\ InProgress(u) => InProgress(u)',
           tries' = tries \/ t = "NB",
           BufferInStep(t)'
    PROVE  Synced'
<1>0. UNCHANGED <<resp, resp_status, tokens, lock, line_counts>>
  BY DEF clientVars
<1>1. ASSUME NEW u \in Callers, u # t
      PROVE  BufferInStep(u)'
  <2>1. tries' = tries \/ pc[u] # "c_loop"
    BY <1>1 DEF TypeOK, CallType, Callers, ParserPcs
  <2> QED BY <1>1, <2>1 DEF Synced, BufferInStep, Complete
<1>2. Idle'
  <2>1. resp # t /\ resp \in Callers \cup {NULL}
    BY NullAssumption DEF OpenOnlyUnderLock, TypeOK, ClientType
  <2> QED BY <1>0, <2>1 DEF Synced, Idle
<1>3. Owners'
  <2>1. ASSUME NEW u \in Callers, u # t, OwnerInStep(u)
        PROVE  OwnerInStep(u)'
    <3>1. Complete(u, resp_status = "OK") => Complete(u, resp_status = "OK")'
      BY <1>0, <2>1 DEF Complete
    <3> QED BY <1>0, <2>1, <3>1 DEF OwnerInStep
  <2> QED BY <1>0, <2>1 DEF Synced, Owners
<1> QED BY <1>1, <1>2, <1>3 DEF Synced

\* A step of the owner t of the lock, or of the parser for it.
LEMMA SyncedByOwner ==
    ASSUME TypeOK, Synced, NEW t \in Callers, lock' = t,
           \A u \in Callers : u # t => /\ pc'[u] = pc[u] /\ obj'[u] = obj[u]
                                       /\ result'[u] = result[u],
           tries' = tries \/ t = "NB",
           BufferInStep(t)', OwnerInStep(t)', Idle'
    PROVE  Synced'
<1>1. ASSUME NEW u \in Callers, u # t
      PROVE  BufferInStep(u)'
  <2>1. tries' = tries \/ pc[u] # "c_loop"
    BY <1>1 DEF TypeOK, CallType, Callers, ParserPcs
  <2> QED BY <1>1, <2>1 DEF Synced, BufferInStep, Complete
<1>2. Owners'
  BY NullAssumption DEF Owners
<1> QED BY <1>1, <1>2 DEF Synced

-----------------------------------------------------------------------------
(* The steps.                                                              *)

LEMMA SyncedLineStep ==
    ASSUME TypeOK, Synced,
           ParseOther \/ LoseLine \/ ModemLine \/ ModemDrop \/ ModemUrc
    PROVE  Synced'
<1>1. UNCHANGED <<clientVars, callVars>>
  BY DEF ParseOther, LoseLine, ModemLine, ModemDrop, ModemUrc
<1>2. /\ UNCHANGED <<obj, line_counts>>
      /\ \A t \in Callers : obj'[t] = obj[t]
  BY <1>1 DEF clientVars, callVars
<1>3. CASE ParseOther \/ LoseLine
  <2>1. wire # <<>> /\ wire' = Tail(wire) /\ modem' = modem
    BY <1>3 DEF ParseOther, LoseLine
  <2> QED BY <1>1, <1>2, <2>1, TailInStep, SyncedByLine
<1>4. CASE ModemLine \/ ModemDrop
  <2>1. ~Quiet
    BY <1>4 DEF ModemLine, ModemDrop, Quiet
  <2>2. \A t \in Callers : InProgress(t) => InProgress(t)'
    BY <1>2, <1>4, AnswerArrives, QuietArrivals
  <2> QED BY <1>1, <2>1, <2>2, SyncedByLine
<1>5. CASE ModemUrc
  <2>1. Quiet => Quiet'
    <3>1. PICK line \in Line : wire' = Append(wire, line) /\ ~IsAnswer(line)
      <4>1. \A kind \in {"urc", "content"} : LET line == [kind |-> kind, of |-> "none"]
                                             IN  line \in Line /\ ~IsAnswer(line)
        BY DEF Line, Kinds, IsAnswer
      <4> QED BY <1>5, <4>1 DEF ModemUrc, Arrives
    <3>2. /\ Len(wire) \in Nat /\ Len(wire') = Len(wire) + 1
          /\ \A i \in 1..Len(wire) : wire'[i] = wire[i]
          /\ wire'[Len(wire) + 1] = line
      BY <3>1, AddedLines DEF TypeOK, LineType
    <3>3. \A i \in 1..Len(wire') : i \in 1..Len(wire) \/ i = Len(wire) + 1
      BY <3>2
    <3>4. modem' = modem
      BY <1>5 DEF ModemUrc
    <3> QED BY <3>1, <3>2, <3>3, <3>4 DEF Quiet, NoAnswers, IsAnswer
  <2>2. \A t \in Callers : InProgress(t) => InProgress(t)'
    BY <1>2, <1>5, QuietArrivals
  <2> QED BY <1>1, <2>1, <2>2, SyncedByLine
<1> QED BY <1>3, <1>4, <1>5

\* In step, an answer is parsed only while its owner waits for it.
LEMMA AnswerAwaited ==
    ASSUME TypeOK, OpenOnlyUnderLock, Synced, ParseResponse, NEW t \in Callers, t = resp
    PROVE  /\ t # NULL /\ lock = t /\ lock' = t /\ tries' = tries /\ result' = result
           /\ \A u \in Callers : u # t => pc[u] \notin Inside
           /\ OwnerInStep(t) /\ BufferInStep(t) /\ Fitting(obj[t].req)
           /\ pc[t] \in Awaiting /\ tokens = 0 /\ InProgress(t)
<1>1. /\ t # NULL /\ lock = t /\ lock' = t /\ tries' = tries /\ result' = result
      /\ pc[t] \in Inside /\ \A u \in Callers : u # t => pc[u] \notin Inside
  BY NullAssumption DEF ParseResponse, OpenOnlyUnderLock
<1>2. OwnerInStep(t) /\ BufferInStep(t) /\ Fitting(obj[t].req)
  BY <1>1 DEF Synced, Owners, BufferInStep
<1>3. pc[t] \in Awaiting
  <2>1. pc[t] \notin Answered /\ pc[t] # "timedout"
    BY <1>1, <1>2 DEF OwnerInStep, BufferInStep
  <2>2. pc[t] \notin Unsent
    <3>1. wire # <<>> /\ IsAnswer(Head(wire)) /\ wire \in Seq(Line)
      BY DEF ParseResponse, IsAnswer, TypeOK, LineType
    <3>2. Head(wire) = wire[1] /\ 1 \in 1..Len(wire)
      BY <3>1, TailLines
    <3>3. ~Quiet
      BY <3>1, <3>2 DEF Quiet, NoAnswers
    <3> QED BY <3>3 DEF Synced, Idle
  <2> QED BY <1>1, <2>1, <2>2 DEF Inside, Answered, Unsent, Awaiting
<1>4. tokens = 0 /\ InProgress(t)
  BY <1>1, <1>2, <1>3 DEF OwnerInStep
<1> QED BY <1>1, <1>2, <1>3, <1>4

LEMMA SyncedParseResponse ==
    ASSUME TypeOK, OpenOnlyUnderLock, Synced, ParseResponse
    PROVE  Synced'
<1>0. CallType /\ tokens \in Nat
  BY DEF TypeOK, ClientType
<1>t. PICK t \in Callers : t = resp
  BY DEF ParseResponse, TypeOK, ClientType
<1>1. /\ t # NULL /\ lock = t /\ lock' = t /\ tries' = tries /\ result' = result
      /\ \A u \in Callers : u # t => pc[u] \notin Inside
  BY <1>t, AnswerAwaited
<1>2. BufferInStep(t) /\ Fitting(obj[t].req)
  BY <1>t, AnswerAwaited
<1>3. pc[t] \in Awaiting
  BY <1>t, AnswerAwaited
<1>4. tokens = 0 /\ InProgress(t)
  BY <1>t, AnswerAwaited
<1>5. /\ obj'[t].req = obj[t].req
      /\ \A u \in Callers : u # t => obj'[u] = obj[u]
  BY <1>t, <1>4, ParsedLine
<1>6. CASE ~Ends(obj[t], Head(wire))
  <2>1. UNCHANGED <<resp, tokens, pc>>
    BY <1>t, <1>6 DEF ParseResponse
  <2>2. InProgress(t)'
    BY <1>t, <1>2, <1>4, <1>6, AnswerGoesOn
  <2>3. BufferInStep(t)'
    BY <1>2, <1>3, <1>5, <2>1
       DEF BufferInStep, Fitting, Awaiting, Calling, Unsent, InConnect
  <2>4. OwnerInStep(t)'
    BY <1>t, <1>1, <1>3, <1>4, <2>1, <2>2 DEF OwnerInStep, Awaiting, Unsent, Answered
  <2>5. Idle'
    BY <1>t, <1>1, <1>3, <2>1 DEF Idle, Awaiting, Unsent
  <2> QED BY <1>1, <1>5, <2>1, <2>3, <2>4, <2>5, SyncedByOwner
<1>7. CASE Ends(obj[t], Head(wire))
  <2>1. Quiet' /\ line_counts' = 0 /\ Complete(t, resp_status = "OK")'
    BY <1>t, <1>2, <1>4, <1>7, AnswerEnds
  <2>2. resp' = NULL /\ NotifyCaller
    BY <1>t, <1>7 DEF ParseResponse, ClosedByParser
  <2>3. /\ \A u \in Callers : u # t => pc'[u] = pc[u]
        /\ \/ pc'[t] \in {"woken", "c_woken"} /\ tokens' = 0
              /\ (pc'[t] = "c_woken" => pc[t] = "c_wait")
           \/ pc'[t] = pc[t] /\ tokens' = 1
    <3>1. \A u \in Callers : u # t => pc[u] \notin {"wait", "c_wait"}
      BY <1>1 DEF Inside
    <3> QED BY <1>0, <1>4, <2>2, <3>1, NotifiedPc
  <2>4. BufferInStep(t)'
    BY <1>2, <1>3, <1>5, <2>3
       DEF BufferInStep, Fitting, Awaiting, Calling, Unsent, InConnect
  <2>5. OwnerInStep(t)'
    BY <1>3, <2>1, <2>2, <2>3 DEF OwnerInStep, Awaiting, Unsent, Answered
  <2>6. Idle'
    BY <2>1 DEF Idle
  <2> QED BY <1>1, <1>5, <2>3, <2>4, <2>5, <2>6, SyncedByOwner
<1> QED BY <1>6, <1>7

\* A step that touches neither the line nor the modem.
LEMMA InProgressKept ==
    ASSUME modem' = modem, wire' = wire, line_counts' = line_counts
    PROVE  /\ Quiet => Quiet'
           /\ \A u \in Callers :
                 obj'[u].req = obj[u].req /\ obj'[u].buf = obj[u].buf /\ InProgress(u)
                     => InProgress(u)'
<1>1. Quiet => Quiet'
  BY DEF Quiet, NoAnswers, IsAnswer
<1>2. ASSUME NEW u \in Callers, obj'[u].req = obj[u].req, obj'[u].buf = obj[u].buf,
             InProgress(u)
      PROVE  InProgress(u)'
  <2>1. Emitted(u)' = Emitted(u)
    BY <1>2 DEF Emitted
  <2>2. PICK num \in [1..Len(wire) -> Nat] : Numbering(u, num)
    BY <1>2 DEF InProgress, WireAnswers
  <2>3. Numbering(u, num)'
    BY <2>1, <2>2 DEF Numbering, IsAnswer
  <2>4. WireAnswers(u)'
    BY <1>2, <2>2, <2>3 DEF InProgress, WireAnswers, IsAnswer
  <2> QED BY <1>2, <2>1, <2>4 DEF InProgress, ModemAnswers, BufferFills
<1> QED BY <1>1, <1>2

\* A thread that begins or ends a call, outside the lock.
LEMMA SyncedOutside ==
    ASSUME TypeOK, OpenOnlyUnderLock, Synced, FittingRequests, NEW t \in Callers,
           \/ t = "NB" /\ NBCalls
           \/ t = "parser" /\ (ParseContent \/ ContentCall)
           \/ Delete(t)
           \/ TakeLock(t) /\ lock # NULL
    PROVE  Synced'
<1>0. CallType
  BY DEF TypeOK
<1>1. BufferInStep(t)
  BY DEF Synced
<1>2. ASSUME NEW req \in Requests \cup {CloseRequest}
      PROVE  /\ Fitting(Object(req).req) /\ Object(req).buf = <<>>
             /\ Object(req).req = req
  BY DEF FittingRequests, Object
<1>3. CASE t = "NB" /\ NBCalls
  <2>1. PICK req \in Requests :
          /\ obj' = [obj EXCEPT ![t] = Object(req)]
          /\ Goto(t, "call") \/ (Goto(t, "c_call") /\ req.line_num = 0)
          /\ pc[t] \in {"start", "idle"}
          /\ UNCHANGED <<clientVars, result, tries, lineVars>>
    <3>1. CASE ExecCall
      BY <1>3, <3>1 DEF ExecCall, Calls
    <3>2. CASE ConnectCall
      BY <1>3, <3>2 DEF ConnectCall, Calls
    <3> QED BY <1>3, <3>1, <3>2 DEF NBCalls
  <2>2. /\ \A u \in Callers : u # t => pc'[u] = pc[u] /\ obj'[u] = obj[u]
        /\ obj'[t] = Object(req)
        /\ pc'[t] = "call" \/ (pc'[t] = "c_call" /\ req.line_num = 0)
    BY <1>0, <2>1, GotoPc DEF CallType
  <2>3. BufferInStep(t)'
    BY <1>2, <2>2 DEF BufferInStep, Calling, Unsent, InConnect
  <2>4. lock # t
    BY <2>1 DEF OpenOnlyUnderLock, Inside
  <2>5. UNCHANGED <<modem, wire, line_counts, result, tries, clientVars>>
    BY <2>1 DEF lineVars, clientVars
  <2>6. /\ Quiet => Quiet'
        /\ \A u \in Callers : u # t => (InProgress(u) => InProgress(u)')
    BY <2>2, <2>5, InProgressKept
  <2> QED BY <2>2, <2>3, <2>4, <2>5, <2>6, SyncedByOutsider
<1>4. CASE Delete(t)
  <2>1. /\ obj' = [obj EXCEPT ![t] = Object(CloseRequest)]
        /\ Goto(t, IF t = "NB" THEN "idle" ELSE "read")
        /\ pc[t] = "done" /\ result' = [result EXCEPT ![t] = "none"]
        /\ tries' = tries \/ t = "NB"
        /\ UNCHANGED <<clientVars, lineVars>>
    BY <1>4 DEF Delete
  <2>2. /\ \A u \in Callers : u # t => /\ pc'[u] = pc[u] /\ obj'[u] = obj[u]
                                      /\ result'[u] = result[u]
        /\ obj'[t] = Object(CloseRequest) /\ pc'[t] \in {"idle", "read"}
    BY <1>0, <2>1, GotoPc DEF CallType
  <2>3. BufferInStep(t)'
    BY <1>2, <2>2 DEF BufferInStep, Calling, Unsent, InConnect
  <2>4. lock # t
    BY <2>1 DEF OpenOnlyUnderLock, Inside
  <2>5. UNCHANGED <<modem, wire, line_counts, clientVars>>
    BY <2>1 DEF lineVars, clientVars
  <2>6. /\ Quiet => Quiet'
        /\ \A u \in Callers : u # t => (InProgress(u) => InProgress(u)')
    BY <2>2, <2>5, InProgressKept
  <2> QED BY <2>1, <2>2, <2>3, <2>4, <2>5, <2>6, SyncedByOutsider
<1>5. CASE (TakeLock(t) /\ lock # NULL) \/ (t = "parser" /\ ContentCall)
  <2>1. /\ UNCHANGED <<clientVars, obj, result, tries, lineVars>>
        /\ \/ pc[t] = "call" /\ Goto(t, "lock")
           \/ pc[t] = "c_call" /\ Goto(t, "c_lock")
           \/ pc[t] = "delay" /\ Goto(t, "call")
    BY <1>5 DEF TakeLock, ContentCall, clientVars
  <2>2. /\ \A u \in Callers : u # t => pc'[u] = pc[u]
        /\ \/ pc[t] = "call" /\ pc'[t] = "lock"
           \/ pc[t] = "c_call" /\ pc'[t] = "c_lock"
           \/ pc[t] = "delay" /\ pc'[t] = "call"
    BY <1>0, <2>1, GotoPc
  <2>3. BufferInStep(t)'
    BY <1>1, <2>1, <2>2 DEF BufferInStep, Calling, Unsent, InConnect, Fitting
  <2>4. lock # t
    BY <2>1 DEF OpenOnlyUnderLock, Inside
  <2>5. UNCHANGED <<modem, wire, line_counts, obj, result, tries, clientVars>>
    BY <2>1 DEF lineVars, clientVars
  <2>6. /\ Quiet => Quiet'
        /\ \A u \in Callers : u # t => (InProgress(u) => InProgress(u)')
    BY <2>2, <2>5, InProgressKept
  <2> QED BY <2>2, <2>3, <2>4, <2>5, <2>6, SyncedByOutsider
<1>6. CASE t = "parser" /\ ParseContent
  <2>1. /\ pc[t] = "read" /\ wire # <<>> /\ wire' = Tail(wire) /\ modem' = modem
        /\ UNCHANGED <<clientVars, result, tries>>
        /\ \/ Calls(t, CloseRequest, "delay")
           \/ Goto(t, "no_resp") /\ obj' = obj
    BY <1>6 DEF ParseContent
  <2>2. /\ \A u \in Callers : u # t => pc'[u] = pc[u] /\ obj'[u] = obj[u]
        /\ \/ obj'[t] = Object(CloseRequest) /\ pc'[t] = "delay"
           \/ obj'[t] = obj[t] /\ pc'[t] = "no_resp"
    BY <1>0, <2>1, GotoPc DEF CallType, Calls
  <2>3. BufferInStep(t)'
    <3>1. CASE pc'[t] = "delay"
      BY <1>2, <2>2, <3>1 DEF BufferInStep, Calling, Unsent, InConnect
    <3>2. CASE pc'[t] = "no_resp"
      BY <1>1, <2>2, <3>2 DEF BufferInStep, Calling, Unsent, InConnect, Fitting
    <3> QED BY <2>2, <3>1, <3>2
  <2>4. lock # t
    BY <2>1 DEF OpenOnlyUnderLock, Inside
  <2>5. line_counts' = line_counts
    BY <2>1 DEF clientVars
  <2>6. /\ Quiet => Quiet'
        /\ \A u \in Callers : u # t => (InProgress(u) => InProgress(u)')
    BY <2>1, <2>2, <2>5, TailInStep
  <2> QED BY <2>1, <2>2, <2>3, <2>4, <2>6, SyncedByOutsider
<1> QED BY <1>3, <1>4, <1>5, <1>6

\* A command goes out while the line is quiet.
LEMMA SendInStep ==
    ASSUME TypeOK, NEW t \in Callers, Quiet, line_counts = 0, line_counts' = 0,
           obj[t].buf = <<>>, Fitting(obj[t].req), SendCommand(t),
           obj'[t].req = obj[t].req, obj'[t].buf = Aged(obj[t].buf, t)
    PROVE  InProgress(t)'
<1>0. /\ wire \in Seq(Line) /\ obj[t].req.data \in Nat /\ obj[t].req.room \in Nat
      /\ obj[t].req.line_num \in Nat /\ obj[t].buf \in Seq(Line)
  BY EmittedFacts
<1>1. modem = <<>> /\ \A i \in 1..Len(wire) : ~IsAnswer(wire[i])
  BY DEF Quiet, NoAnswers
<1>2. /\ Len(wire') = Len(wire) /\ Len(wire) \in Nat
      /\ \A i \in 1..Len(wire') : ~IsAnswer(wire'[i])
  <2>1. wire' = Aged(wire, t) /\ Len(wire') = Len(wire) /\ Len(wire) \in Nat
    BY <1>0, AgedLines DEF SendCommand
  <2>2. \A i \in 1..Len(wire) : wire[i] \in Line
    BY <1>0
  <2>3. \A i \in 1..Len(wire) : wire'[i].kind = wire[i].kind
    BY <2>1, <2>2 DEF Aged, Line
  <2> QED BY <1>1, <2>1, <2>3 DEF IsAnswer
<1>3. obj'[t].buf = <<>> /\ Len(obj'[t].buf) = 0
  <2>1. Len(obj'[t].buf) = Len(obj[t].buf) /\ obj'[t].buf \in Seq(Line)
    BY <1>0, AgedLines
  <2>2. Len(obj[t].buf) = 0
    BY <1>0
  <2> QED BY <2>1, <2>2
<1>4. \/ modem' = <<>>
      \/ modem' = <<[of |-> t, left |-> obj[t].req.data]>>
  <2>1. modem \in Seq(Answer) /\ Len(modem) = 0
    <3>1. <<>> \in Seq(Answer) /\ Len(<<>>) = 0
      OBVIOUS
    <3> QED BY <1>1, <3>1
  <2>2. Aged(modem, t) \in Seq(Answer) /\ Len(Aged(modem, t)) = 0
    BY <2>1, AgedAnswers
  <2>3. Aged(modem, t) = <<>>
    BY <2>2
  <2> QED BY <2>3 DEF SendCommand
<1>5. ModemAnswers(t)' /\ Emitted(t)' >= 0
  <2>1. CASE modem' = <<>>
    <3>1. Len(modem') = 0 /\ Emitted(t)' = obj[t].req.data + 1
      BY <2>1 DEF Emitted
    <3> QED BY <1>0, <2>1, <3>1 DEF ModemAnswers
  <2>2. CASE modem' = <<[of |-> t, left |-> obj[t].req.data]>>
    <3>1. /\ modem' # <<>> /\ Len(modem') = 1
          /\ modem'[1].of = t /\ modem'[1].left = obj[t].req.data
      BY <2>2
    <3>2. Emitted(t)' = 0
      BY <1>0, <3>1 DEF Emitted
    <3> QED BY <1>0, <3>1, <3>2 DEF ModemAnswers
  <2> QED BY <1>4, <2>1, <2>2
<1>6. WireAnswers(t)'
  <2>1. \A i \in 1..Len(wire') : wire'[i].kind \notin {"ok", "error"}
    BY <1>2 DEF IsAnswer
  <2>2. PICK n \in [1..Len(wire') -> Nat] : TRUE
    <3>1. [i \in 1..Len(wire') |-> 0] \in [1..Len(wire') -> Nat]
      OBVIOUS
    <3> QED BY <3>1
  <2>3. Numbering(t, n)'
    BY <1>2 DEF Numbering, IsAnswer
  <2> QED BY <1>2, <2>1, <2>2, <2>3 DEF WireAnswers, IsAnswer
<1>7. BufferFills(t)'
  <2>1. obj[t].req.line_num # 0 => 0 < obj[t].req.line_num
    BY <1>0
  <2> QED BY <1>0, <1>3, <1>5, <2>1 DEF BufferFills
<1> QED BY <1>5, <1>6, <1>7 DEF InProgress

\* The owner opens its response.
LEMMA SyncedOwns ==
    ASSUME TypeOK, OpenOnlyUnderLock, Tokens, Connecting, Synced, NEW t \in Callers,
           \/ TakeLock(t) /\ lock = NULL
           \/ Granted(t)
    PROVE  Synced'
<1>0. CallType
  BY DEF TypeOK
<1>1. /\ pc[t] \in {"call", "granted", "c_call", "c_granted"}
      /\ lock' = t /\ resp' = t /\ UNCHANGED <<tokens, line_counts, obj, result, tries, lineVars>>
      /\ Goto(t, IF pc[t] \in {"call", "granted"} THEN "open" ELSE "c_loop")
  BY DEF TakeLock, Granted, Owns
<1>2. /\ \A u \in Callers : u # t => pc'[u] = pc[u]
      /\ pc'[t] = IF pc[t] \in {"call", "granted"} THEN "open" ELSE "c_loop"
  BY <1>0, <1>1, GotoPc
<1>3. lock = NULL \/ (lock = t /\ pc[t] \in {"granted", "c_granted"})
  BY DEF Granted, OpenOnlyUnderLock, Inside
<1>4. resp = NULL /\ tokens = 0
  BY <1>3 DEF OpenOnlyUnderLock, Tokens, HolderTokens, Synced, Owners, OwnerInStep, Unsent
<1>5. Quiet /\ line_counts = 0
  BY <1>4 DEF Synced, Idle
<1>6. tries' = 0 \/ pc'[t] = "open"
  <2>1. pc[t] \in {"c_call", "c_granted"} => t = "NB"
    BY <1>0 DEF CallType, ParserPcs, Callers
  <2> QED BY <1>1, <1>2, <2>1 DEF Connecting
<1>7. BufferInStep(t)'
  <2>1. BufferInStep(t)
    BY DEF Synced
  <2> QED BY <1>1, <1>2, <1>6, <2>1
          DEF BufferInStep, Fitting, Calling, Unsent, InConnect
<1>8. OwnerInStep(t)'
  BY <1>1, <1>2, <1>4 DEF OwnerInStep, Unsent, Awaiting, Answered
<1>9. Idle'
  <2>1. UNCHANGED <<modem, wire>>
    BY <1>1 DEF lineVars
  <2>2. Quiet'
    BY <1>5, <2>1 DEF Quiet, NoAnswers, IsAnswer
  <2> QED BY <1>1, <1>5, <2>2 DEF Idle
<1> QED BY <1>1, <1>2, <1>7, <1>8, <1>9, SyncedByOwner

\* The owner sends its command.
LEMMA SyncedSend ==
    ASSUME TypeOK, OpenOnlyUnderLock, Synced, NEW t \in Callers,
           \/ ExecSend(t)
           \/ t = "NB" /\ ConnectSend
    PROVE  Synced'
<1>0. CallType
  BY DEF TypeOK
<1>1. /\ UNCHANGED <<resp, resp_status, tokens, lock, line_counts, result>>
      /\ SendCommand(t) /\ (tries' = tries \/ t = "NB")
      /\ \/ pc[t] = "open" /\ Goto(t, "written")
         \/ pc[t] = "c_loop" /\ Goto(t, "c_sent")
  BY DEF ExecSend, ConnectSend, clientVars
<1>2. /\ \A u \in Callers : u # t => pc'[u] = pc[u]
      /\ \/ pc[t] = "open" /\ pc'[t] = "written"
         \/ pc[t] = "c_loop" /\ pc'[t] = "c_sent"
  BY <1>0, <1>1, GotoPc
<1>3. /\ \A u \in Callers : u # t => obj'[u] = obj[u]
      /\ obj'[t].req = obj[t].req /\ obj'[t].buf = Aged(obj[t].buf, t)
  <2>1. obj \in [Callers -> Response]
    BY <1>0 DEF CallType
  <2>2. \/ obj' = [obj EXCEPT ![t].buf = Aged(@, t)]
        \/ obj' = [obj EXCEPT ![t].line_counts = 0, ![t].buf = Aged(@, t)]
    BY DEF ExecSend, ConnectSend
  <2> QED BY <2>1, <2>2 DEF Response
<1>4. lock = t
  BY <1>1 DEF OpenOnlyUnderLock, Inside
<1>5. BufferInStep(t) /\ OwnerInStep(t)
  BY <1>4 DEF Synced, Owners
<1>6. resp = t /\ tokens = 0 /\ obj[t].buf = <<>> /\ Fitting(obj[t].req)
  BY <1>1, <1>5 DEF BufferInStep, OwnerInStep, Unsent
<1>7. Quiet /\ line_counts = 0
  BY <1>1, <1>6 DEF Synced, Idle, Unsent
<1>8. InProgress(t)'
  BY <1>1, <1>3, <1>6, <1>7, SendInStep
<1>9. BufferInStep(t)'
  BY <1>2, <1>3, <1>5 DEF BufferInStep, Fitting, Calling, Unsent, InConnect
<1>10. OwnerInStep(t)'
  BY <1>1, <1>2, <1>6, <1>8, NullAssumption DEF OwnerInStep, Unsent, Awaiting, Answered
<1>11. Idle'
  BY <1>1, <1>2, <1>6, NullAssumption DEF Idle, Unsent
<1> QED BY <1>1, <1>2, <1>3, <1>4, <1>9, <1>10, <1>11, SyncedByOwner

\* The owner waits for the answer, and has it.
LEMMA SyncedWait ==
    ASSUME TypeOK, OpenOnlyUnderLock, Synced, NEW t \in Callers,
           ExecReset(t) \/ TakeNotice(t) \/ ExecCheck(t)
    PROVE  Synced'
<1>0. CallType /\ tokens \in Nat /\ t # NULL
  BY NullAssumption DEF TypeOK, ClientType
<1>1. /\ UNCHANGED <<resp, lock, line_counts, tries, modem, wire>> /\ pc[t] \in Inside
      /\ \E label : Goto(t, label)
  BY DEF ExecReset, TakeNotice, ExecCheck, clientVars, lineVars, Inside
<1>2. \A u \in Callers : u # t => pc'[u] = pc[u]
  BY <1>0, <1>1, GotoPc
<1>3. /\ \A u \in Callers : u # t => obj'[u] = obj[u] /\ result'[u] = result[u]
      /\ obj'[t].req = obj[t].req /\ obj'[t].buf = obj[t].buf
  <2>1. /\ obj \in [Callers -> Response]
        /\ result \in [Callers -> {"none", "EOK", "ERROR", "ETIMEOUT", "connected"}]
    BY <1>0 DEF CallType
  <2>2. \/ obj' = [obj EXCEPT ![t].line_counts = 0] /\ result' = result
        \/ obj' = obj /\ result' = result
        \/ obj' = obj /\ \E r : result' = [result EXCEPT ![t] = r]
    BY DEF ExecReset, TakeNotice, ExecCheck
  <2> QED BY <2>1, <2>2 DEF Response
<1>4. lock = t
  BY <1>1 DEF OpenOnlyUnderLock
<1>5. BufferInStep(t) /\ OwnerInStep(t)
  BY <1>4 DEF Synced, Owners
<1>6. \A ok \in BOOLEAN : Complete(t, ok) => Complete(t, ok)'
  BY <1>3 DEF Complete
<1>7. CASE ExecReset(t) \/ TakeNotice(t)
  <2>1. /\ pc[t] \in {"written", "sent", "c_sent"} /\ resp_status' = resp_status
        /\ \/ pc[t] = "written" /\ pc'[t] = "sent" /\ tokens' = tokens
           \/ pc[t] # "written" /\ tokens > 0 /\ tokens' = tokens - 1
              /\ pc'[t] = IF pc[t] = "sent" THEN "woken" ELSE "c_woken"
           \/ pc[t] # "written" /\ tokens = 0 /\ tokens' = tokens
              /\ pc'[t] = IF pc[t] = "sent" THEN "wait" ELSE "c_wait"
    BY <1>0, <1>7, GotoPc DEF ExecReset, TakeNotice, clientVars
  <2>2. IF resp = NULL THEN tokens = 1 /\ Complete(t, resp_status = "OK")
                       ELSE tokens = 0 /\ InProgress(t)
    BY <1>5, <2>1 DEF OwnerInStep, Awaiting
  <2>3. InProgress(t) => InProgress(t)'
    BY <1>1, <1>3, InProgressKept
  <2>4. Complete(t, resp_status = "OK") => Complete(t, resp_status = "OK")'
    BY <1>3, <2>1 DEF Complete
  <2>5. BufferInStep(t)'
    BY <1>3, <1>5, <2>1 DEF BufferInStep, Fitting, Calling, Unsent, InConnect
  <2>6. OwnerInStep(t)'
    BY <1>1, <2>1, <2>2, <2>3, <2>4 DEF OwnerInStep, Unsent, Awaiting, Answered
  <2>7. Idle'
    <3>1. Quiet => Quiet'
      BY <1>1 DEF Quiet, NoAnswers, IsAnswer
    <3>2. CASE resp = NULL
      BY <1>1, <3>1, <3>2 DEF Synced, Idle
    <3>3. CASE resp # NULL
      <4>1. resp = t
        BY <1>4, <3>3 DEF OpenOnlyUnderLock
      <4> QED BY <1>1, <2>1, <3>3, <4>1 DEF Idle, Unsent
    <3> QED BY <3>2, <3>3
  <2> QED BY <1>1, <1>2, <1>3, <1>4, <2>5, <2>6, <2>7, SyncedByOwner
<1>8. CASE ExecCheck(t)
  <2>1. pc[t] = "woken" /\ pc'[t] = "exit" /\ tokens' = tokens
    BY <1>0, <1>5, <1>8, GotoPc DEF ExecCheck, BufferInStep
  <2>2. resp = NULL /\ tokens = 0 /\ Complete(t, resp_status = "OK")
    BY <1>5, <2>1 DEF OwnerInStep, Answered
  <2>3. result'[t] = "EOK" => resp_status = "OK"
    BY <1>0, <1>8, <2>1 DEF ExecCheck, CallType
  <2>4. result'[t] = "EOK" => Complete(t, TRUE)'
    BY <1>3, <2>2, <2>3 DEF Complete
  <2>5. BufferInStep(t)'
    BY <1>3, <1>5, <2>1, <2>4 DEF BufferInStep, Fitting, Calling, Unsent, InConnect
  <2>6. OwnerInStep(t)'
    BY <1>1, <2>1, <2>2 DEF OwnerInStep, Unsent, Awaiting, Answered
  <2>7. Idle'
    <3>1. Quiet => Quiet'
      BY <1>1 DEF Quiet, NoAnswers, IsAnswer
    <3> QED BY <1>1, <2>2, <3>1 DEF Synced, Idle
  <2> QED BY <1>1, <1>2, <1>3, <1>4, <2>5, <2>6, <2>7, SyncedByOwner
<1> QED BY <1>7, <1>8

\* The end of wait_connect.
LEMMA SyncedConnect ==
    ASSUME TypeOK, OpenOnlyUnderLock, Synced, FittingRequests,
           ConnectGiveUp \/ ConnectCheck \/ ConnectDelete
    PROVE  Synced'
<1>0. CallType /\ "NB" \in Callers
  BY CallerFacts DEF TypeOK
<1>1. /\ UNCHANGED <<resp, resp_status, tokens, lock, line_counts, tries, modem, wire>>
      /\ \/ pc["NB"] = "c_loop" /\ tries > 0
         \/ /\ pc["NB"] = "c_woken" /\ Goto("NB", "c_exit") /\ obj' = obj
            /\ result' = [result EXCEPT !["NB"] = "connected"]
         \/ /\ pc["NB"] = "c_exit" /\ Goto("NB", "c_freed") /\ result' = result
            /\ obj' = [obj EXCEPT !["NB"] = Object(CloseRequest)]
  BY DEF ConnectGiveUp, ConnectCheck, ConnectDelete, clientVars, lineVars
<1>2. lock = "NB"
  BY <1>0, <1>1 DEF OpenOnlyUnderLock, Inside
<1>3. BufferInStep("NB") /\ OwnerInStep("NB")
  BY <1>0, <1>2 DEF Synced, Owners
<1>4. ~(pc["NB"] = "c_loop" /\ tries > 0)
  <2>1. pc["NB"] = "c_loop" => tries = 0
    BY <1>3 DEF BufferInStep
  <2> QED BY <2>1
<1>5. resp = NULL /\ tokens = 0
  BY <1>1, <1>3, <1>4 DEF OwnerInStep, Answered
<1>6. Idle'
  <2>1. Quiet => Quiet'
    BY <1>1 DEF Quiet, NoAnswers, IsAnswer
  <2> QED BY <1>1, <1>5, <2>1 DEF Synced, Idle
<1>7. CASE pc["NB"] = "c_woken"
  <2>1. /\ pc'["NB"] = "c_exit" /\ obj' = obj /\ result'["NB"] = "connected"
        /\ \A u \in Callers : u # "NB" => pc'[u] = pc[u] /\ result'[u] = result[u]
    BY <1>0, <1>1, <1>7, GotoPc DEF CallType
  <2>2. Complete("NB", FALSE)'
    <3>1. Complete("NB", resp_status = "OK")
      BY <1>3, <1>7 DEF OwnerInStep
    <3> QED BY <2>1, <3>1 DEF Complete
  <2>3. BufferInStep("NB")'
    BY <1>3, <1>7, <2>1, <2>2 DEF BufferInStep, Fitting, Calling, Unsent, InConnect
  <2>4. OwnerInStep("NB")'
    BY <1>1, <1>5, <2>1 DEF OwnerInStep, Unsent, Awaiting, Answered
  <2> QED BY <1>0, <1>1, <1>2, <1>6, <2>1, <2>3, <2>4, SyncedByOwner
<1>8. CASE pc["NB"] = "c_exit"
  <2>1. /\ pc'["NB"] = "c_freed" /\ obj'["NB"] = Object(CloseRequest) /\ result' = result
        /\ \A u \in Callers : u # "NB" => pc'[u] = pc[u] /\ obj'[u] = obj[u]
    BY <1>0, <1>1, <1>8, GotoPc DEF CallType
  <2>2. Fitting(obj'["NB"].req)
    BY <2>1 DEF FittingRequests, Object
  <2>3. BufferInStep("NB")'
    BY <1>3, <1>8, <2>1, <2>2 DEF BufferInStep, Fitting, Calling, Unsent, InConnect
  <2>4. OwnerInStep("NB")'
    BY <1>1, <1>5, <2>1 DEF OwnerInStep, Unsent, Awaiting, Answered
  <2> QED BY <1>0, <1>1, <1>2, <1>6, <2>1, <2>3, <2>4, SyncedByOwner
<1> QED BY <1>1, <1>4, <1>7, <1>8

\* The owner leaves, and may hand the lock on.
LEMMA SyncedExit ==
    ASSUME TypeOK, OpenOnlyUnderLock, Synced, NEW t \in Callers, Exit(t)
    PROVE  Synced'
<1>0. CallType /\ Other(t) \in Callers /\ Other(t) # t
      /\ \A u \in Callers : u = t \/ u = Other(t)
  BY CallerFacts DEF TypeOK
<1>1. /\ UNCHANGED <<resp_status, tokens, line_counts, obj, result, tries, modem, wire>>
      /\ resp' = NULL /\ Unlock(t) /\ pc[t] \in {"exit", "c_freed"}
  BY DEF Exit, ClosedByExit, lineVars
<1>2. lock = t
  BY <1>1 DEF OpenOnlyUnderLock, Inside
<1>3. BufferInStep(t) /\ OwnerInStep(t) /\ BufferInStep(Other(t))
  BY <1>0, <1>2 DEF Synced, Owners
<1>4. resp = NULL /\ tokens = 0
  BY <1>1, <1>3 DEF OwnerInStep, Answered
<1>5. Idle'
  <2>1. Quiet => Quiet'
    BY <1>1 DEF Quiet, NoAnswers, IsAnswer
  <2> QED BY <1>1, <1>4, <2>1 DEF Synced, Idle
<1> DEFINE u == Other(t)
<1>6. /\ pc'[t] = "done"
      /\ \/ pc[u] = "lock" /\ pc'[u] = "granted" /\ lock' = u
         \/ pc[u] = "c_lock" /\ pc'[u] = "c_granted" /\ lock' = u
         \/ pc'[u] = pc[u] /\ lock' = NULL
  <2>1. pc \in [Callers -> NBPcs \cup ParserPcs]
    BY <1>0 DEF CallType
  <2>2. CASE pc[u] \in {"lock", "c_lock"}
    <3>1. /\ lock' = u
          /\ pc' = [pc EXCEPT ![t] = "done",
                              ![u] = IF @ = "lock" THEN "granted" ELSE "c_granted"]
      BY <1>1, <2>2 DEF Unlock
    <3> QED BY <1>0, <2>1, <2>2, <3>1
  <2>3. CASE pc[u] \notin {"lock", "c_lock"}
    <3>1. lock' = NULL /\ pc' = [pc EXCEPT ![t] = "done"]
      BY <1>1, <2>3 DEF Unlock, Goto
    <3> QED BY <1>0, <2>1, <3>1
  <2> QED BY <2>2, <2>3
<1> HIDE DEF u
<1>7. BufferInStep(t)'
  <2>1. result[t] = "EOK" => Complete(t, TRUE)
    BY <1>1, <1>3 DEF BufferInStep
  <2>2. Complete(t, TRUE) => Complete(t, TRUE)'
    BY <1>1 DEF Complete
  <2> QED BY <1>1, <1>3, <1>6, <2>1, <2>2
          DEF BufferInStep, Fitting, Calling, Unsent, InConnect
<1>8. BufferInStep(u)'
  <2>1. BufferInStep(u)
    BY <1>3 DEF u
  <2> QED BY <1>1, <1>6, <2>1 DEF BufferInStep, Complete, Fitting, Calling, Unsent, InConnect
<1>9. OwnerInStep(u)' \/ lock' = NULL
  BY <1>1, <1>4, <1>6 DEF OwnerInStep, Unsent, Awaiting, Answered
<1>10. Owners'
  <2>1. u \in Callers /\ u # NULL
    BY <1>0, NullAssumption DEF u
  <2> QED BY <1>1, <1>4, <1>6, <1>9, <2>1, NullAssumption DEF Owners
<1>11. \A v \in Callers : BufferInStep(v)'
  BY <1>0, <1>7, <1>8 DEF u
<1> QED BY <1>5, <1>10, <1>11 DEF Synced

-----------------------------------------------------------------------------
(* The invariant of the calls in step.                                     *)

LEMMA InStepInit == FittingRequests /\ Init => InStep
<1> SUFFICES ASSUME FittingRequests, Init PROVE Synced
  BY DEF InStep
<1>1. /\ pc["NB"] = "start" /\ pc["parser"] = "read" /\ resp = NULL /\ lock = NULL
      /\ tokens = 0 /\ line_counts = 0 /\ modem = <<>> /\ wire = <<>>
      /\ \A t \in Callers : obj[t] = Object(CloseRequest)
  BY DEF Init
<1>2. ASSUME NEW t \in Callers
      PROVE  BufferInStep(t)
  <2>1. Fitting(obj[t].req)
    BY <1>1 DEF FittingRequests, Object
  <2>2. pc[t] \in {"start", "read"}
    BY <1>1 DEF Callers
  <2> QED BY <2>1, <2>2 DEF BufferInStep, Calling, Unsent, InConnect
<1>3. Idle
  <2>1. Len(wire) = 0
    BY <1>1
  <2> QED BY <1>1, <2>1 DEF Idle, Quiet, NoAnswers
<1>4. Owners
  BY <1>1, NullAssumption DEF Owners
<1> QED BY <1>2, <1>3, <1>4 DEF Synced

LEMMA InStepStep ==
    ASSUME FittingRequests, IInv, InStep, [Next]_vars
    PROVE  InStep'
<1> SUFFICES ASSUME ~slipped' PROVE Synced'
  BY DEF InStep
<1>0. TypeOK /\ OpenOnlyUnderLock /\ Tokens /\ Connecting
  BY DEF IInv
<1>1. /\ ~UnknownLine /\ ~CloseUnanswered /\ \A t \in Callers : ~Timeout(t)
  BY DEF UnknownLine, CloseUnanswered, Timeout
<1>2. CASE Next
  <2>1. slipped' = slipped
    <3>1. ASSUME NEW t \in Callers, CallStep(t)
          PROVE  slipped' = slipped
      BY <3>1 DEF CallStep, TakeLock, Granted, ExecSend, ExecReset, TakeNotice, ExecCheck,
                  Exit, Delete, lineVars
    <3>2. ASSUME \/ NBCalls \/ ConnectSend \/ ConnectGiveUp \/ ConnectCheck \/ ConnectDelete
                 \/ ParseResponse \/ ParseOther \/ ParseContent \/ ContentCall
                 \/ ModemLine \/ ModemDrop \/ ModemUrc \/ LoseLine
          PROVE  slipped' = slipped
      BY <3>2 DEF NBCalls, ExecCall, ConnectCall, ConnectSend, ConnectGiveUp, ConnectCheck,
                  ConnectDelete, ParseResponse, ParseOther, ParseContent, ContentCall,
                  ModemLine, ModemDrop, ModemUrc, LoseLine, lineVars
    <3> QED BY <1>1, <1>2, <3>1, <3>2, CallerFacts DEF Next, NBStep, ParserStep, ModemStep
  <2>2. Synced
    BY <2>1 DEF InStep
  <2>3. ASSUME NEW t \in Callers, CallStep(t)
        PROVE  Synced'
    <3>1. CASE TakeLock(t) \/ Granted(t)
      BY <1>0, <2>2, <3>1, SyncedOwns, SyncedOutside
    <3>2. CASE ExecSend(t)
      BY <1>0, <2>2, <3>2, SyncedSend
    <3>3. CASE ExecReset(t) \/ TakeNotice(t) \/ ExecCheck(t)
      BY <1>0, <2>2, <3>3, SyncedWait
    <3>4. CASE Exit(t)
      BY <1>0, <2>2, <3>4, SyncedExit
    <3>5. CASE Delete(t)
      BY <1>0, <2>2, <3>5, SyncedOutside
    <3> QED BY <2>3, <3>1, <3>2, <3>3, <3>4, <3>5 DEF CallStep
  <2>4. CASE NBCalls \/ ParseContent \/ ContentCall
    BY <1>0, <2>2, <2>4, SyncedOutside, CallerFacts
  <2>5. CASE ConnectSend
    BY <1>0, <2>2, <2>5, SyncedSend, CallerFacts
  <2>6. CASE ConnectGiveUp \/ ConnectCheck \/ ConnectDelete
    BY <1>0, <2>2, <2>6, SyncedConnect
  <2>7. CASE ParseResponse
    BY <1>0, <2>2, <2>7, SyncedParseResponse
  <2>8. CASE ParseOther \/ LoseLine \/ ModemLine \/ ModemDrop \/ ModemUrc
    BY <1>0, <2>2, <2>8, SyncedLineStep
  <2> QED BY <1>1, <1>2, <2>3, <2>4, <2>5, <2>6, <2>7, <2>8, CallerFacts
          DEF Next, NBStep, ParserStep, ModemStep
<1>3. CASE UNCHANGED vars
  <2>1. /\ UNCHANGED <<clientVars, callVars, modem, wire>> /\ slipped' = slipped
        /\ \A t \in Callers : obj'[t] = obj[t]
        /\ line_counts' = line_counts /\ modem' = modem /\ wire' = wire
    BY <1>3 DEF vars, lineVars, clientVars, callVars
  <2>2. Synced
    BY <2>1 DEF InStep
  <2>3. /\ Quiet => Quiet'
        /\ \A t \in Callers : InProgress(t) => InProgress(t)'
    BY <2>1, InProgressKept
  <2> QED BY <1>0, <2>1, <2>2, <2>3, SyncedByLine
<1> QED BY <1>2, <1>3

LEMMA InStepInvariance == FittingRequests => (Spec => []InStep)
<1> SUFFICES ASSUME FittingRequests PROVE Spec => []InStep
  OBVIOUS
<1>1. Init => InStep
  BY InStepInit
<1>2. IInv /\ InStep /\ [Next]_vars => InStep'
  BY InStepStep
<1> QED BY <1>1, <1>2, AtInvariance, PTL DEF Spec

\* For requests whose line number, if they have one, is that of the last line
\* of their answer: until the first timeout and the first unknown line, every
\* call that succeeds returns its own answer, whatever lines get lost
\* (at_client.c:295-321, 381-394, 676-719).
THEOREM InStepAlways == FittingRequests => (Spec => []InStepUntilTimeout)
<1>1. InStep /\ IInv => InStepUntilTimeout
  <2> SUFFICES ASSUME InStep, IInv, ~slipped, NEW t \in Callers,
                      \/ pc[t] = "done" /\ result[t] = "EOK"
                      \/ pc[t] = "c_exit" /\ result[t] = "connected"
               PROVE  WholeAnswer(t)
    BY DEF InStepUntilTimeout
  <2>1. BufferInStep(t)
    BY DEF InStep, Synced
  <2>2. CASE pc[t] = "done" /\ result[t] = "EOK"
    <3>1. Complete(t, TRUE)
      BY <2>1, <2>2 DEF BufferInStep
    <3> QED BY <2>2, <3>1 DEF Complete, WholeAnswer
  <2>3. CASE pc[t] = "c_exit" /\ result[t] = "connected"
    <3>1. Complete(t, FALSE) /\ obj[t].req.line_num = 0
      BY <2>1, <2>3 DEF BufferInStep, InConnect
    <3> QED BY <2>3, <3>1 DEF Complete, WholeAnswer
  <2> QED BY <2>2, <2>3
<1> QED BY <1>1, InStepInvariance, AtInvariance, PTL

-----------------------------------------------------------------------------
(* The line count of a response, and what a success contains.              *)

\* Before its response is open.
Fresh == Calling \cup {"granted", "c_granted"}

\* Until something slips the count of a response is 0 until the response ends.
CountInv ==
    \A t \in Callers :
        /\ obj[t].req \in Requests \cup {CloseRequest}
        /\ ~slipped => /\ obj[t].line_counts \in {0, Len(obj[t].buf)}
                       /\ resp = t \/ pc[t] \in Fresh => obj[t].line_counts = 0

\* A response that is new, or whose lines stay where they are.
NewObject(t)   == \E req \in Requests \cup {CloseRequest} : obj'[t] = Object(req)
LinesRemain(t) == /\ obj'[t].req = obj[t].req
                  /\ obj'[t].line_counts \in {0, obj[t].line_counts}
                  /\ Len(obj'[t].buf) = Len(obj[t].buf)

LEMMA CountKept ==
    ASSUME CountInv, slipped => slipped',
           \A t \in Callers :
              \/ NewObject(t)
              \/ /\ LinesRemain(t)
                 /\ resp' = t \/ pc'[t] \in Fresh => resp = t \/ pc[t] \in Fresh
    PROVE  CountInv'
<1> SUFFICES ASSUME NEW t \in Callers
             PROVE  /\ obj'[t].req \in Requests \cup {CloseRequest}
                    /\ ~slipped' =>
                          /\ obj'[t].line_counts \in {0, Len(obj'[t].buf)}
                          /\ resp' = t \/ pc'[t] \in Fresh => obj'[t].line_counts = 0
  BY DEF CountInv
<1>1. CASE NewObject(t)
  BY <1>1 DEF NewObject, Object
<1>2. CASE /\ LinesRemain(t)
           /\ resp' = t \/ pc'[t] \in Fresh => resp = t \/ pc[t] \in Fresh
  BY <1>2 DEF CountInv, LinesRemain
<1> QED BY <1>1, <1>2

LEMMA CountCallStep ==
    ASSUME TypeOK, CountInv, NEW t \in Callers, CallStep(t)
    PROVE  CountInv'
<1>0. CallType /\ obj \in [Callers -> Response]
  BY DEF TypeOK, CallType
<1>1. slipped' = slipped
  BY DEF CallStep, TakeLock, Granted, ExecSend, ExecReset, TakeNotice, ExecCheck, Exit,
         Delete, lineVars
<1>2. CASE TakeLock(t) \/ Granted(t)
  <2>1. /\ obj' = obj /\ pc[t] \in Fresh /\ resp' \in {resp, t}
        /\ \E label : Goto(t, label)
    BY <1>2 DEF TakeLock, Granted, Owns, Fresh, Calling
  <2>2. \A u \in Callers : u # t => pc'[u] = pc[u]
    BY <1>0, <2>1, GotoPc
  <2>3. ASSUME NEW u \in Callers
        PROVE  /\ LinesRemain(u)
               /\ resp' = u \/ pc'[u] \in Fresh => resp = u \/ pc[u] \in Fresh
    BY <2>1, <2>2 DEF LinesRemain
  <2> QED BY <1>1, <2>3, CountKept
<1>3. CASE ExecSend(t) \/ ExecReset(t) \/ TakeNotice(t) \/ ExecCheck(t)
  <2>1. /\ \E label : label \notin Fresh /\ Goto(t, label)
        /\ resp' = resp
        /\ \/ obj' = obj
           \/ obj' = [obj EXCEPT ![t].line_counts = 0]
           \/ obj' = [obj EXCEPT ![t].buf = Aged(@, t)]
    BY <1>3 DEF ExecSend, ExecReset, TakeNotice, ExecCheck, Fresh, Calling, clientVars
  <2>2. \A u \in Callers : pc'[u] \in Fresh => pc[u] \in Fresh
    BY <1>0, <2>1, GotoPc
  <2>3. Len(Aged(obj[t].buf, t)) = Len(obj[t].buf)
    <3>1. obj[t].buf \in Seq(Line)
      BY <1>0 DEF Response
    <3> QED BY <3>1, AgedLines
  <2>4. \A u \in Callers : LinesRemain(u)
    BY <1>0, <2>1, <2>3 DEF LinesRemain, Response
  <2> QED BY <1>1, <2>1, <2>2, <2>4, CountKept
<1>4. CASE Exit(t)
  <2>1. obj' = obj /\ resp' = NULL /\ Unlock(t)
    BY <1>4 DEF Exit, ClosedByExit
  <2>2. \A u \in Callers : pc'[u] \in Fresh => pc[u] \in Fresh
    BY <1>0, <2>1, UnlockPc, CallerFacts DEF Fresh, Calling
  <2>3. \A u \in Callers : LinesRemain(u) /\ resp' # u
    BY <2>1, NullAssumption DEF LinesRemain
  <2> QED BY <1>1, <2>2, <2>3, CountKept
<1>5. CASE Delete(t)
  <2>1. /\ obj' = [obj EXCEPT ![t] = Object(CloseRequest)] /\ resp' = resp
        /\ Goto(t, IF t = "NB" THEN "idle" ELSE "read")
    BY <1>5 DEF Delete, clientVars
  <2>2. \A u \in Callers : u # t => pc'[u] = pc[u] /\ obj'[u] = obj[u]
    BY <1>0, <2>1, GotoPc
  <2>3. NewObject(t)
    BY <1>0, <2>1 DEF NewObject
  <2>4. \A u \in Callers : u # t => LinesRemain(u)
    BY <2>2 DEF LinesRemain
  <2> QED BY <1>1, <2>1, <2>2, <2>3, <2>4, CountKept
<1> QED BY <1>2, <1>3, <1>4, <1>5 DEF CallStep

\* The line that ends a response sets its count to the lines in the buffer.
LEMMA CountParseResponse ==
    ASSUME TypeOK, OpenOnlyUnderLock, InStep, CountInv, ParseResponse
    PROVE  CountInv'
<1>t. PICK t \in Callers : t = resp
  BY DEF ParseResponse, TypeOK, ClientType
<1> DEFINE o    == obj[t]
           line == Head(wire)
<1>0. CallType /\ obj \in [Callers -> Response]
  BY DEF TypeOK, CallType
<1>1. /\ obj'[t].req = o.req
      /\ \A u \in Callers : u # t => obj'[u] = obj[u]
      /\ obj'[t].buf = Stored(o, line)
      /\ obj'[t].line_counts = IF Ends(o, line) THEN Counted(o) ELSE o.line_counts
  <2>1. IF Ends(o, line)
        THEN obj' = [obj EXCEPT ![t].buf = Stored(o, line), ![t].line_counts = Counted(o)]
        ELSE obj' = [obj EXCEPT ![t].buf = Stored(o, line)]
    BY <1>t DEF ParseResponse
  <2>2. CASE Ends(o, line)
    BY <1>0, <2>1, <2>2 DEF Response
  <2>3. CASE ~Ends(o, line)
    BY <1>0, <2>1, <2>3 DEF Response
  <2> QED BY <2>2, <2>3
<1>2. /\ \A u \in Callers : pc'[u] \in Fresh => pc[u] \in Fresh
      /\ (resp' = resp /\ ~Ends(o, line)) \/ resp' = NULL
  <2>1. \/ resp' = resp /\ pc' = pc /\ ~Ends(o, line)
        \/ resp' = NULL /\ NotifyCaller
    BY <1>t DEF ParseResponse, ClosedByParser
  <2> QED BY <1>0, <2>1, NotifiedPc DEF Fresh, Calling
<1>3. ASSUME ~slipped
      PROVE  /\ o.line_counts = 0 /\ pc[t] \notin Fresh
             /\ Len(Stored(o, line)) = Counted(o)
  <2>1. pc[t] \in Awaiting /\ InProgress(t)
    BY <1>t, <1>3, AnswerAwaited DEF InStep
  <2>2. line \in Line /\ line.of = t
    BY <1>t, <2>1, NextAnswer, ParsedLine
  <2> QED BY <1>t, <1>3, <2>1, <2>2, StoredLine
          DEF InProgress, CountInv, Awaiting, Fresh, Calling
<1>4. slipped' = slipped
  BY DEF ParseResponse
<1> HIDE DEF o, line
<1>5. obj'[t].req \in Requests \cup {CloseRequest}
  BY <1>1 DEF CountInv, o
<1>6. ASSUME ~slipped
      PROVE  /\ obj'[t].line_counts \in {0, Len(obj'[t].buf)}
             /\ resp' = t \/ pc'[t] \in Fresh => obj'[t].line_counts = 0
  BY <1>t, <1>1, <1>2, <1>3, <1>6, NullAssumption
<1>7. ASSUME NEW u \in Callers, u # t
      PROVE  resp' # u /\ (pc'[u] \in Fresh => pc[u] \in Fresh)
  BY <1>t, <1>2, <1>7, NullAssumption
<1> QED BY <1>1, <1>4, <1>5, <1>6, <1>7 DEF CountInv

LEMMA CountStep ==
    ASSUME TypeOK, OpenOnlyUnderLock, InStep, CountInv, [Next]_vars
    PROVE  CountInv'
<1>0. CallType /\ obj \in [Callers -> Response] /\ "NB" \in Callers /\ "parser" \in Callers
  BY CallerFacts DEF TypeOK, CallType
<1>1. ASSUME NEW t \in Callers, CallStep(t)
      PROVE  CountInv'
  BY <1>1, CountCallStep
<1>2. CASE \/ NBCalls \/ ConnectDelete
           \/ ParseContent /\ Calls("parser", CloseRequest, "delay")
  <2>1. PICK t \in Callers, req \in Requests \cup {CloseRequest} :
          /\ obj' = [obj EXCEPT ![t] = Object(req)] /\ resp' = resp /\ slipped' = slipped
          /\ \E label : Goto(t, label)
    BY <1>0, <1>2 DEF NBCalls, ExecCall, ConnectCall, ParseContent, ConnectDelete, Calls,
                      clientVars, lineVars
  <2>2. /\ \A u \in Callers : u # t => pc'[u] = pc[u] /\ LinesRemain(u)
        /\ NewObject(t)
    BY <1>0, <2>1, GotoPc DEF LinesRemain, NewObject
  <2> QED BY <2>1, <2>2, CountKept
<1>3. CASE ConnectSend
  <2>1. /\ obj' = [obj EXCEPT !["NB"].line_counts = 0, !["NB"].buf = Aged(@, "NB")]
        /\ resp' = resp /\ slipped' = slipped /\ Goto("NB", "c_sent")
    BY <1>3 DEF ConnectSend, clientVars
  <2>2. \A u \in Callers : pc'[u] \in Fresh => pc[u] \in Fresh
    BY <1>0, <2>1, GotoPc DEF Fresh, Calling
  <2>3. Len(Aged(obj["NB"].buf, "NB")) = Len(obj["NB"].buf)
    <3>1. obj["NB"].buf \in Seq(Line)
      BY <1>0 DEF Response
    <3> QED BY <1>0, <3>1, AgedLines
  <2>4. \A u \in Callers : LinesRemain(u)
    BY <1>0, <2>1, <2>3 DEF LinesRemain, Response
  <2> QED BY <2>1, <2>2, <2>4, CountKept
<1>4. CASE \/ ConnectGiveUp \/ ConnectCheck \/ ContentCall \/ ParseOther \/ ModemStep
           \/ ParseContent /\ Goto("parser", "no_resp") /\ obj' = obj
           \/ CloseUnanswered
           \/ (\E t \in Callers : Timeout(t)) \/ UNCHANGED vars
  <2>1. /\ obj' = obj /\ resp' \in {resp, NULL} /\ (slipped => slipped')
        /\ \/ pc' = pc
           \/ \E t \in Callers : \E label : label \notin Fresh /\ Goto(t, label)
           \/ pc["parser"] = "delay" /\ Goto("parser", "call")
    BY <1>0, <1>4 DEF ConnectGiveUp, ConnectCheck, ContentCall, ParseOther, ModemStep,
          ParseContent, CloseUnanswered, ModemLine, ModemDrop, ModemUrc, UnknownLine,
          LoseLine, Timeout, Fresh, Calling, vars, clientVars, callVars, lineVars
  <2>2. \A u \in Callers : pc'[u] \in Fresh => pc[u] \in Fresh
    BY <1>0, <2>1, GotoPc DEF Fresh, Calling
  <2>3. \A u \in Callers : LinesRemain(u)
    BY <2>1 DEF LinesRemain
  <2> QED BY <2>1, <2>2, <2>3, CountKept, NullAssumption
<1>5. CASE ParseResponse
  BY <1>5, CountParseResponse
<1>6. ParseContent => \/ Calls("parser", CloseRequest, "delay")
                      \/ Goto("parser", "no_resp") /\ obj' = obj
  BY DEF ParseContent
<1> QED BY <1>0, <1>1, <1>2, <1>3, <1>4, <1>5, <1>6 DEF Next, NBStep, ParserStep

LEMMA CountInvariance == FittingRequests => (Spec => []CountInv)
<1> SUFFICES ASSUME FittingRequests PROVE Spec => []CountInv
  OBVIOUS
<1>1. Init => CountInv
  BY DEF Init, CountInv, Object
<1>2. IInv /\ InStep /\ CountInv /\ [Next]_vars => CountInv'
  BY CountStep DEF IInv
<1> QED BY <1>1, <1>2, AtInvariance, InStepInvariance, PTL DEF Spec

\* For the same requests: until the first timeout and the first unknown line a
\* call returns its response with the number of lines in the buffer, or with 0
\* when it has cleared the count too late (at_client.c:309, 684-714).
THEOREM CountWholeOrLostAlways == FittingRequests => (Spec => []CountWholeOrLost)
<1>1. CountInv => CountWholeOrLost
  BY DEF CountInv, CountWholeOrLost
<1> QED BY <1>1, CountInvariance, PTL

\* A response has room for a line.
Rooms == \A req \in Requests \cup {CloseRequest} : req.room > 0

\* For the same requests, with room for a line: until the first timeout and
\* the first unknown line a command that succeeds has an answer of its own, so
\* a success without one needs a wait that timed out (at_client.c:311-321).
THEOREM AnsweredUntilTimeout ==
    FittingRequests /\ Rooms => (Spec => [](~slipped => OkMeansAnswered))
<1> SUFFICES ASSUME FittingRequests, Rooms PROVE Spec => [](~slipped => OkMeansAnswered)
  OBVIOUS
<1>1. IInv /\ InStep /\ CountInv => (~slipped => OkMeansAnswered)
  <2> SUFFICES ASSUME IInv, InStep, CountInv, ~slipped,
                      NEW t \in Callers, result[t] = "EOK" /\ pc[t] = "done"
               PROVE  \E i \in 1..Len(obj[t].buf) : obj[t].buf[i].of = t
    BY DEF OkMeansAnswered
  <2>1. Complete(t, TRUE)
    BY DEF InStep, Synced, BufferInStep
  <2>2. /\ obj[t].req.room > 0 /\ obj[t].req.room \in Nat /\ obj[t].req.line_num \in Nat
        /\ obj[t].buf \in Seq(Line)
    BY DEF Rooms, CountInv, IInv, TypeOK, CallType, Response, Request
  <2>3. Len(obj[t].buf) > 0
    BY <2>1, <2>2 DEF Complete
  <2>4. 1 \in 1..Len(obj[t].buf)
    BY <2>2, <2>3
  <2> QED BY <2>1, <2>4 DEF Complete
<1> QED BY <1>1, AtInvariance, InStepInvariance, CountInvariance, PTL
=============================================================================
