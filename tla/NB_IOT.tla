-------------------------------- MODULE NB_IOT --------------------------------
(***************************************************************************)
(* Mydevice/NB_IOT.c as NB_IOT_thread_entry (applications/enviroment.c)    *)
(* uses it: NB_IOT_Init, then for each batch the commands HTTPCREATE,      *)
(* HTTPCONTENT, HTTPHEADER and HTTPSEND, whose results the thread ignores, *)
(* and in the parser urc_httpContent_func, which closes the HTTP instance  *)
(* when the last part of the server's answer is there, or stops in an      *)
(* assertion, and with it everything below its priority.                   *)
(*                                                                         *)
(* A command is one step with the outcomes at_exec_cmd has (AtClient): it  *)
(* is answered, or something fails: no memory, the command or its answer   *)
(* is lost or late, or an OK is read without the line that goes with it.   *)
(* The modem is outside.  From calm on (which may never come) nothing      *)
(* fails.  A batch is abstracted to whether it is this round's; a server's *)
(* answer that has not come after an hour never comes.                     *)
(***************************************************************************)
EXTENDS Naturals

CONSTANTS
    Instances,      \* the HTTP instances of the modem
    NoInstance,     \* HTTP_EXAMPLE when it is the number of none of them
    Tries,          \* how often the IMSI and the signal are asked for (10)
    Levels          \* signal levels the modem reports; 99: no signal

ASSUME InstanceAssumption == NoInstance \notin Instances
ASSUME TriesAssumption    == Tries \in Nat \ {0}
ASSUME LevelAssumption    == Levels \subseteq 0..31 \cup {99}

VARIABLES
    pc,          \* where the NB_IOT thread is; "stopped": the parser is in
                 \* RT_ASSERT, and NB_IOT never runs again
    tries,       \* i of the loops of NB_IOT_Init
    flag,        \* flag: the modem has announced itself
    signal,      \* NB_SIGNAL
    example,     \* HTTP_EXAMPLE
    registered,  \* the modem: it is registered with the network
    inst,        \* the modem: content and header of each instance
    pending,     \* instances the server has still to answer
    calm,        \* nothing fails any more
    before,      \* history: the instances open when the round began
    created,     \* history: the instance of this round's CREATE was read
    filled,      \* history: this round's CONTENT reached an instance
    faulted,     \* history: something failed in this round
    posted       \* history: what this round's SEND has sent to the server

device == <<tries, flag, signal>>
modem  == <<registered, inst, pending, calm>>
round  == <<before, created, filled, faulted, posted>>
vars   == <<pc, device, example, modem, round>>

Contents == {"none", "this", "old"}
Instance == [open : BOOLEAN, content : Contents, header : BOOLEAN]
Closed   == [open |-> FALSE, content |-> "none", header |-> FALSE]
Fresh    == [open |-> TRUE, content |-> "none", header |-> FALSE]
Post     == [content : Contents, header : BOOLEAN]
Nothing  == [content |-> "none", header |-> FALSE]

Open == {i \in Instances : inst[i].open}

Initialising == {"boot", "connect", "cimi", "signal", "net"}

Init ==
    /\ pc = "boot" /\ tries = 0 /\ flag = 0 /\ signal = 0
    /\ example = NoInstance
    /\ registered = FALSE /\ inst = [i \in Instances |-> Closed]
    /\ pending = {} /\ calm = FALSE
    /\ before = {} /\ created = FALSE /\ filled = FALSE /\ faulted = FALSE
    /\ posted = Nothing

-----------------------------------------------------------------------------
(* NB_IOT_Init.                                                            *)

\* Two delays, at_client_init and at_client_port_init.
Boot ==
    /\ pc = "boot"
    /\ pc' = "connect"
    /\ UNCHANGED <<device, example, modem, round>>

\* at_client_wait_connect(500), unless the modem has announced itself.  If it
\* does not answer, NB_IOT_Init returns an error, which the thread ignores.
\* NB_IOT_GetCGSN changes nothing but NB_CGSN.
Connect ==
    /\ pc = "connect"
    /\ \/ pc' = "cimi"
       \/ flag = 0 /\ ~calm /\ pc' = "wait"
    /\ UNCHANGED <<device, example, modem, round>>

\* Mutant: the bound is looked at one try too late.
TriesOverLate == tries = Tries

TriesOver == tries + 1 = Tries

\* Mutant: after the last try i starts again.
TryOnceAgain(done, next) ==
    IF done THEN pc' = next /\ tries' = 0
            ELSE UNCHANGED pc /\ tries' = (tries + 1) % Tries

\* One try of a loop of NB_IOT_Init: it ends it, or there is another.
TryOnce(done, next) ==
    IF done \/ TriesOver
    THEN pc' = next /\ tries' = 0
    ELSE UNCHANGED pc /\ tries' = tries + 1

\* NB_IOT_GetCIMI
GetCIMI ==
    /\ pc = "cimi"
    /\ \E ok \in BOOLEAN : (ok \/ ~calm) /\ TryOnce(ok, "signal")
    /\ UNCHANGED <<flag, signal, example, modem, round>>

\* The digits of "+CSQ:<level>," that NB_IOT_GetSignal stores: one digit, 99,
\* or two digits of which the first is above 2, or above 0 with the second
\* above 2; of 10, 11, 12, 20, 21 and 22 nothing is stored.
Stores(level) ==
    \/ level < 10 \/ level = 99
    \/ level \div 10 > 2
    \/ level \div 10 > 0 /\ level % 10 > 2

\* NB_IOT_GetSignal: unanswered it leaves NB_SIGNAL alone; an OK without its
\* line reads the bytes at address 5, which may pass for any level.
GetSignal ==
    /\ pc = "signal"
    /\ \/ \E level \in Levels :
            signal' = IF Stores(level) THEN level ELSE signal
       \/ ~calm /\ UNCHANGED signal
    /\ TryOnce(signal' # 99, "net")
    /\ UNCHANGED <<flag, example, modem, round>>

\* NB_IOT_ConsultNet, in a loop without a bound.
ConsultNet ==
    /\ pc = "net"
    /\ \/ registered /\ pc' = "wait"
       \/ ~calm /\ UNCHANGED pc
    /\ UNCHANGED <<device, example, modem, round>>

-----------------------------------------------------------------------------
(* A round of NB_IOT_thread_entry.                                         *)

\* rt_sem_take(sem_one), five rt_mb_recv, and the new HTTP_CONTENT; what the
\* modem still holds is an old batch.
Take ==
    /\ pc = "wait"
    /\ calm => pending = {}
    /\ pc' = "create"
    /\ inst' = [i \in Instances |->
                  IF inst[i].content = "this" THEN [inst[i] EXCEPT !.content = "old"]
                                              ELSE inst[i]]
    /\ pending' = {}
    /\ before' = Open
    /\ created' = FALSE /\ filled' = FALSE /\ faulted' = FALSE /\ posted' = Nothing
    /\ UNCHANGED <<device, example, registered, calm>>

\* Mutants: the answer of CREATE is not looked at; a failure resets the number.
ExampleIgnored(i) == example
ExampleReset      == NoInstance

\* HTTP_EXAMPLE after a CREATE: the number in its answer, or as it was.
ExampleRead(i) == i
ExampleKept    == example

Opened(i) == inst' = [inst EXCEPT ![i] = Fresh]

\* NB_IOT_HTTPCREATE, answered: OK with a number, or ERROR with every
\* instance in use.
CreateAnswered ==
    /\ \/ \E i \in Instances \ Open :
            /\ Opened(i)
            /\ example' = ExampleRead(i)
            /\ created' = TRUE
       \/ /\ Open = Instances
          /\ example' = ExampleKept
          /\ UNCHANGED <<inst, created>>
    /\ UNCHANGED faulted

\* The command or its answer is lost, or there is no memory to ask for it.  An
\* OK without "+HTTPCREATE:" makes example the byte at address 12.
CreateFails ==
    /\ ~calm
    /\ UNCHANGED inst \/ \E i \in Instances \ Open : Opened(i)
    /\ example' \in {ExampleKept} \cup Instances \cup {NoInstance}
    /\ faulted' = TRUE
    /\ UNCHANGED created

HTTPCreate ==
    /\ pc = "create"
    /\ CreateAnswered \/ CreateFails
    /\ pc' = "content"
    /\ UNCHANGED <<device, registered, pending, calm, before, filled, posted>>

\* A command on HTTP_EXAMPLE: the modem does it, or says ERROR when the
\* instance is not open; or the command does not get there.
Reaches == example \in Open
Missed  == ~calm

\* NB_IOT_HTTPCONTENT
HTTPContent ==
    /\ pc = "content"
    /\ \/ /\ Reaches
          /\ inst' = [inst EXCEPT ![example].content = "this"]
          /\ filled' = TRUE
          /\ UNCHANGED faulted
       \/ ~Reaches /\ UNCHANGED <<inst, filled, faulted>>
       \/ Missed /\ faulted' = TRUE /\ UNCHANGED <<inst, filled>>
    /\ pc' = "header"
    /\ UNCHANGED <<device, example, registered, pending, calm, before, created, posted>>

\* NB_IOT_HTTPHEADER
HTTPHeader ==
    /\ pc = "header"
    /\ \/ /\ Reaches
          /\ inst' = [inst EXCEPT ![example].header = TRUE]
          /\ UNCHANGED faulted
       \/ ~Reaches /\ UNCHANGED <<inst, faulted>>
       \/ Missed /\ faulted' = TRUE /\ UNCHANGED inst
    /\ pc' = "send"
    /\ UNCHANGED <<device, example, registered, pending, calm, before, created,
                   filled, posted>>

\* NB_IOT_HTTPSEND
HTTPSend ==
    /\ pc = "send"
    /\ \/ /\ Reaches
          /\ posted' = [content |-> inst[example].content, header |-> inst[example].header]
          /\ pending' = pending \cup {example}
          /\ UNCHANGED faulted
       \/ ~Reaches /\ UNCHANGED <<posted, pending, faulted>>
       \/ Missed /\ faulted' = TRUE /\ UNCHANGED <<posted, pending>>
    /\ pc' = "wait"
    /\ UNCHANGED <<device, example, registered, inst, calm, before, created, filled>>

-----------------------------------------------------------------------------
(* The parser's URC functions, and the modem.                              *)

\* Mutant: the flag is read the other way round.
CloseRequestedEarly(more) == more = 1

\* urc_httpContent_func sends AT+HTTPCLOSE when no part follows.
CloseRequested(more) == more = 0

Closing(i) == inst' = [inst EXCEPT ![i] = Closed]

\* "+HTTPNMIC:<i>,<more>": a part of the server's answer.  The line or the
\* command to close may get lost as any other; the command's own answer is
\* never waited for in time.  Without memory for a response the command is sent
\* all the same, and then at_resp_get_line_by_kw fails RT_ASSERT(resp).
HTTPNMIC(i, more) ==
    /\ pc # "stopped" /\ i \in pending
    /\ pending' = IF more = 0 THEN pending \ {i} ELSE pending
    /\ \/ CloseRequested(more) /\ Closing(i) /\ UNCHANGED <<pc, faulted>>
       \/ ~CloseRequested(more) /\ UNCHANGED <<pc, inst, faulted>>
       \/ Missed /\ faulted' = TRUE /\ UNCHANGED <<pc, inst>>
       \/ /\ CloseRequested(more) /\ Missed
          /\ Closing(i) \/ UNCHANGED inst
          /\ faulted' = TRUE
          /\ pc' = "stopped"
    /\ UNCHANGED <<device, example, registered, calm, before, created, filled, posted>>

\* The parser spins in rt_assert_handler.
Asserted == pc = "stopped" /\ UNCHANGED vars

\* The modem restarts: "M5310-A", urc_Inited_func; its instances are gone.
Restarts ==
    /\ pc # "stopped" /\ ~calm
    /\ flag' = 1
    /\ registered' = FALSE
    /\ inst' = [i \in Instances |-> Closed] /\ pending' = {}
    /\ faulted' = TRUE
    /\ UNCHANGED <<pc, tries, signal, example, calm, before, created, filled, posted>>

Registers ==
    /\ ~registered
    /\ registered' = TRUE
    /\ UNCHANGED <<pc, device, example, inst, pending, calm, round>>

BecomesCalm ==
    /\ registered /\ ~calm
    /\ calm' = TRUE
    /\ UNCHANGED <<pc, device, example, registered, inst, pending, round>>

Thread == \/ Boot \/ Connect \/ GetCIMI \/ GetSignal \/ ConsultNet
          \/ Take \/ HTTPCreate \/ HTTPContent \/ HTTPHeader \/ HTTPSend

Modem == Restarts \/ Registers \/ BecomesCalm

Next ==
    \/ Thread
    \/ \E i \in Instances, more \in {0, 1} : HTTPNMIC(i, more)
    \/ Asserted
    \/ Modem

\* The thread runs, a batch comes (Enviroment), the server ends its answer.
\* That the modem registers is no part of it: calm says that it has.
Spec == /\ Init /\ [][Next]_vars
        /\ WF_vars(Thread)
        /\ \A i \in Instances : WF_vars(HTTPNMIC(i, 0))

-----------------------------------------------------------------------------
(* Properties.                                                             *)

\* Type invariant.
TypeOK ==
    /\ pc \in Initialising \cup {"wait", "create", "content", "header",
                                "send", "stopped"}
    /\ tries \in 0..(Tries - 1)
    /\ flag \in {0, 1} /\ signal \in 0..31 \cup {99}
    /\ example \in Instances \cup {NoInstance}
    /\ registered \in BOOLEAN /\ calm \in BOOLEAN
    /\ inst \in [Instances -> Instance]
    /\ pending \subseteq Instances /\ before \subseteq Instances
    /\ created \in BOOLEAN /\ filled \in BOOLEAN /\ faulted \in BOOLEAN
    /\ posted \in Post

\* A batch of an earlier round is sent to the server again only when both the
\* CREATE and the CONTENT of the round have failed.
OldOnlyAfterTwoFailures == posted.content = "old" => ~created /\ ~filled

\* A round in which nothing failed leaves open neither its own instance nor
\* one that was not open before.
CleanRoundCloses ==
    pc = "wait" /\ pending = {} /\ ~faulted => Open \subseteq before \ {example}

\* A round in which nothing failed uploads its own batch with its header,
\* whatever earlier failures have left open: without a free instance CREATE is
\* refused, and HTTP_EXAMPLE is still the number of an open one.
CleanRoundUploads ==
    pc = "wait" /\ ~faulted /\ example # NoInstance =>
        posted = [content |-> "this", header |-> TRUE]

\* NB_IOT_Init ends once the modem is registered (until then ConsultNet is
\* repeated for ever) and answers, whatever has failed before and whatever the
\* signal is.
InitEnds == calm ~> pc \notin Initialising

\* Every instance is open and HTTP_EXAMPLE is the number of none: CREATE is
\* refused, the other commands name no instance, and nothing is closed, until
\* the modem restarts.
Stranded == example = NoInstance /\ Open = Instances

\* However many instances were left open, the uploads come back when failures
\* stop, unless the parser has stopped for want of a response, or every
\* instance was opened by a CREATE whose answer was not read.
Uploaded == pc = "wait" /\ posted = [content |-> "this", header |-> TRUE]

UploadsRecover == calm /\ pc # "stopped" /\ ~Stranded ~> Uploaded
=============================================================================
