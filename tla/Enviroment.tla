------------------------------ MODULE Enviroment ------------------------------
(***************************************************************************)
(* applications/enviroment.c: the three threads of the environment         *)
(* monitor, the two semaphores and the two mailboxes they share, and the   *)
(* time they spend in delays.                                              *)
(*                                                                         *)
(*   NB_IOT (priority 24)  initialises the modem, starts BYH_M, then       *)
(*                         uploads one batch of five values per token of   *)
(*                         sem_one;                                        *)
(*   BYH_M  (priority 24)  measures a batch every SamplePeriod seconds,    *)
(*                         mails it to iot_mb and to led_mb, and releases  *)
(*                         sem_one and sem_two;                            *)
(*   LED    (priority 25)  polls sem_two, copies the five values of led_mb *)
(*                         into its labels and refreshes the panel.        *)
(*                                                                         *)
(* A kernel call is one step (the kernel runs its bodies with interrupts   *)
(* disabled; Mailbox.tla looks inside).  One CPU runs the                  *)
(* highest ready priority: a step of LED needs NB_IOT and BYH_M blocked,   *)
(* the two threads of priority 24 interleave freely (time slices), and the *)
(* shell (priority 20) may preempt all three.                              *)
(*                                                                         *)
(* Time is counted in seconds.  A second passes only when no ready thread  *)
(* of this module still has work to do: a burst of computation is shorter  *)
(* than a second.  A value is abstracted to the batch it was measured in.  *)
(***************************************************************************)
EXTENDS Naturals, Sequences

CONSTANTS
    NULL,          \* RT_NULL, and "no value yet" for a label
    SamplePeriod,  \* seconds between two batches: 60 loops of 60 delays
    InitDelay,     \* seconds NB_IOT_Init spends in its first two delays
    UploadMax,     \* bound on the seconds the four HTTP commands take
    PageHalf,      \* iterations of the LED loop a page stays up (500)
    SemWrap,       \* number of values of the 16-bit semaphore counter
    Batches,       \* batch numbers are counted modulo Batches (bound)
    MayFail,       \* the allocations of Enviroment() that may fail
    MayRerun       \* whether somebody types "Enviroment" in the shell

Allocations == {"sem_one", "sem_two", "NB_IOT", "BYH_M", "LED"}

ASSUME SamplePeriodAssumption == SamplePeriod \in Nat /\ SamplePeriod >= 2
ASSUME InitDelayAssumption    == InitDelay \in Nat \ {0}
ASSUME UploadMaxAssumption    == UploadMax \in Nat /\ UploadMax < SamplePeriod
ASSUME PageHalfAssumption     == PageHalf \in Nat \ {0}
ASSUME SemWrapAssumption      == SemWrap \in Nat /\ SemWrap >= 2
ASSUME BatchesAssumption      == Batches \in Nat /\ Batches >= 3
ASSUME MayFailAssumption      == MayFail \subseteq Allocations
ASSUME MayRerunAssumption     == MayRerun \in BOOLEAN
ASSUME NullAssumption         == /\ NULL \notin [value : Nat, waiters : Seq({"NB", "BYH"})]
                                 /\ NULL \notin [field : 1..5, batch : 0..(Batches - 1)]
                                 /\ NULL \notin 0..(Batches - 1)

VARIABLES
    sem_one, sem_two,   \* RT_NULL, or [value, waiters]
    iot_mb, led_mb,     \* the mails queued, oldest first
    mb_inited,          \* whether rt_mb_init has registered the mailboxes
    main,               \* "boot" until main has run the component inits
    shell,              \* "idle", or "asserted": spinning in RT_ASSERT
    nb_pc,              \* where NB_IOT is
    nb_left,            \* seconds left of its delay, or of UploadMax
    nb_got,             \* the values t, h, n, p2, p10 received so far
    byh_pc,             \* where BYH_M is
    byh_delay,          \* seconds left of rt_thread_mdelay(1000): 1 or 0
    byh_first,          \* TRUE until the first batch is out
    secs,               \* delays finished since the batch: 60 * times + i
    byh_sent,           \* mails of this batch sent so far
    led_pc,             \* where LED is
    led_k,              \* rt_mb_recv calls finished after a token
    labels,             \* t1, h1, z1, pm2_5, pm10
    led_i,              \* loop counter i
    panel,              \* what the last page drawn shows
    led_polled,         \* LED has run since the last second
    batch,              \* number of the batch BYH_M measures or has sent
    uploaded            \* batch of the last finished upload, or NULL

semVars == <<sem_one, sem_two>>
nbVars  == <<nb_pc, nb_left, nb_got, uploaded>>
byhVars == <<byh_pc, byh_delay, byh_first, secs, byh_sent, batch>>
ledVars == <<led_pc, led_k, labels, led_i, panel, led_polled>>
sysVars == <<mb_inited, main, shell>>
vars == <<semVars, iot_mb, led_mb, sysVars, nbVars, byhVars, ledVars>>

-----------------------------------------------------------------------------
(* The data.                                                               *)

\* The five values in the order they are mailed: temperature, humidity,
\* noise, PM2.5 and PM10; and those the two pages of the panel show.
Fields        == 1..5
WeatherFields == 1..3
PMFields      == 4..5

BatchNo == 0..(Batches - 1)
Mail    == [field : Fields, batch : BatchNo]
MbSizeFour == 4   \* mutant: a pool one mail short
MbSize  == 5
Succ(b) == IF b = Batches - 1 THEN 0 ELSE b + 1

NewSem == [value |-> 0, waiters |-> <<>>]

\* Mutant: the value is incremented although a waiter is resumed.
ReleaseCounting(s) == [s EXCEPT !.value = s.value + 1,
                                !.waiters = IF @ = <<>> THEN @ ELSE Tail(@)]

\* rt_sem_release: a waiter is resumed holding the token, so that nobody can
\* take it first; without a waiter the 16-bit value is incremented.
Release(s) ==
    IF s.waiters # <<>> THEN [s EXCEPT !.waiters = Tail(s.waiters)]
    ELSE [s EXCEPT !.value = IF s.value + 1 = SemWrap THEN 0 ELSE s.value + 1]

\* Mutant: the waiter is taken off the list and never made ready.
ResumesNobody(s, th) == s.waiters # s.waiters

\* Whether releasing s resumes thread th.
Resumes(s, th) == s.waiters # <<>> /\ Head(s.waiters) = th

\* rt_sem_take: the token if there is one, else th joins the waiters.
Take(s, th) ==
    IF s.value > 0 THEN [s EXCEPT !.value = s.value - 1]
    ELSE [s EXCEPT !.waiters = Append(s.waiters, th)]

\* Mutant: the newest mail is received first.
PostFront(mb, mail) == IF Len(mb) < MbSize THEN <<mail>> \o mb ELSE mb

\* Mutant: the fill level is not tested.
PostUnchecked(mb, mail) == Append(mb, mail)

\* rt_mb_send: a full mailbox refuses the mail and the result is ignored.
Post(mb, mail) == IF Len(mb) < MbSize THEN Append(mb, mail) ELSE mb

NoLabels == [f \in Fields |-> NULL]

Init ==
    /\ sem_one = NULL /\ sem_two = NULL
    /\ iot_mb = <<>> /\ led_mb = <<>>
    /\ mb_inited = FALSE /\ main = "boot" /\ shell = "idle"
    /\ nb_pc = "none" /\ nb_left = 0 /\ nb_got = <<>> /\ uploaded = NULL
    /\ byh_pc = "none" /\ byh_delay = 0 /\ byh_first = TRUE
    /\ secs = 0 /\ byh_sent = 0 /\ batch = 0
    /\ led_pc = "none" /\ led_k = 0 /\ labels = NoLabels
    /\ led_i = 0 /\ panel = <<>> /\ led_polled = FALSE

-----------------------------------------------------------------------------
(* Enviroment(): run once by main (priority 10) among the component inits, *)
(* and again whenever it is typed in the shell (priority 20).  It never    *)
(* blocks, so it is one step for the threads it creates.                   *)

\* What is left after both semaphores: the mailboxes and the threads.
\* rt_mb_init of a mailbox already registered fails RT_ASSERT in
\* rt_object_init, and the caller spins there.
InitAndStart(failed) ==
    IF mb_inited
    THEN /\ shell' = "asserted"
         /\ UNCHANGED <<iot_mb, led_mb, mb_inited, nbVars, byhVars, ledVars>>
    ELSE /\ mb_inited' = TRUE
         /\ iot_mb' = <<>> /\ led_mb' = <<>>
         /\ nb_pc'  = IF "NB_IOT" \in failed THEN "none" ELSE "init"
         /\ nb_left' = InitDelay
         /\ byh_pc' = IF "BYH_M" \in failed THEN "none" ELSE "take"
         /\ led_pc' = IF "LED" \in failed THEN "none" ELSE "start"
         /\ UNCHANGED <<shell, nb_got, uploaded, byh_delay, byh_first, secs,
                        byh_sent, batch, led_k, labels, led_i, panel, led_polled>>

\* The second NULL check tests sem_one again: a failed sem_two goes on.
RunEnviroment ==
    \E failed \in SUBSET MayFail :
        IF "sem_one" \in failed
        THEN /\ sem_one' = NULL
             /\ UNCHANGED <<sem_two, iot_mb, led_mb, mb_inited, shell,
                            nbVars, byhVars, ledVars>>
        ELSE /\ sem_one' = NewSem
             /\ sem_two' = IF "sem_two" \in failed THEN NULL ELSE NewSem
             /\ InitAndStart(failed)

Boot ==
    /\ main = "boot"
    /\ main' = "done"
    /\ RunEnviroment

Rerun ==
    /\ MayRerun /\ main = "done" /\ shell = "idle"
    /\ RunEnviroment
    /\ UNCHANGED main

-----------------------------------------------------------------------------
(* The scheduler: who may run.                                             *)

\* NB_IOT is blocked in its delays and AT commands ("init", "upload"), on
\* sem_one ("wait") and on an empty mailbox.
NBReady == \/ nb_pc \in {"start", "take", "asserted"}
           \/ nb_pc = "recv" /\ iot_mb # <<>>

BYHDelaying == byh_pc \in {"d1", "d2", "d3", "idle"}
BYHReady == \/ byh_pc \in {"take", "humiture", "noise", "pm", "send",
                           "release1", "release2", "asserted"}
            \/ BYHDelaying /\ byh_delay = 0

\* "poll" is LED in its rt_thread_mdelay(10).
LEDReady == \/ led_pc \in {"start", "draw"}
            \/ led_pc = "recv" /\ led_mb # <<>>

Cpu24 == main = "done" /\ shell = "idle"
Cpu25 == Cpu24 /\ ~NBReady /\ ~BYHReady

-----------------------------------------------------------------------------
(* NB_IOT_thread_entry                                                     *)

\* NB_IOT_Init: 2 s and 5 s of delays, then AT commands and an unbounded
\* loop until the modem has registered; its result is ignored.
NBInit ==
    /\ Cpu24 /\ nb_pc = "init" /\ nb_left = 0
    /\ nb_pc' = "start"
    /\ UNCHANGED <<nb_left, nb_got, uploaded, semVars, iot_mb, led_mb,
                   sysVars, byhVars, ledVars>>

\* rt_sem_release(sem_one): lets BYH_M start.
NBRelease ==
    /\ Cpu24 /\ nb_pc = "start"
    /\ IF sem_one = NULL
       THEN nb_pc' = "asserted" /\ UNCHANGED <<sem_one, byh_pc>>
       ELSE /\ sem_one' = Release(sem_one)
            /\ nb_pc' = "take"
            /\ byh_pc' = IF Resumes(sem_one, "BYH") THEN "humiture" ELSE byh_pc
    /\ UNCHANGED <<nb_left, nb_got, uploaded, sem_two, iot_mb, led_mb, sysVars,
                   byh_delay, byh_first, secs, byh_sent, batch, ledVars>>

\* rt_sem_take(sem_one, RT_WAITING_FOREVER)
NBTake ==
    /\ Cpu24 /\ nb_pc = "take"
    /\ IF sem_one = NULL
       THEN nb_pc' = "asserted" /\ UNCHANGED sem_one
       ELSE /\ sem_one' = Take(sem_one, "NB")
            /\ nb_pc' = IF sem_one.value > 0 THEN "recv" ELSE "wait"
    /\ UNCHANGED <<nb_left, nb_got, uploaded, sem_two, iot_mb, led_mb,
                   sysVars, byhVars, ledVars>>

\* One of the five rt_mb_recv(&iot_mb, ..., RT_WAITING_FOREVER); after the
\* fifth the values are formatted and the HTTP commands start.
NBRecv ==
    /\ Cpu24 /\ nb_pc = "recv" /\ iot_mb # <<>>
    /\ nb_got' = Append(nb_got, Head(iot_mb))
    /\ iot_mb' = Tail(iot_mb)
    /\ IF Len(nb_got') < 5
       THEN UNCHANGED <<nb_pc, nb_left>>
       ELSE nb_pc' = "upload" /\ nb_left' = UploadMax
    /\ UNCHANGED <<uploaded, semVars, led_mb, sysVars, byhVars, ledVars>>

\* HTTPCREATE, HTTPCONTENT, HTTPHEADER and HTTPSEND return, whatever their
\* results; the loop starts over.
NBUpload ==
    /\ Cpu24 /\ nb_pc = "upload"
    /\ nb_pc' = "take"
    /\ nb_left' = 0
    /\ nb_got' = <<>>
    /\ uploaded' = nb_got[1].batch
    /\ UNCHANGED <<semVars, iot_mb, led_mb, sysVars, byhVars, ledVars>>

NBStep == NBInit \/ NBRelease \/ NBTake \/ NBRecv \/ NBUpload

-----------------------------------------------------------------------------
(* BYH_M_thread_entry                                                      *)

\* rt_sem_take(sem_one, RT_WAITING_FOREVER)
BYHTake ==
    /\ Cpu24 /\ byh_pc = "take"
    /\ IF sem_one = NULL
       THEN byh_pc' = "asserted" /\ UNCHANGED sem_one
       ELSE /\ sem_one' = Take(sem_one, "BYH")
            /\ byh_pc' = IF sem_one.value > 0 THEN "humiture" ELSE "wait"
    /\ UNCHANGED <<byh_delay, byh_first, secs, byh_sent, batch, sem_two,
                   iot_mb, led_mb, sysVars, nbVars, ledVars>>

\* BYH_M_get_humiture, then a delay: a new batch begins.
BYHHumiture ==
    /\ Cpu24 /\ byh_pc = "humiture"
    /\ batch' = Succ(batch)
    /\ byh_pc' = "d1" /\ byh_delay' = 1
    /\ UNCHANGED <<byh_first, secs, byh_sent, semVars, iot_mb, led_mb,
                   sysVars, nbVars, ledVars>>

BYHNoise ==
    /\ Cpu24 /\ byh_pc = "d1" /\ byh_delay = 0
    /\ byh_pc' = "d2" /\ byh_delay' = 1
    /\ UNCHANGED <<byh_first, secs, byh_sent, batch, semVars, iot_mb, led_mb,
                   sysVars, nbVars, ledVars>>

\* BYH_M_get_PM_Data: only the first batch waits a second after it.
BYHPM ==
    /\ Cpu24 /\ byh_pc = "d2" /\ byh_delay = 0
    /\ IF byh_first THEN byh_pc' = "d3" /\ byh_delay' = 1
                    ELSE byh_pc' = "send" /\ UNCHANGED byh_delay
    /\ UNCHANGED <<byh_first, secs, byh_sent, batch, semVars, iot_mb, led_mb,
                   sysVars, nbVars, ledVars>>

BYHPMDelayed ==
    /\ Cpu24 /\ byh_pc = "d3" /\ byh_delay = 0
    /\ byh_pc' = "send"
    /\ UNCHANGED <<byh_delay, byh_first, secs, byh_sent, batch, semVars,
                   iot_mb, led_mb, sysVars, nbVars, ledVars>>

\* One of the ten rt_mb_send calls: five to iot_mb, then five to led_mb.
BYHSend ==
    /\ Cpu24 /\ byh_pc = "send"
    /\ IF byh_sent < 5
       THEN /\ iot_mb' = Post(iot_mb, [field |-> byh_sent + 1, batch |-> batch])
            /\ UNCHANGED led_mb
       ELSE /\ led_mb' = Post(led_mb, [field |-> byh_sent - 4, batch |-> batch])
            /\ UNCHANGED iot_mb
    /\ byh_sent' = byh_sent + 1
    /\ byh_pc' = IF byh_sent = 9 THEN "release1" ELSE "send"
    /\ UNCHANGED <<byh_delay, byh_first, secs, batch, semVars, sysVars,
                   nbVars, ledVars>>

\* rt_sem_release(sem_one)
BYHReleaseOne ==
    /\ Cpu24 /\ byh_pc = "release1"
    /\ IF sem_one = NULL
       THEN byh_pc' = "asserted" /\ UNCHANGED <<sem_one, nb_pc>>
       ELSE /\ sem_one' = Release(sem_one)
            /\ byh_pc' = "release2"
            /\ nb_pc' = IF Resumes(sem_one, "NB") THEN "recv" ELSE nb_pc
    /\ UNCHANGED <<byh_delay, byh_first, secs, byh_sent, batch, sem_two, iot_mb,
                   led_mb, sysVars, nb_left, nb_got, uploaded, ledVars>>

\* rt_sem_release(sem_two), and the first delay of the loop.
BYHReleaseTwo ==
    /\ Cpu24 /\ byh_pc = "release2"
    /\ IF sem_two = NULL
       THEN /\ byh_pc' = "asserted"
            /\ UNCHANGED <<sem_two, byh_delay, byh_first, secs, byh_sent>>
       ELSE /\ sem_two' = Release(sem_two)
            /\ byh_pc' = "idle" /\ byh_delay' = 1
            /\ byh_first' = FALSE /\ secs' = 0 /\ byh_sent' = 0
    /\ UNCHANGED <<batch, sem_one, iot_mb, led_mb, sysVars, nbVars, ledVars>>

\* Mutant: the test of times is lost and every second is a sample.
EverySecond == TRUE

\* i has reached 60 and with it times has reached 60.
SampleDue == secs + 1 = SamplePeriod

\* A delay of the loop ends: the next one, or the next batch.
BYHSecond ==
    /\ Cpu24 /\ byh_pc = "idle" /\ byh_delay = 0
    /\ IF SampleDue
       THEN byh_pc' = "humiture" /\ secs' = 0 /\ UNCHANGED byh_delay
       ELSE byh_delay' = 1 /\ secs' = secs + 1 /\ UNCHANGED byh_pc
    /\ UNCHANGED <<byh_first, byh_sent, batch, semVars, iot_mb, led_mb,
                   sysVars, nbVars, ledVars>>

BYHStep == \/ BYHTake \/ BYHHumiture \/ BYHNoise \/ BYHPM \/ BYHPMDelayed
           \/ BYHSend \/ BYHReleaseOne \/ BYHReleaseTwo \/ BYHSecond

-----------------------------------------------------------------------------
(* LED_thread_entry                                                        *)

\* LED_12_Init and the placeholders of the first page.
LEDStart ==
    /\ Cpu25 /\ led_pc = "start"
    /\ panel' = [f \in WeatherFields |-> NULL]
    /\ led_pc' = "poll"
    /\ UNCHANGED <<led_k, labels, led_i, led_polled, semVars, iot_mb, led_mb,
                   sysVars, nbVars, byhVars>>

\* rt_sem_trytake(sem_two), once the delay of 10 ms is over.
LEDPoll ==
    /\ Cpu25 /\ led_pc = "poll"
    /\ led_polled' = TRUE
    /\ IF sem_two = NULL
       THEN led_pc' = "asserted" /\ UNCHANGED <<sem_two, led_k>>
       ELSE IF sem_two.value > 0
       THEN /\ sem_two' = Take(sem_two, "LED")
            /\ led_pc' = "recv" /\ led_k' = 0
       ELSE led_pc' = "draw" /\ UNCHANGED <<sem_two, led_k>>
    /\ UNCHANGED <<labels, led_i, panel, sem_one, iot_mb, led_mb, sysVars,
                   nbVars, byhVars>>

\* Mutant: the fifth receive is missing.
LastRecvFour == 4

\* The receives after a token.
LastRecv == 5

\* The k-th rt_mb_recv(&led_mb, ..., 500) returns: the mail updates the k-th
\* label; without a mail within 500 ms the label keeps its text.
LEDRecv ==
    /\ Cpu25 /\ led_pc = "recv"
    /\ IF led_mb # <<>>
       THEN /\ labels' = [labels EXCEPT ![led_k + 1] = Head(led_mb)]
            /\ led_mb' = Tail(led_mb)
       ELSE UNCHANGED <<labels, led_mb>>
    /\ led_k' = led_k + 1
    /\ led_pc' = IF led_k + 1 = LastRecv THEN "draw" ELSE "recv"
    /\ led_polled' = TRUE
    /\ UNCHANGED <<led_i, panel, semVars, iot_mb, sysVars, nbVars, byhVars>>

\* Mutant: the counter is reset when the weather page is drawn.
NextIEarly(i) == IF i % PageHalf = 0 THEN 1 ELSE i + 1

\* The loop counter i at the end of an iteration.
NextI(i) == IF i % (2 * PageHalf) = 0 THEN 1 ELSE i + 1

\* The rest of the iteration: every PageHalf iterations the panel is cleared
\* and a page drawn, the PM page over the weather page when both are due.
LEDDraw ==
    /\ Cpu25 /\ led_pc = "draw"
    /\ panel' = IF led_i % (2 * PageHalf) = 0 THEN [f \in PMFields |-> labels[f]]
                ELSE IF led_i % PageHalf = 0 THEN [f \in WeatherFields |-> labels[f]]
                ELSE panel
    /\ led_i' = NextI(led_i)
    /\ led_pc' = "poll"
    /\ UNCHANGED <<led_k, labels, led_polled, semVars, iot_mb, led_mb,
                   sysVars, nbVars, byhVars>>

LEDStep == LEDStart \/ LEDPoll \/ LEDRecv \/ LEDDraw

-----------------------------------------------------------------------------
(* A second passes.                                                        *)

\* A thread spinning in RT_ASSERT stays ready but has no work left.
NBSettled  == ~NBReady \/ nb_pc = "asserted"
BYHSettled == ~BYHReady \/ byh_pc = "asserted"

\* LED polls every 10 ms and its receive times out after 500 ms, unless a
\* thread spins above it; so it runs at least once in every second.
LEDSettled == \/ led_pc \in {"none", "asserted"} \/ ~Cpu25
              \/ ~LEDReady /\ led_polled

\* Without the shell spinning, nobody is left with work, and the uploads are
\* over within UploadMax seconds.
Tick ==
    /\ main = "done"
    /\ shell = "idle" => /\ NBSettled /\ BYHSettled /\ LEDSettled
                         /\ nb_pc = "upload" => nb_left > 0
    /\ byh_delay' = IF byh_delay > 0 THEN byh_delay - 1 ELSE 0
    /\ nb_left' = IF nb_left > 0 THEN nb_left - 1 ELSE 0
    /\ led_polled' = FALSE
    /\ UNCHANGED <<semVars, iot_mb, led_mb, sysVars, nb_pc, nb_got, uploaded,
                   byh_pc, byh_first, secs, byh_sent, batch,
                   led_pc, led_k, labels, led_i, panel>>

Next == Boot \/ Rerun \/ NBStep \/ BYHStep \/ LEDStep \/ Tick

\* Weak fairness of the threads: a ready thread is scheduled once nothing
\* above it is ready.  None for NBInit, whose loop ends only if the modem
\* registers.  That NBUpload ends is CallReturns of AtClient, with its premise
\* that the parser, above all these threads, has not stopped.  Strong fairness of Tick: the 10 ms polls of LED cannot keep
\* the clock from advancing.
Fairness ==
    /\ WF_vars(Boot)
    /\ WF_vars(nb_pc # "init" /\ NBStep) /\ WF_vars(BYHStep) /\ WF_vars(LEDStep)
    /\ SF_vars(Tick)

Spec == Init /\ [][Next]_vars /\ Fairness

-----------------------------------------------------------------------------
(* Properties                                                              *)

\* Type invariant: every variable keeps to the values the code gives it; the
\* semaphore values are those of a 16-bit counter, the mailboxes within their pools.
Sem      == [value : 0..(SemWrap - 1), waiters : Seq({"NB", "BYH"})]
SemType  == sem_one \in Sem \cup {NULL} /\ sem_two \in Sem \cup {NULL}
MailType == /\ iot_mb \in Seq(Mail) /\ Len(iot_mb) <= MbSize
            /\ led_mb \in Seq(Mail) /\ Len(led_mb) <= MbSize
            /\ nb_got \in Seq(Mail)
SysType  == /\ main \in {"boot", "done"} /\ shell \in {"idle", "asserted"}
            /\ mb_inited \in BOOLEAN /\ byh_first \in BOOLEAN
            /\ led_polled \in BOOLEAN
NBType   == /\ nb_pc \in {"none", "init", "start", "take", "wait", "recv",
                          "upload", "asserted"}
            /\ nb_left \in Nat /\ uploaded \in BatchNo \cup {NULL}
BYHType  == /\ byh_pc \in {"none", "take", "wait", "humiture", "d1", "d2", "d3",
                           "send", "release1", "release2", "idle", "asserted"}
            /\ byh_delay \in {0, 1} /\ secs \in 0..(SamplePeriod - 1)
            /\ byh_sent \in 0..10 /\ batch \in BatchNo
LEDType  == /\ led_pc \in {"none", "start", "poll", "recv", "draw", "asserted"}
            /\ led_k \in 0..5 /\ (led_pc = "recv" => led_k < 5)
            /\ led_i \in Nat
            /\ labels \in [Fields -> Mail \cup {NULL}]
            /\ panel \in {<<>>} \cup [WeatherFields -> Mail \cup {NULL}]
                              \cup [PMFields -> Mail \cup {NULL}]
TypeOK   == SemType /\ MailType /\ SysType /\ NBType /\ BYHType /\ LEDType

\* The two threads of priority 24 run, and with them the LED thread: one that
\* spins in an assertion starves the threads below it.
NodeAlive == /\ shell = "idle"
             /\ nb_pc \notin {"none", "asserted"}
             /\ byh_pc \notin {"none", "asserted"}
LEDAlive  == NodeAlive /\ led_pc \notin {"none", "asserted"}

\* NB_IOT_Init has returned: without a network it never does.
Registered == nb_pc # "init"

\* The values NB_IOT formats into one upload (t, h, n, p2, p10) are the five
\* fields of one batch in their places: the mailbox carries bare integers, so
\* only the order of the sends and of the receives tells them apart.
UploadAligned ==
    \A k \in 1..Len(nb_got) : nb_got[k] = [field |-> k, batch |-> nb_got[1].batch]

\* Outside its five receives, LED shows labels of one batch, each value beside
\* its own name, although each receive may time out on its own.
LabelsAligned ==
    led_pc # "recv" =>
        \/ labels = NoLabels
        \/ \E b \in BatchNo : \A f \in Fields : labels[f] = [field |-> f, batch |-> b]

\* A token of sem_one in the hands of NB_IOT stands for a whole batch waiting
\* in iot_mb, and one of sem_two for a whole batch in led_mb: no receive after
\* a token blocks or times out.  sem_one also carries the token by which NB_IOT
\* starts BYH_M, and NB_IOT takes from sem_one right after releasing it.
TokenMeansBatch ==
    /\ nb_pc = "recv" /\ byh_pc # "none" => Len(nb_got) + Len(iot_mb) = 5
    /\ led_pc = "recv" /\ LEDAlive => led_k + Len(led_mb) = 5

\* rt_mb_send never finds a mailbox full while its reader lives: the results of
\* the ten sends are ignored, so a refused mail would shift every later batch.
NoMailDropped ==
    byh_pc = "send" =>
        /\ byh_sent < 5 /\ NodeAlive => Len(iot_mb) < MbSize
        /\ byh_sent >= 5 /\ LEDAlive => Len(led_mb) < MbSize

\* Every batch is uploaded once, in order, none skipped or repeated.
UploadsInOrder ==
    [][uploaded' # uploaded =>
          uploaded' = IF uploaded = NULL THEN Succ(0) ELSE Succ(uploaded)]_vars

\* Once both consumers are done with a batch, the panel's labels and the last
\* upload come from the same batch: the two mailboxes never drift apart.
CloudMatchesLabels ==
    /\ nb_pc = "wait" /\ byh_pc = "idle" /\ LEDAlive
    /\ led_pc = "poll" /\ sem_two.value = 0
    /\ uploaded # NULL
    => labels[1] = [field |-> 1, batch |-> uploaded]

\* Once the modem has registered, monitoring never stops: every batch number is
\* uploaded again and again, as long as BYH_M and NB_IOT run; a missing LED
\* thread does not matter.
UploadsForever ==
    <>[](NodeAlive /\ Registered) => \A b \in BatchNo : []<>(uploaded = b)

\* Once the modem has registered, and not before, the panel shows the weather
\* page and the PM page of every batch: BYH_M waits for NB_IOT_Init too.
PanelForever ==
    <>[](LEDAlive /\ Registered) =>
        \A b \in BatchNo : \A F \in {WeatherFields, PMFields} :
            []<>(panel = [f \in F |-> [field |-> f, batch |-> b]])

\* LED has started, and nobody above it spins in an assertion.
LEDRuns == /\ shell = "idle" /\ nb_pc # "asserted" /\ byh_pc # "asserted"
           /\ led_pc \notin {"none", "asserted"}

\* The batch whose five values LED received last.
LastShown == IF labels[5] = NULL THEN NULL ELSE labels[5].batch

Promised == INSTANCE Monitor WITH cloud <- uploaded, shown <- LastShown,
                                  page <- panel, display <- LEDRuns

\* The three threads, with their mailboxes, semaphores and delays, do what
\* Monitor says: no consumer misses or repeats a batch, or is still owed one
\* when the next is measured, and a page never mixes two batches.
ImplementsMonitor == Promised!Spec

\* RT_ASSERT(sem != RT_NULL) of rt_sem_take and rt_sem_release holds.
SemaphoresExist == nb_pc # "asserted" /\ byh_pc # "asserted" /\ led_pc # "asserted"

\* "Wait for BYH_M to finish one data acquisition": past its rt_sem_take of
\* sem_one, NB_IOT has a finished acquisition.
TakeWaitsForSample == nb_pc = "recv" => Len(nb_got) + Len(iot_mb) = 5
=============================================================================
