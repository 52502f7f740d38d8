# A verification of the environment monitor

The repository is the firmware of an environment monitor: an STM32F103ZE board
with RT-Thread 4.0.1.  It measures temperature, humidity, noise and particulate
matter with a BYH-M sensor on a serial line, shows them on a panel of twelve
LED characters, and uploads them over HTTP through an NB-IoT modem driven by
AT commands.  This directory holds TLA+ modules that model the firmware, the
TLC configurations that check them on small instances, and TLAPS proofs of
their most important properties for every value of the constants.

1. [Inventory](#1-inventory)
2. [What is modelled, and where](#2-what-is-modelled-and-where)
3. [The runs](#3-the-runs)
4. [Bounds](#4-bounds)
5. [Fairness](#5-fairness)
6. [What is proved](#6-what-is-proved)
7. [Where code and documentation disagree](#7-where-code-and-documentation-disagree)
8. [Not modelled](#8-not-modelled)
9. [Plan](#9-plan)

## 1. Inventory

Of the 2987 files almost all are the RT-Thread distribution and ST's libraries.
The program is `applications/`, `Mydevice/` and the parts of the kernel, the AT
client and the driver framework that these call.  Paths below are relative to
`src/`.

| component | source | state | operations |
|---|---|---|---|
| Environment monitor | `applications/enviroment.c` | two semaphores, two mailboxes, the locals of three threads | `Enviroment()`, at boot and as a shell command; `NB_IOT_thread_entry`, `BYH_M_thread_entry`, `LED_thread_entry` |
| BYH-M driver | `Mydevice/BYH_M.c` | the serial device and its receive buffer; the last values, in globals; uninitialised locals | init, get_humiture, get_noise, get_PM_Data |
| NB-IoT driver | `Mydevice/NB_IOT.c` | what the modem reported (signal, number of the HTTP instance), a flag set by a URC; in the modem, the instances | Init with its retry loops, the queries, the four HTTP commands, the URC functions |
| AT client | `rt-thread/components/net/at/src/at_client.c` | the open response, its status, the line being read, two semaphores, a mutex | exec_cmd, wait_connect, the parser thread, the receive callback |
| LED panel | `Mydevice/LED_12.c` | a buffer of 12 x 16 columns | Clear, ShowChar, ShowString, ShowChese, SendData |
| IPC | `rt-thread/src/ipc.c` | values, owners, rings, lists of suspended threads | semaphore, mutex, mailbox |
| Serial | `rt-thread/components/drivers/serial/serial.c`, `drivers/drv_usart.c` | data register, receive FIFO of 64 bytes, receive callback | receive interrupt, read, write, open, close, control |
| Kernel | `rt-thread/src/{thread,scheduler,timer,clock,object,mem}.c` | ready lists, timer list, object lists, heap | scheduling, delays, timers, allocation |

`PROJECT.json` has the whole list, with the components that are left out and
the reason.

**How they interact.**  NB_IOT (priority 24) initialises the modem and then
releases `sem_one` to start BYH_M (24).  Once an hour (60 delays, 60 times)
BYH_M measures five values, mails each to `iot_mb` and to `led_mb` as a bare integer, and releases
`sem_one` for NB_IOT and `sem_two` for LED (25).  NB_IOT receives five mails
and makes four HTTP commands of them; LED receives five mails with a timeout
each and draws two pages in turn.  A command goes through the AT client: its
caller writes to the serial line and sleeps on a semaphore; the parser thread
(9) reads what the receive interrupt stored, fills the caller's response and
wakes it, or calls the function of an unsolicited line (URC).  One of these
functions sends a command itself, from the parser thread.

**What is hard, and what correctness means.**

| component | hard behaviour | correct when |
|---|---|---|
| monitor | bare integers whose meaning is their position; one semaphore for two signals; ignored results of sends; timeouts in the middle of a batch; partial failure at start-up; a command that re-runs the start-up | uploads and labels are always those of one batch, in place; each batch is uploaded once, in order, and for ever; a token stands for a whole batch |
| AT client | late answers, timeouts that race the end of a response, a parser that waits for itself, a response object owned by a thread that the other may outrun; a URC function that goes on without a response | the parser writes only into open responses, never into freed ones; no surplus of notices; calls return; a call that succeeds has its own answer |
| mailbox | two lists of sleeping threads, timers that take threads off them, woken threads that find another was faster | a first-in first-out queue; no lost wake-up; timeouts kept exactly over any number of vain wake-ups |
| BYH-M driver | a reply read after a fixed delay from a buffer nobody flushed, into a local nobody clears; values kept when the CRC fails | a value sent was measured in this round, and by its own request; the backlog stays bounded |
| NB-IoT driver | commands that fail one by one while the round goes on; an instance number kept from an earlier round; a modem that restarts; instances left open, of which there are few | no old batch goes out as a new one; no instance is leaked; uploads come back after failures |
| serial | an interrupt that fills a ring which readers empty; oldest byte dropped; a flag cleared after it may have been set again; a reader that resets the count of notices between its look and its sleep | bytes come in order, once; a reader that sleeps has nothing to read, or wakes up as bytes go on coming |
| panel | characters placed by arithmetic on columns | no write outside the buffer, no overlap |
| kernel | ready lists, timer list, 32-bit tick comparison, heap | the highest ready thread runs; timers fire in order, once |

## 2. What is modelled, and where

| module | models | |
|---|---|---|
| `Enviroment` | `applications/enviroment.c` with the kernel calls it makes | state machine, properties, refinement mapping |
| `Monitor` | what the three threads promise together | abstract specification |
| `EnviromentProofs` | theorems about BYH_M, NB_IOT and their mailbox | proofs |
| `EnviromentPanelProofs` | theorems about LED and about the order of the uploads; `Enviroment` implements `Monitor`; when the assertions hold | proofs |
| `BoundedFifo` | what a mailbox promises | abstract specification |
| `Mailbox` | the mailbox of `ipc.c` with the thread timer | state machine, properties, refinement mapping |
| `MailboxProofs` | the invariant of the mailbox | proofs |
| `MailboxRefinement` | `Mailbox` implements `BoundedFifo` | proofs |
| `AtClient` | `at_client.c` as `NB_IOT.c` uses it | state machine, properties |
| `MCAtClient` | the requests TLC uses for `AtClient` | values of constants |
| `AtClientProofs` | the invariant of the AT client, that commands and answers stay in step, and what a line count is worth | proofs |
| `ByteQueue` | what a receiver without flow control promises | abstract specification |
| `SerialRx` | the receive path from the USART to `at_client_getchar` | state machine, properties, refinement mapping |
| `SerialRxProofs` | the ring and its notices; `SerialRx` implements `ByteQueue` | proofs |
| `BYH_M` | `Mydevice/BYH_M.c` on a receive FIFO | state machine, properties |
| `BYH_MProofs` | the backlog, the alignment and the freshness of replies, and whose they are | proofs |
| `NB_IOT` | `Mydevice/NB_IOT.c` and the modem's HTTP instances | state machine, properties |
| `NB_IOTProofs` | which batch is sent, and which instances stay open | proofs |

The modules meet where one component relies on another:

- `Enviroment` uses a mailbox as a sequence with one-step operations; that this
  is what a mailbox is, is what `Mailbox` and `MailboxRefinement` show.
- `BYH_M` uses its receive FIFO as a queue that drops its oldest byte; that the
  register and the ring are such a queue is what `SerialRx` and `ByteQueue` show.
- `AtClient` reads whole lines, of which any may be lost; how bytes reach the
  parser, and that it does not sleep through them, is `SerialRx`.
- `NB_IOT` makes of each command one step, with the outcomes that `AtClient`
  shows a command to have: answered, failed, lost, or a success whose lines are
  missing (the violations at_late and at_count of section 7).
- `Enviroment` makes of the four HTTP commands one upload of any length up to
  `UploadMax` seconds, and of each measurement a value; what a round may upload
  when commands fail is `NB_IOT`, what a value may be when replies fail is `BYH_M`.

### Enviroment

One variable per object or local the code has: `sem_one`, `sem_two` (RT_NULL or
a value with its waiters), `iot_mb`, `led_mb`, the program counters, BYH_M's
loop counters (`secs` for `60 * times + i`), LED's labels and counter `i`.
Steps are the stretches between two kernel calls: `NBInit`, `NBRelease`,
`NBTake`, `NBRecv`, `NBUpload`; `BYHTake`, `BYHHumiture`, `BYHNoise`, `BYHPM`,
`BYHPMDelayed`, `BYHSend` (one of ten), `BYHReleaseOne`, `BYHReleaseTwo`,
`BYHSecond`; `LEDStart`, `LEDPoll`, `LEDRecv`, `LEDDraw`; and `Enviroment()`
itself as `Boot` and as `Rerun`.

- *Priorities.*  LED moves only while both threads of priority 24 are blocked;
  those two interleave freely; the shell preempts all.
- *Time* is counted in seconds.  `Tick` waits until no ready thread has work
  left: a burst of computation is shorter than a second.  Of the delays only
  those of a second or more are counted; a shorter one is an interleaving point.
- *A value* is abstracted to `[field, batch]`: the batch it was measured in and
  its place.  A measured value never matters to the control.
- *Failures.*  Each allocation of `Enviroment()` may fail, in any combination
  (`MayFail`).  `RT_ASSERT` is a pc `"asserted"`: the thread spins and starves
  those below it.

### Mailbox

Ring (`msg_pool`, `in_offset`, `out_offset`, `entry`), the two lists of
suspended threads, and of every thread its `stat`, `error`, the call it is in,
its recomputed timeout and the ticks since.  The kernel runs with interrupts
disabled from the test of the fill level to the return or the sleep, so each of
these stretches is an action: `Send`, `Recv`, then after a wake-up `SendAgain`,
`RecvAgain`, `ReturnError`; `Tick`, `Expire` (the thread timer) and `Reset`.
All mailboxes of the program have `RT_IPC_FLAG_FIFO`; the priority order is not
modelled.  `rt_mb_create` and `rt_mb_delete` are not used by the program (`rt_mb_init` gives the initial
state).  `error` is cleared when a call returns, since its next call clears it
before it can be read.

### AtClient

`resp` is NULL or the thread whose response is open; `tokens` is the value of
`resp_notice`; `obj` holds each thread's response.  The pcs name the statements
of `at_obj_exec_cmd` (`call`, `lock`/`granted`, `open`, `written`, `sent`,
`wait`/`woken`/`timedout`, `exit`, `done`) and, with the prefix `c_`, those of
`at_client_obj_wait_connect`.  The parser outranks NB_IOT, so NB_IOT moves only
while the parser is blocked, at any of its own statements, and a line is parsed
in one step (`ParseResponse`, `ParseOther`, `ParseContent`).  The URC function
`urc_httpContent_func` runs in the parser: it delays (`ContentCall`) and then
goes through the same `CallStep` as NB_IOT.  Without memory for a response
(pc `no_resp`) it goes on all the same: the command is sent without a response,
nobody waits, and `at_resp_get_line_by_kw` then fails `RT_ASSERT(resp)`
(`CloseUnanswered`, pc `asserted`): the parser spins above every thread of the
program.  `at_client_obj_wait_connect` deletes its response (`ConnectDelete`, pc
`c_freed`) before it clears `client->resp`, and the parser may run in between.

The modem and the line are the environment: an answer comes line by line, at
any time, may end in OK or ERROR, may never end (`ModemDrop`); URCs and unknown
lines come at any time; received lines may be lost.  A line is abstracted to
its kind and to the thread whose current command it answers; when a thread
sends its next command what is left of its earlier ones becomes `"old"`.
`slipped` is a history variable: a wait has timed out, a line came that
nobody expected, or a command went out that nobody waits for.

### SerialRx

`dr` is the data register, a byte while RXNE is set.  The ring is the code's
(`buffer`, `put_index`, `get_index`, `is_full`).  The interrupt handler goes
through `isr`: `getc` stores bytes until the register is empty, `indicate` calls
the callback (`at_client_rx_ind`, which releases `rx_notice`), `clear` clears RXNE,
and with it a byte that came since the last `getc`.  The reader, the parser
thread, moves only while the handler is off: `Read` one byte, or find none, then
`ResetNotice`, then `TakeNotice`, which may sleep; `mode` tells whether it reads a
line, for ever, or a block for `urc_httpContent_func`, with a timeout per byte.
A byte may arrive between any two of these steps.  `missed` is a history
variable: the last reset erased the notice of a byte.  Writing, closing and DMA
are left out; the slot of a byte that has been read is shown empty.

### BYH_M

The thread repeats `Request`, `Delay`, `ReadByte`, `ReadEnd`, `Check` for its three
requests and then mails the values (`Send`).  A byte is abstracted to
`[of, place, round]`: the request its reply answers, its place there, and whether
that was in this round; a value to the reply it was taken from.  Everything ages at
`Send`.  `temp` is the uninitialised local of the three functions: each call finds
either what the last one left (`StackKept`) or garbage.  `CrcMatches` is true of
the bytes of one whole reply of the length asked for, of whatever request; the
code checks neither address nor function.  The line (`ByteComes`, `ByteLost`)
damages, loses or delays any byte, but a reply is over before the next request,
at least a second later.  `rx` is the receive FIFO.

### NB_IOT

`NB_IOT_Init` with its loops (`Connect`, `GetCIMI`, `GetSignal`, `ConsultNet`), then
round after round `Take` a batch and `HTTPCreate`, `HTTPContent`, `HTTPHeader`,
`HTTPSend`.  The state is what the code keeps between them: `flag`, `signal`
(NB_SIGNAL), `example` (HTTP_EXAMPLE, the number read from the answer to CREATE, kept when
that answer does not come).  The modem's instances are `inst`, each with the
batch and the header it was given; `pending` are those whose server has to
answer.  `HTTPNMIC(i, more)` is the URC of a part of that answer; with `more = 0`
the URC function sends AT+HTTPCLOSE, or, without memory for a response, sends it
and stops the parser (pc `stopped`, `Asserted`), after which NB_IOT never runs.  Any command or answer may be lost, and
the modem may restart at any step, until `calm`, from which on nothing fails; it
need never come.  `before`, `created`, `filled`, `faulted` and `posted` are history
variables of the round.  Of the signal levels the modem may report, those that the
code's comparison of digits does not store are modelled (`Stores`).

## 3. The runs

| run | module, cfg | checks |
|---|---|---|
| env_threads | `Enviroment`, `Enviroment_threads` | any allocation may fail and the command may be typed: `TypeOK`, `UploadAligned`, `LabelsAligned`, `NoMailDropped`, `CloudMatchesLabels`, `TokenMeansBatch`, `UploadsInOrder`, `ImplementsMonitor`, `PanelForever`, `UploadsForever` |
| mb_calls | `Mailbox`, `Mailbox_calls` | two receivers race for one sender's mails, with timeouts and resets: `TypeOK`, `NoLostWakeup`, `TimeoutExact`, `ImplementsFifo`, `GivesUpInTime`, `MailReachesReceiver`, `TimedCallReturns` |
| at_calls | `MCAtClient`, `AtClient_calls` | two kinds of request, unknown lines, lost lines, timeouts: `TypeOK`, `OpenOnlyUnderLock`, `TokensBounded`, `InStepUntilTimeout`, `CountWholeOrLost`, `CallReturns` |
| serial_rx | `SerialRx`, `SerialRx` | every interleaving of bytes, handler and reader: `TypeOK`, `NoSleepOnData`, `ImplementsQueue`, `WakesWithNextByte`, `RecvReturns` |
| byh_rounds | `BYH_M`, `BYH_M_rounds` | replies whole, short, damaged, lost or late: `TypeOK`, `BacklogBounded`, `AlignedUntilLate`, `FreshIfAnswered`, `RoundsGoOn` |
| nb_rounds | `NB_IOT`, `NB_IOT` | failing commands and a restarting modem: `TypeOK`, `OldOnlyAfterTwoFailures`, `CleanRoundCloses`, `CleanRoundUploads`, `InitEnds`, `UploadsRecover` |
| env_sem_two, env_token, at_late, at_freed, at_count, byh_late | `Enviroment`, `MCAtClient`, `BYH_M` | violations, see section 7 |

What they show, in short.

- *Monitor*: although the receives of LED may time out one by one and the
  mailboxes carry bare integers, the labels and the uploads are those of one
  batch, because a token is only released after the whole batch is mailed and
  uploads finish within the period; the first batch, which other code handles,
  fits in; a missing thread stops only what depends on it.  `ImplementsMonitor`
  says all of it at once: `Monitor` has no threads, mailboxes or seconds, only
  the batch measured, the one uploaded, the one the panel has and the page drawn.
  It never measures a batch while a consumer is owed the last one, and its two
  pages take turns.
- *Mailbox*: resuming one thread per mail and retrying after the wake-up neither
  loses nor duplicates a mail, and a thread woken in vain sleeps for exactly the
  rest of its timeout.
- *AT client*: the lock and the places that clear `client->resp` keep the parser
  out of the responses of calls that are over.  `OpenOnlyUnderLock` counts the
  response that `wait_connect` has freed as inside its call: that the parser may
  write into it is at_freed (section 7).  Late answers leave at most one
  token behind; until the first timeout every success is the answer to the
  caller's own command, whatever lines are lost; its line count is then whole or
  lost, never in between (it is lost in the run at_count); the wait of the parser
  for itself ends, by its timeout, and every call returns, unless the parser has
  stopped in its assertion (the premise of `CallReturns`).
- *Serial*: handler and reader share the ring without losing the order of a byte.
  The reset of `rx_notice` after an empty read does lose notices, and clearing
  RXNE at the end of the handler does lose bytes; what the runs show is the price:
  a parser that sleeps beside a byte has erased its notice itself, and wakes up
  if bytes go on being stored (`WakesWithNextByte`).  If none comes a line stays
  unread until then; the callers' timeouts cover that, and `RecvReturns` shows it for blocks.
- *BYH-M*: short, damaged and lost replies do not spread: each read takes what
  there is and stops, so the next request finds the buffer empty, and a value whose
  reply came is mailed as its own of this round.  A failed CRC leaves the old
  value, which the mail does not tell from a new one.  `FreshIfAnswered` says so,
  with the one exception that TLC found: `temp` is not initialised, and when the
  stack still holds the whole reply to an earlier request of the same length, the
  CRC of an unanswered request matches and its value is that of the other
  (`FromStack`: the PM values are then temperature and humidity of this round).
  One *late* byte breaks the alignment for good, up to a whole reply
  taken for another's (byh_late); even then the buffer never overflows.
- *NB-IoT*: the thread ignores the results of its four commands, so a failed
  CREATE makes the rest of the round work on the instance of an earlier one.
  An old batch is nevertheless only sent again when CREATE and CONTENT have both
  failed; a round without failures leaks no instance and uploads its own batch,
  even when earlier failures have left no instance free; and with all instances
  leaked the next rounds still recover, because ERROR leaves `example` alone
  and sending through an open instance closes it at the end of the answer.
  `UploadsRecover` excludes two states that have no way out: the parser stopped in
  its assertion, and `Stranded`, every instance open and `example` the number of
  none, which takes a CREATE whose answer was not read, or was read without its
  line, for the last instance; only a restart of the modem ends it.

Every property has a mutant, a definition changed as a plausible bug would
change the code, under which TLC finds it violated.  The mutated forms stand
before the definition they replace and are marked "Mutant".

## 4. Bounds

| constant | value | why it is enough |
|---|---|---|
| `SamplePeriod` | 6 (3 in the violations) instead of 60 * 60 delays | the code compares it with nothing but its own counters; 6 leaves room for uploads of every length up to 5 |
| `UploadMax` | 5 (1) | below the period, see section 6; all lengths from 0 up to it occur |
| `InitDelay` | 2 (1) | any positive number delays the start |
| `PageHalf` | 2 (1) instead of 500 | both pages are drawn at least once per batch |
| `Batches` | 3, numbers modulo 3 | at most two batches are in the system at once; with three numbers an older one is told from the next |
| `SemWrap` | 4 instead of 2^16 | above every value that is reached |
| `MayFail`, `MayRerun` | all five allocations, TRUE | each subset of them fails in some behaviour |
| `Senders`, `Receivers` | 1 and 2 | two receivers are needed to race for a mail; the proofs cover any number of both |
| `Size`, `Mails` (`Mailbox`) | 2, two mails | the ring wraps; orders can be told apart |
| `Delays` | {2} | the least with a vain wake-up before its end.  `waited` and `elapsed` stop at their timeout |
| `MaxWire` | 1 | lines in the FIFO at once; the parser may still find the line of an old answer after a new command.  The proofs cover every bound |
| `MaxModem` | 1 | the modem works on one command; a second is refused as by a full input |
| `Requests` | one that ends at OK, one that ends at its second line | the two ways a response ends in `NB_IOT.c`; `room` is in lines and small enough to overflow |
| `MaxTries` | 2, from the code | each try waits 500 ms and the loop's time is 500 ms |
| `Size` (`SerialRx`) | 3 instead of 64 | the ring wraps, overflows and holds two bytes |
| `Byte`, `RecvSize`, `NoticeMax` | two bytes, 2, 2 | order can be told; a block of more than one byte; of `rx_notice` only zero or not matters |
| `LongReply`, `ShortReply`, `Capacity` | 2, 1, 4 (3, 2, 6 in byh_late) instead of 9, 7, 63 | one reply is longer than the other and the FIFO holds two long ones, the relations of the code (`CapacityAssumption`) |
| `StackKept` | TRUE (FALSE in byh_late) | includes the runs in which the stack is overwritten.  In byh_late nothing is kept, so that the late reply is the only cause of the violation |
| `Instances`, `Tries` | 3, 3 instead of 10 | one instance in use, one leaked, one free; a first, a middle and a last try |
| `Levels` | {4, 12, 20, 31, 99} | one of each way the digits are compared |

## 5. Fairness

- `Enviroment`: weak fairness of `Boot` and of each thread, as a ready thread
  is scheduled once nothing above it is ready; strong fairness of `Tick`, as
  LED's polls cannot hold the clock back.  None of `NBInit`: `NB_IOT_Init` ends only
  if the modem registers, as the loop around `ConsultNet` (`NB_IOT.c:83`) has no
  bound, and until then nothing is measured or drawn.  `UploadsForever` and
  `PanelForever` assume in their statement that it has ended (`Registered`), that
  the threads exist and that none spins in an assertion.  That each upload ends
  is `CallReturns` of `AtClient`, with its premise that the parser has not stopped.
- `Mailbox`: weak fairness of `Tick` and of the timers; strong fairness of a
  woken thread, which others may preempt but not for ever.
- `AtClient`: weak fairness of the parser, which nothing preempts, and of the
  timers; strong fairness of NB_IOT; and `[]<>(ParserBlocked \/ ParserStopped)`: a
  line takes milliseconds to arrive and microseconds to parse, so the parser
  catches up with the line, unless it spins in its assertion.  `CallReturns` has
  in its premise that it does not.  Nothing is assumed of the modem.
- `SerialRx`: weak fairness of the handler and `[]<>(isr = "off")`: it takes
  microseconds and a byte about a millisecond, so it ends and lets threads run.
  Strong fairness of the reader, which the handler interrupts any number of
  times; weak fairness of the thread timer.  Bytes need never come;
  `WakesWithNextByte` has their coming as its premise.
- `BYH_M`: weak fairness of the thread, and of the line: each byte of a reply
  comes or is lost before the next request, a second later.
- `NB_IOT`: weak fairness of the thread (its commands return: `CallReturns`) and of
  the end of each server's answer.  Nothing is assumed of registration, restarts
  or losses: `InitEnds` and `UploadsRecover` speak of what follows once `calm` holds,
  and `calm` presupposes that the modem has registered.  A modem that never does
  leaves `NB_IOT_Init` in its loop; no property excludes that.

## 6. What is proved

TLAPS proves the following for all values of the constants that satisfy the
`ASSUME`s of the modules.

**Enviroment.**  Assumptions: `UploadMax < SamplePeriod`, `SamplePeriod >= 2`,
`InitDelay > 0`, `SemWrap >= 2`, `Batches >= 3`.  The invariant is
`IInv == TypeOK /\ Stream /\ (shell = "idle" => Control)`.  `Stream` says what
the mails received, queued and still to be sent are: the fields of one batch in
order.  This alone would not be inductive: a mail sent into a full mailbox, or a
token taken early, breaks it.  `Control` says why that cannot happen: `Counts`
(how full the mailbox is at each place), `Tokens` (when `sem_one` has a token
or a waiter), `Timing` (how many seconds separate the two threads, the place
where `UploadMax < SamplePeriod` is used) and `Booted`.  When the shell spins
in an assertion nothing below it moves and `Control` need not hold: a re-run
replaces the semaphores.  `LabelsInv` adds the same for `led_mb` and LED, and
`OrderInv` relates the batch being uploaded to the last one.
Theorems: `Invariance`, `TypeCorrect`, `UploadAlignedAlways`,
`PanelInvariance`, `LabelsAlignedAlways`, `TokenMeansBatchAlways`,
`NoMailDroppedAlways`, `UploadsInOrderAlways` (an action property) and
`CloudMatchesLabelsAlways`: what panel and cloud show when both are done is
one batch.  Its invariant `Shown` says which batch the labels have while BYH_M
waits for the next one and LED has no token left to take; `OrderInv` says the same of
the uploads.

`ImplementsMonitorAlways` maps the cloud of `Monitor` to the last upload, its panel to
the batch of the last label LED received, its page to what is drawn, and `display` to
whether LED runs (`LEDRuns`).  Sends, receives, tokens and seconds are stutters;
measuring is `BYHHumiture`, uploading the end of `NBUpload`, showing the fifth receive,
drawing `LEDDraw`.  That a step is allowed needs `MInv`, which adds three parts to the
two invariants: `PanelOrder`, that LED has the present batch or is owed exactly one
(the panel's counterpart of `OrderInv`); `PageUp`, which page is up for each value
of the loop counter `i` that both pages share; and `Untouched`, that nothing was
measured or shown before the start, so that a run of `Enviroment()` can start the panel.

Two theorems say how far the violations of section 7 reach, with what the code
needs in order to avoid them as their assumption, about the allocations that may fail
(`MayFail`) and the command being typed (`MayRerun`):
`SemaphoresExistIfCreated` (`sem_two` is created, and should the command be typed
`sem_one` too: the re-run then replaces it under the threads that use it) and
`TakeWaitsForSampleIfSampled` (BYH_M is created; everything else may fail, and the command
may be typed).  All other failures remain possible under these assumptions.

**Mailbox.**  Assumptions: finite sets of threads, `Size >= 1`, positive
`Delays`.  The invariant is
`TypeOK /\ Ring /\ Lists /\ Stats /\ Clocks /\ NoLostWakeup`: the offsets and
the fill level agree; a list holds exactly the threads that sleep on it, once;
the two clocks of a timed call (since the call, since the last sleep) agree
with the recomputed timeout.  Theorems: `MailboxInvariance`,
`MailboxTypeCorrect`, `NoWakeupIsLost`, `TimeoutsAreExact`,
`GivesUpInTimeAlways`.  `MailboxImplementsFifo` maps the queue to the ring's
content from `out_offset` on and shows every step to be a step of `BoundedFifo`
or a stutter.

**AtClient.**  The requests and the bounds are arbitrary.  The invariant is
`TypeOK /\ OpenOnlyUnderLock /\ Tokens /\ Connecting`.  `TokensBounded` speaks
of the moments between two calls and is not inductive: `Tokens` adds how many
notices there are at each place of the owner's call, open or closed
(`HolderTokens`), and `Connecting` that `wait_connect` comes first and sends
before it waits.  Theorems: `AtInvariance`, `AtTypeCorrect`,
`OpenOnlyUnderLockAlways`, `TokensBoundedAlways`.

That commands and answers stay in step needs more, `InStep`: until something
slips, no answer is on its way when no response is open or its owner has sent
nothing (`Idle`), no token waits when the lock is free, and the owner of the lock
is unsent, awaiting or answered (`Owners`).  While it waits, the response is either
closed, complete and with one token, or `InProgress`: the buffer holds as many
lines of its own answer as the parser has counted, and the lines on the wire can
be numbered, in order, from behind those up to what the modem has sent (`Numbering`).
Losses keep this true, since a numbering may have gaps.  A response that ends at
a line number then has no gap: its last line has that number, and each line before
it was counted once.  `BufferInStep` carries the complete answer to the return of the call.
`InStepAlways` has one hypothesis, `FittingRequests`: a request that ends at a line ends at the last line of its answer, as those of
`NB_IOT.c` do.

`CountInv` says what a line count is worth until something slips: it is 0 until the
response ends, which sets it to the lines in the buffer (here `InStep` is needed: the
parser's own count is that of this response), and then it stays or the caller clears it, too late.
`CountWholeOrLostAlways` follows.  `AnsweredUntilTimeout` is about the violation at_late:
until the first timeout and the first unknown line a success does have an answer of
its own.  Its second hypothesis, `Rooms`, is that a response has room for a line.

**SerialRx.**  Assumptions: `Size >= 2`, positive `RecvSize` and `NoticeMax`.  The
invariant is `TypeOK /\ NoticeInv`; `NoticeInv` says for each place of handler
and reader what it means that there is no notice although there is a byte.
`ReceiverIsQueue` maps the queue to the ring's content, followed by the byte
in the register; storing a byte is then a stutter, an overrun the loss of the
oldest, clearing RXNE the loss of the newest.  Theorems: `Invariance`, `TypeCorrect`,
`NoticeSafe`, `ReceiverIsQueue`.

**BYH_M.**  Assumptions: `0 < ShortReply < LongReply`, `2 * LongReply <= Capacity`.
`BacklogInv` counts, at each place of the thread, the bytes in the FIFO and those to
come, and is inductive with the types (`SizeInv`).  `FreshInv` holds until the
first late byte.  During a read (`ReplyInv`) a whole reply is spread, in order, over
`temp`, the FIFO and the bytes to come, and of one that is not whole a byte is
missing or is garbage; at the check `temp` holds the whole reply exactly if it was
answered (`CheckInv`).  `TempInv` is what an uninitialised `temp` makes necessary:
beyond the bytes read, what looks new is from an earlier request of the round, so that
the rest of a short reply cannot complete this one.  `FreshInv` gives the answered
values.  `StackInv` adds what the others may be: a new value was answered or is
`FromStack` (`NewInv`); a reply of this round that did not come whole is never whole
in `temp` (`PartialInv`); and `temp` holds bytes of the present request's own reply or
garbage unless `StackKept` (`CallInv`).  A CRC that matches new bytes without an
answer therefore means the whole reply to another, answered request, left on the
stack.  `NoiseIsOwn` says where this cannot happen, late bytes or not: the reply
to the noise request is the only short one.  Theorems: `TypeCorrect`,
`BacklogIsBounded`, `AlignedRequests`, `FreshValues`, `NoiseIsOwn`.

**NB_IOT.**  Any set of instances, any number of tries.  The invariant is
`TypeOK /\ RoundInv /\ LeakInv`: within a round, what `created` and `filled` say of the
instance `example`, and which instances may be open if nothing has failed.  `UploadInv`
follows the batch through a round: as long as nothing has failed, `example` is the number
of an open instance and each command has left its part there.  An answered CREATE
makes this true from any set of leaked instances: it returns a new one, or,
refused because all are open, leaves a number that is then open too.  Theorems:
`TypeCorrect`, `OldBatchNeedsTwoFailures`, `NoLeakWithoutFailure`, `CleanRoundUploadsAlways`.

**Only model-checked.**  Every safety property of the passing runs is proved.
Liveness (`UploadsForever`, `PanelForever`, `MailReachesReceiver`,
`TimedCallReturns`, `CallReturns`, `WakesWithNextByte`, `RecvReturns`, `RoundsGoOn`,
`InitEnds`, `UploadsRecover`) rests on fairness, which the prover does not handle,
and stays with TLC.  So do the violations, but for the theorems that say what
excludes them.  `Monitor` has no liveness: that batches go on is `UploadsForever` and
`PanelForever`.

## 7. Where code and documentation disagree

Each is a run that states what the repository says, and that TLC refutes.

- `env_token` (`enviroment.c:155`): "wait for BYH_M to finish one data
  acquisition".  Without the BYH_M thread, NB_IOT takes back the token it
  released five lines above.
- `env_sem_two` (`enviroment.c:293`): the check after the creation of `sem_two`
  tests `sem_one`; a failed creation ends in the assertion of `rt_sem_trytake`.
- `at_late` (`at_client.c:311`): "0 : success".  A response that ends after its
  caller's wait has timed out and before `client->resp` is cleared leaves a
  token; the next command succeeds at once, without an answer.
- `at_freed` (`at_client.c:390`, `:74`, `mem.c:542`): "delete and free response
  object", "the released memory block is taken back to system heap".
  `at_client_wait_connect` frees its response before it clears `client->resp`; after
  a timeout the parser has not cleared it either, and a late answer to "AT" is
  copied into the freed block.
- `at_count` (`at_client.c:310`, `at.h:134`): "the count of received response
  lines".  It is set to 0 after the command went out; a caller that is held up
  there, by the other thread of its priority, loses the lines that came.
- `byh_late` (`BYH_M.c:125`): "save the humidity value" (line 135), after "check the
  received data, return if wrong" (line 127).  One reply later than 100 ms stays
  in the buffer, and is read, with a valid CRC, as the reply to a later request:
  what is saved as humidity is PM2.5.  The run sets `StackKept` to FALSE, as the
  uninitialised `temp` is another cause of such values (section 3).

One assertion is reached in the passing runs and has no run of its own: the
exported command (`enviroment.c:359`) calls `rt_mb_init` on registered mailboxes and
stops in the assertion of `rt_object_init` (`object.c:265`).  `Rerun` has it, and the
properties of env_threads hold around it: the shell then spins above the program's threads.

## 8. Not modelled

- *Of the components modelled.*  `Enviroment`: the texts, and with them the labels'
  buffers of 12 characters, into which `enviroment.c:236` formats 13 and more once a value has two digits: what
  stands behind them is the compiler's choice, and the models have no memory
  layout.  `Mailbox`: creation, deletion, priority order.  `AtClient`: the failures of
  `at_client_init`, a failed `at_create_resp` in the NB_IOT thread (its functions return
  then; `NB_IOT` has it as a failed command; in the parser it is modelled), the CLI mode, and how characters become
  lines.  `SerialRx`: the polled write, close, control, DMA.  `NB_IOT`: the texts of
  CGSN and CIMI, and `Connect`, `SendData` and `Char2ASCII`, which nothing calls.
  `BYH_M`: the arithmetic of the CRC and of the values.
- *Not modelled, and in the plan*: section 9.
- *Out of scope*: vendor libraries, board start-up, GPIO and SPI transfers by one
  thread, the shell's console, components that `rtconfig.h` leaves out.

## 9. Plan

Done, in this order: `Enviroment`, `BoundedFifo` and `Mailbox`, `AtClient`, each with its
proofs; `SerialRx` with `ByteQueue`; `BYH_M`; `NB_IOT`; the proofs that were left of
`Enviroment` (`CloudMatchesLabels`) and `AtClient` (`InStepUntilTimeout`); `Monitor` and its
refinement, and the theorems about what excludes each violation.  Next:

1. `LED_12`: the placement of characters in the panel's 12 rows of 48 columns, as
   pure functions against a reference: every cell written is within the
   buffer, and the strings of a page do not overlap.
2. The mutex with priority inheritance, timers and scheduler, beside the
   mailbox, with `AtClient` and `Enviroment` as their users.
3. Theorems about the composition: that `AtClient`'s outcomes of a command are those
   `NB_IOT` allows, and that `SerialRx` under `BYH_M`'s reads is its `rx`.
