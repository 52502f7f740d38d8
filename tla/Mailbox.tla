------------------------------- MODULE Mailbox -------------------------------
(***************************************************************************)
(* rt-thread/src/ipc.c: the mailbox.  A ring of Size words, a list of      *)
(* threads suspended in rt_mb_recv, another of threads suspended in        *)
(* rt_mb_send_wait, and the thread timer that ends a timed wait.           *)
(*                                                                         *)
(* The kernel runs with interrupts disabled from the test of the fill      *)
(* level to the moment the caller returns or sleeps, and again from the    *)
(* wake-up to the next sleep: each such stretch is one action.  Between    *)
(* them any other thread, or the tick interrupt, may run: a thread that is *)
(* woken tests the mailbox anew and may find that another one was faster.  *)
(* Every mailbox of the program has RT_IPC_FLAG_FIFO, so that a list of    *)
(* threads is served in the order of arrival.                              *)
(***************************************************************************)
EXTENDS Integers, Sequences, FiniteSets

CONSTANTS
    Senders, Receivers,   \* the threads that send, and those that receive
    Mails, NoMail,        \* the words mailed, and the content of a fresh slot
    Size,                 \* mb->size
    Delays                \* the positive timeouts asked for, in ticks

ASSUME ThreadsAssumption == IsFiniteSet(Senders) /\ IsFiniteSet(Receivers)
ASSUME SizeAssumption    == Size \in Nat \ {0}
ASSUME DelaysAssumption  == Delays \subseteq Nat \ {0}

VARIABLES
    msg_pool, in_offset, out_offset, entry,   \* the ring
    suspend_thread,          \* receivers asleep, in the order of arrival
    suspend_sender_thread,   \* senders asleep, in the order of arrival
    stat,      \* "suspend", or "ready" (to run, or running)
    error,     \* thread->error: why a thread was woken
    call,      \* the operation a thread is in, else the result of the last
    value,     \* the mail a sender offers, or the last mail received
    timeout,   \* the parameter timeout, as recomputed after each wake-up
    elapsed,   \* ticks since tick_delta was taken, up to timeout
    asked,     \* history: the timeout the call was made with
    waited     \* history: ticks since the call was made, up to asked

ringVars == <<msg_pool, in_offset, out_offset, entry>>
listVars == <<suspend_thread, suspend_sender_thread>>
timeVars == <<timeout, elapsed, asked, waited>>
vars == <<ringVars, listVars, stat, error, call, value, timeVars>>

Threads  == Senders \cup Receivers
Results  == {"EOK", "EFULL", "ETIMEOUT", "ERROR"}
Forever  == -1   \* RT_WAITING_FOREVER
Timeouts == {Forever, 0} \cup Delays

Init ==
    /\ msg_pool = [i \in 0..(Size - 1) |-> NoMail]
    /\ in_offset = 0 /\ out_offset = 0 /\ entry = 0
    /\ suspend_thread = <<>> /\ suspend_sender_thread = <<>>
    /\ stat = [t \in Threads |-> "ready"]
    /\ error = [t \in Threads |-> "EOK"]
    /\ call = [t \in Threads |-> "EOK"]
    /\ value = [t \in Threads |-> NoMail]
    /\ timeout = [t \in Threads |-> 0] /\ elapsed = [t \in Threads |-> 0]
    /\ asked = [t \in Threads |-> 0] /\ waited = [t \in Threads |-> 0]

-----------------------------------------------------------------------------
(* The thread's side of the kernel.                                        *)

\* Mutant: the offset runs one past the pool before it goes back to 0.
NextOffsetPast(offset) == IF offset + 1 > Size THEN 0 ELSE offset + 1

\* Mutant: the last slot of the pool is never used.
NextOffsetEarly(offset) == IF offset + 1 >= Size - 1 THEN 0 ELSE offset + 1

\* ++ offset, back to 0 at the end of the pool.
NextOffset(offset) == IF offset + 1 >= Size THEN 0 ELSE offset + 1

\* Mutant: a waiter is resumed only when the box stops being empty or full.
ResumesOnEdge(list) == list # <<>> /\ entry \in {0, Size}

\* Whether a send or a receive resumes a thread of the other list.
ResumesOne(list) == list # <<>>

\* rt_ipc_list_resume: the first thread of the list becomes ready.
Resumed(list) == IF ResumesOne(list) THEN {Head(list)} ELSE {}
Rest(list)    == IF ResumesOne(list) THEN Tail(list) ELSE list

\* rt_list_remove: thread t, wherever it stands in the list.
Unlink(list, t) ==
    IF \E i \in 1..Len(list) : list[i] = t
    THEN LET p == CHOOSE i \in 1..Len(list) : list[i] = t
         IN [i \in 1..(Len(list) - 1) |-> IF i < p THEN list[i] ELSE list[i + 1]]
    ELSE list

\* The timer of t has run out: it was set to timeout[t] when t went to sleep.
Due(t) == stat[t] = "suspend" /\ timeout[t] > 0 /\ elapsed[t] = timeout[t]

\* rt_timer_check runs in the tick interrupt, before any thread.
NoneDue == \A t \in Threads : ~Due(t)

\* t leaves its call with a result; what the call used is forgotten.
Returns(t, result, mail) ==
    /\ call' = [call EXCEPT ![t] = result]
    /\ value' = [value EXCEPT ![t] = mail]
    /\ error' = [error EXCEPT ![t] = "EOK"]
    /\ timeout' = [timeout EXCEPT ![t] = 0]
    /\ elapsed' = [elapsed EXCEPT ![t] = 0]
    /\ asked' = [asked EXCEPT ![t] = 0]
    /\ waited' = [waited EXCEPT ![t] = 0]

\* rt_ipc_list_suspend and the start of the thread timer.
Sleeps(t, op, mail, n) ==
    /\ call' = [call EXCEPT ![t] = op]
    /\ value' = [value EXCEPT ![t] = mail]
    /\ error' = [error EXCEPT ![t] = "EOK"]
    /\ stat' = [stat EXCEPT ![t] = "suspend"]
    /\ timeout' = [timeout EXCEPT ![t] = n]
    /\ elapsed' = [elapsed EXCEPT ![t] = 0]
    /\ asked' = [asked EXCEPT ![t] = IF call[t] = op THEN @ ELSE n]
    /\ UNCHANGED <<ringVars, waited>>

Wakes(S) == stat' = [t \in Threads |-> IF t \in S THEN "ready" ELSE stat[t]]

-----------------------------------------------------------------------------
(* One stretch of rt_mb_send_wait or rt_mb_recv: from the test of the fill *)
(* level to the return or the sleep.                                       *)

\* There is a free slot: the mail is stored, a receiver is resumed.
Put(t, mail) ==
    /\ entry < Size
    /\ msg_pool' = [msg_pool EXCEPT ![in_offset] = mail]
    /\ in_offset' = NextOffset(in_offset)
    /\ entry' = entry + 1
    /\ Wakes(Resumed(suspend_thread))
    /\ suspend_thread' = Rest(suspend_thread)
    /\ Returns(t, "EOK", NoMail)
    /\ UNCHANGED <<out_offset, suspend_sender_thread>>

\* There is a mail: the oldest is returned, a sender is resumed.
TakeMail(t) ==
    /\ entry > 0
    /\ Returns(t, "EOK", msg_pool[out_offset])
    /\ out_offset' = NextOffset(out_offset)
    /\ entry' = entry - 1
    /\ Wakes(Resumed(suspend_sender_thread))
    /\ suspend_sender_thread' = Rest(suspend_sender_thread)
    /\ UNCHANGED <<msg_pool, in_offset, suspend_thread>>

Fails(t, result) ==
    /\ Returns(t, result, NoMail)
    /\ UNCHANGED <<ringVars, listVars, stat>>

SleepSending(t, mail, n) ==
    /\ entry = Size /\ n # 0
    /\ Sleeps(t, "send", mail, n)
    /\ suspend_sender_thread' = Append(suspend_sender_thread, t)
    /\ UNCHANGED suspend_thread

SleepReceiving(t, n) ==
    /\ entry = 0 /\ n # 0
    /\ Sleeps(t, "recv", NoMail, n)
    /\ suspend_thread' = Append(suspend_thread, t)
    /\ UNCHANGED suspend_sender_thread

TrySend(t, mail, n) ==
    \/ Put(t, mail)
    \/ entry = Size /\ n = 0 /\ Fails(t, "EFULL")
    \/ SleepSending(t, mail, n)

TryRecv(t, n) ==
    \/ TakeMail(t)
    \/ entry = 0 /\ n = 0 /\ Fails(t, "ETIMEOUT")
    \/ SleepReceiving(t, n)

\* Mutant: timeout is not recomputed, every sleep starts from the whole.
RemainingWhole(t) == timeout[t]

\* Mutant: a tick too many is taken off.
RemainingShort(t) == IF timeout[t] > elapsed[t] + 1 THEN timeout[t] - elapsed[t] - 1
                     ELSE IF timeout[t] > 0 THEN 0 ELSE timeout[t]

\* timeout -= rt_tick_get() - tick_delta, not below 0; forever stays.
Remaining(t) == IF timeout[t] > 0 THEN timeout[t] - elapsed[t] ELSE timeout[t]

Send(t) ==
    /\ NoneDue /\ call[t] \in Results
    /\ \E mail \in Mails, n \in Timeouts : TrySend(t, mail, n)

Recv(t) ==
    /\ NoneDue /\ call[t] \in Results
    /\ \E n \in Timeouts : TryRecv(t, n)

\* A sender or receiver that was resumed goes round its loop.
SendAgain(t) ==
    /\ NoneDue /\ call[t] = "send" /\ stat[t] = "ready" /\ error[t] = "EOK"
    /\ TrySend(t, value[t], Remaining(t))

RecvAgain(t) ==
    /\ NoneDue /\ call[t] = "recv" /\ stat[t] = "ready" /\ error[t] = "EOK"
    /\ TryRecv(t, Remaining(t))

\* if (thread->error != RT_EOK) return thread->error;
ReturnError(t) ==
    /\ NoneDue /\ call[t] \in {"send", "recv"} /\ stat[t] = "ready" /\ error[t] # "EOK"
    /\ Fails(t, error[t])

-----------------------------------------------------------------------------
(* The tick interrupt, and the reset.                                      *)

\* A tick passes; a clock that has reached its bound stays there.
Tick ==
    /\ NoneDue
    /\ \E t \in Threads : waited[t] < asked[t]
    /\ elapsed' = [t \in Threads |->
                     IF elapsed[t] < timeout[t] THEN elapsed[t] + 1 ELSE elapsed[t]]
    /\ waited' = [t \in Threads |->
                     IF waited[t] < asked[t] THEN waited[t] + 1 ELSE waited[t]]
    /\ UNCHANGED <<ringVars, listVars, stat, error, call, value, timeout, asked>>

\* rt_thread_timeout, called by rt_timer_check.
Expire(t) ==
    /\ Due(t)
    /\ error' = [error EXCEPT ![t] = "ETIMEOUT"]
    /\ suspend_thread' = Unlink(suspend_thread, t)
    /\ suspend_sender_thread' = Unlink(suspend_sender_thread, t)
    /\ Wakes({t})
    /\ UNCHANGED <<ringVars, call, value, timeVars>>

Asleep == {t \in Threads : stat[t] = "suspend"}

\* rt_mb_control(RT_IPC_CMD_RESET): rt_ipc_list_resume_all of both lists,
\* then an empty ring.
Reset ==
    /\ NoneDue
    /\ error' = [t \in Threads |-> IF t \in Asleep THEN "ERROR" ELSE error[t]]
    /\ Wakes(Asleep)
    /\ suspend_thread' = <<>> /\ suspend_sender_thread' = <<>>
    /\ entry' = 0 /\ in_offset' = 0 /\ out_offset' = 0
    /\ UNCHANGED <<msg_pool, call, value, timeVars>>

Woken(t) == SendAgain(t) \/ RecvAgain(t) \/ ReturnError(t)

Next ==
    \/ \E t \in Senders : Send(t)
    \/ \E t \in Receivers : Recv(t)
    \/ \E t \in Threads : Woken(t) \/ Expire(t)
    \/ Tick
    \/ Reset

Spec == Init /\ [][Next]_vars

\* The interrupts are served, and a ready thread runs at last: the threads
\* of the program spend their time in delays and waits.  SF, because a tick
\* may come between the wake-up and the run any number of times.
Fairness ==
    /\ WF_vars(Tick)
    /\ \A t \in Threads : WF_vars(Expire(t)) /\ SF_vars(Woken(t))

FairSpec == Spec /\ Fairness

-----------------------------------------------------------------------------
(* Properties.                                                             *)

TypeOK ==
    /\ msg_pool \in [0..(Size - 1) -> Mails \cup {NoMail}]
    /\ in_offset \in 0..(Size - 1) /\ out_offset \in 0..(Size - 1)
    /\ entry \in 0..Size
    /\ suspend_thread \in Seq(Receivers) /\ suspend_sender_thread \in Seq(Senders)
    /\ stat \in [Threads -> {"ready", "suspend"}]
    /\ error \in [Threads -> {"EOK", "ETIMEOUT", "ERROR"}]
    /\ call \in [Threads -> Results \cup {"send", "recv"}]
    /\ value \in [Threads -> Mails \cup {NoMail}]
    /\ timeout \in [Threads -> Nat \cup {Forever}]
    /\ elapsed \in [Threads -> Nat]
    /\ asked \in [Threads -> Timeouts]
    /\ waited \in [Threads -> Nat]

\* The threads that were resumed to try their operation op again.
ToRetry(op) == {t \in Threads : call[t] = op /\ stat[t] = "ready" /\ error[t] = "EOK"}

\* No wake-up is lost: while receivers sleep, every mail in the box has a
\* resumed receiver on its way to it, and while senders sleep every free
\* slot has a resumed sender (rt_mb_send_wait, rt_mb_recv: "resume suspended
\* thread" after each mail and not only when the box stops being empty).
NoLostWakeup ==
    /\ suspend_thread # <<>> => entry <= Cardinality(ToRetry("recv"))
    /\ suspend_sender_thread # <<>> => Size - entry <= Cardinality(ToRetry("send"))

\* However often a timed call is woken in vain, it sleeps no longer than the
\* timeout it was made with ("re-calculate timeout tick"), and it reports
\* that the time is over only when it is.
TimeoutExact ==
    \A t \in Threads :
      asked[t] > 0 =>
        /\ stat[t] = "suspend" /\ waited[t] = asked[t] => Due(t)
        /\ error[t] = "ETIMEOUT" => waited[t] = asked[t]

\* A timed call whose loop gives up has waited for the whole timeout.
GivesUpInTime ==
    [][\A t \in Threads :
         asked[t] > 0 /\ call'[t] \in {"ETIMEOUT", "EFULL"} => waited[t] = asked[t]]_vars

\* The slot of the i-th oldest mail.
Slot(i) == IF out_offset + i - 1 < Size THEN out_offset + i - 1
           ELSE out_offset + i - 1 - Size

Contents == [i \in 1..entry |-> msg_pool[Slot(i)]]

Fifo == INSTANCE BoundedFifo WITH queue <- Contents

\* The ring and its lists of threads are a first-in first-out queue in which
\* a call is served whole or fails (rt_mb_send_wait, rt_mb_recv).
ImplementsFifo == Fifo!Spec

\* A mail in the box does not stay there while receivers sleep: the resumed
\* receiver runs and takes it.
MailReachesReceiver ==
    (suspend_thread # <<>> /\ entry > 0) ~> (suspend_thread = <<>> \/ entry = 0)

\* A call with a timeout returns, whatever the other threads do.
TimedCallReturns ==
    \A t \in Threads : asked[t] > 0 ~> asked[t] = 0
=============================================================================
