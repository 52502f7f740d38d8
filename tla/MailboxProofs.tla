---------------------------- MODULE MailboxProofs ----------------------------
(***************************************************************************)
(* Theorems about Mailbox for every set of threads and mails, every size   *)
(* and every set of timeouts: the inductive invariant IInv, and from it    *)
(* that no wake-up is lost and that a timed wait lasts as long as asked.   *)
(***************************************************************************)
EXTENDS Mailbox, FiniteSetTheorems, SequenceTheorems, TLAPS

\* The mails lie between the two offsets.
Ring == in_offset = IF out_offset + entry < Size THEN out_offset + entry
                    ELSE out_offset + entry - Size

Distinct(list) == \A i, j \in 1..Len(list) : list[i] = list[j] => i = j

\* The threads of a list sleep in its operation, each listed once.
ListOf(list, op) ==
    /\ \A i \in 1..Len(list) : stat[list[i]] = "suspend" /\ call[list[i]] = op
    /\ Distinct(list)

Lists == ListOf(suspend_thread, "recv") /\ ListOf(suspend_sender_thread, "send")

\* A thread between two calls runs; a sleeping one has no error yet; a
\* sender in its call offers a mail.
Stats == \A t \in Threads :
           /\ call[t] \in Results => stat[t] = "ready" /\ error[t] = "EOK"
           /\ stat[t] = "suspend" => error[t] = "EOK"
           /\ call[t] = "send" => value[t] \in Mails /\ t \in Senders
           /\ call[t] = "recv" => t \in Receivers /\ value[t] = NoMail

\* The clock of the timer and the clock of the call.
Clock(t) ==
    /\ call[t] \in Results => asked[t] = 0
    /\ asked[t] = 0 => timeout[t] = 0 /\ elapsed[t] = 0 /\ waited[t] = 0
    /\ asked[t] = Forever => timeout[t] = Forever /\ elapsed[t] = 0 /\ waited[t] = 0
    /\ asked[t] > 0 => /\ timeout[t] > 0 /\ timeout[t] <= asked[t]
                       /\ elapsed[t] <= timeout[t]
                       /\ waited[t] = asked[t] - timeout[t] + elapsed[t]
    /\ asked[t] > 0 /\ error[t] = "ETIMEOUT" => elapsed[t] = timeout[t]

Clocks == \A t \in Threads : Clock(t)

IInv == TypeOK /\ Ring /\ Lists /\ Stats /\ Clocks /\ NoLostWakeup

-----------------------------------------------------------------------------
(* The steps, once more, by what they do to the mailbox.                   *)

\* t runs, between two calls or woken in op without an error.
Caller(t, op) ==
    /\ stat[t] = "ready" /\ error[t] = "EOK"
    /\ call[t] \in Results \cup {op}

\* The timeout t goes on with: the one it asks for, or what is left.
Limit(t, op, n) == IF call[t] = op THEN n = Remaining(t) ELSE n \in Timeouts

\* The mail a sender in its call goes on with.
Offers(t, mail) == call[t] = "send" => mail = value[t]

StepPut       == \E t \in Senders, mail \in Mails :
                   Caller(t, "send") /\ Offers(t, mail) /\ Put(t, mail)
StepTake      == \E t \in Receivers : Caller(t, "recv") /\ TakeMail(t)
StepFull      == \E t \in Senders : /\ Caller(t, "send") /\ Limit(t, "send", 0)
                                    /\ entry = Size /\ Fails(t, "EFULL")
StepEmpty     == \E t \in Receivers : /\ Caller(t, "recv") /\ Limit(t, "recv", 0)
                                      /\ entry = 0 /\ Fails(t, "ETIMEOUT")
StepSleepSend == \E t \in Senders, mail \in Mails, n \in Nat \cup {Forever} :
                   /\ Caller(t, "send") /\ Limit(t, "send", n) /\ Offers(t, mail)
                   /\ SleepSending(t, mail, n)
StepSleepRecv == \E t \in Receivers, n \in Nat \cup {Forever} :
                   /\ Caller(t, "recv") /\ Limit(t, "recv", n)
                   /\ SleepReceiving(t, n)
StepError     == \E t \in Threads : ReturnError(t)
StepExpire    == \E t \in Threads : Expire(t)

LEMMA TimeoutType == Timeouts \subseteq Nat \cup {Forever} /\ Forever \notin Nat
BY DelaysAssumption DEF Timeouts, Forever

LEMMA RemainingType ==
    ASSUME TypeOK, Clocks, NEW t \in Threads
    PROVE  Remaining(t) \in Nat \cup {Forever}
<1>0. asked[t] \in Timeouts
  BY DEF TypeOK
<1>1. asked[t] = 0 \/ asked[t] = Forever \/ asked[t] > 0
  <2>1. asked[t] = 0 \/ asked[t] = Forever \/ asked[t] \in Nat \ {0}
    BY <1>0, DelaysAssumption DEF Timeouts
  <2>2. asked[t] \in Nat \ {0} => asked[t] > 0
    OBVIOUS
  <2> QED BY <2>1, <2>2
<1>2. /\ timeout[t] \in Nat \cup {Forever} /\ elapsed[t] \in Nat
      /\ asked[t] \in Nat \cup {Forever}
  BY TimeoutType DEF TypeOK
<1>3. Clock(t)
  BY DEF Clocks
<1> QED BY <1>1, <1>2, <1>3 DEF Remaining, Clock, Forever

LEMMA Steps ==
    ASSUME IInv, Next
    PROVE  \/ StepPut \/ StepTake \/ StepFull \/ StepEmpty
           \/ StepSleepSend \/ StepSleepRecv \/ StepError \/ StepExpire
           \/ Tick \/ Reset
<1> USE DEF IInv
<1>1. CASE \E t \in Senders : Send(t)
  <2> PICK t \in Senders : Send(t) BY <1>1
  <2> PICK mail \in Mails, n \in Timeouts : TrySend(t, mail, n) BY DEF Send
  <2>1. Caller(t, "send") /\ call[t] # "send"
    BY DEF Send, Caller, Stats, Threads, Results
  <2>2. Limit(t, "send", n) /\ Offers(t, mail) BY <2>1 DEF Limit, Offers
  <2>3. n \in Nat \cup {Forever} BY TimeoutType
  <2> QED BY <2>1, <2>2, <2>3 DEF TrySend, StepPut, StepFull, StepSleepSend
<1>2. CASE \E t \in Receivers : Recv(t)
  <2> PICK t \in Receivers : Recv(t) BY <1>2
  <2> PICK n \in Timeouts : TryRecv(t, n) BY DEF Recv
  <2>1. Caller(t, "recv") /\ call[t] # "recv"
    BY DEF Recv, Caller, Stats, Threads, Results
  <2>2. Limit(t, "recv", n) BY <2>1 DEF Limit
  <2>3. n \in Nat \cup {Forever} BY TimeoutType
  <2> QED BY <2>1, <2>2, <2>3 DEF TryRecv, StepTake, StepEmpty, StepSleepRecv
<1>3. CASE \E t \in Threads : SendAgain(t)
  <2> PICK t \in Threads : SendAgain(t) BY <1>3
  <2>1. /\ Caller(t, "send") /\ Limit(t, "send", Remaining(t))
        /\ TrySend(t, value[t], Remaining(t))
        /\ t \in Senders /\ value[t] \in Mails /\ Offers(t, value[t])
    BY DEF SendAgain, Caller, Stats, Limit, Offers
  <2>2. Remaining(t) \in Nat \cup {Forever} BY RemainingType
  <2> QED BY <2>1, <2>2 DEF TrySend, StepPut, StepFull, StepSleepSend
<1>4. CASE \E t \in Threads : RecvAgain(t)
  <2> PICK t \in Threads : RecvAgain(t) BY <1>4
  <2>1. /\ Caller(t, "recv") /\ Limit(t, "recv", Remaining(t))
        /\ TryRecv(t, Remaining(t))
        /\ t \in Receivers
    BY DEF RecvAgain, Caller, Stats, Limit
  <2>2. Remaining(t) \in Nat \cup {Forever} BY RemainingType
  <2> QED BY <2>1, <2>2 DEF TryRecv, StepTake, StepEmpty, StepSleepRecv
<1> QED BY <1>1, <1>2, <1>3, <1>4 DEF Next, Woken, StepError, StepExpire

-----------------------------------------------------------------------------
(* The lists of threads.                                                   *)

\* new holds threads of list, and none of Off.
TakenFrom(new, list, Off) ==
    \A i \in 1..Len(new) :
      \E j \in 1..Len(list) : new[i] = list[j] /\ list[j] \notin Off

\* The sleeping threads of S that are not in Off sleep on.
SleepOn(S, Off) ==
    \A x \in S : stat[x] = "suspend" /\ x \notin Off =>
                  stat'[x] = "suspend" /\ call'[x] = call[x]

\* Removing the first thread.
LEMMA RestProperties ==
    ASSUME NEW S, NEW list \in Seq(S), Distinct(list)
    PROVE  /\ Rest(list) \in Seq(S)
           /\ Rest(list) # <<>> => list # <<>>
           /\ Distinct(Rest(list))
           /\ TakenFrom(Rest(list), list, Resumed(list))
<1>1. CASE list = <<>>
  <2>1. Rest(list) = list /\ Resumed(list) = {}
    BY <1>1 DEF Rest, Resumed, ResumesOne
  <2> QED BY <2>1, <1>1 DEF TakenFrom
<1>2. CASE list # <<>>
  <2>1. Rest(list) = Tail(list) /\ Resumed(list) = {list[1]}
    BY <1>2 DEF Rest, Resumed, ResumesOne
  <2>2. /\ Tail(list) \in Seq(S) /\ Len(Tail(list)) = Len(list) - 1
        /\ Len(list) \in Nat \ {0}
        /\ \A i \in 1..Len(Tail(list)) : Tail(list)[i] = list[i + 1]
    BY <1>2, HeadTailProperties, EmptySeq
  <2>3. ASSUME NEW i \in 1..Len(Tail(list))
        PROVE  i + 1 \in 1..Len(list) /\ list[i + 1] # list[1]
    <3>1. i + 1 \in 1..Len(list) /\ 1 \in 1..Len(list) /\ i + 1 # 1
      BY <2>2
    <3> QED BY <3>1 DEF Distinct
  <2>4. Distinct(Tail(list))
    <3> SUFFICES ASSUME NEW i \in 1..Len(Tail(list)), NEW j \in 1..Len(Tail(list)),
                        Tail(list)[i] = Tail(list)[j]
                 PROVE  i = j
      BY DEF Distinct
    <3>1. list[i + 1] = list[j + 1] /\ i + 1 \in 1..Len(list) /\ j + 1 \in 1..Len(list)
      BY <2>2, <2>3
    <3>2. i + 1 = j + 1
      BY <3>1 DEF Distinct
    <3> QED BY <3>2, <2>2
  <2>5. TakenFrom(Tail(list), list, {list[1]})
    BY <2>2, <2>3 DEF TakenFrom
  <2> QED BY <1>2, <2>1, <2>2, <2>4, <2>5
<1> QED BY <1>1, <1>2

\* Removing one thread from anywhere.
LEMMA UnlinkProperties ==
    ASSUME NEW S, NEW list \in Seq(S), Distinct(list), NEW t
    PROVE  /\ Unlink(list, t) \in Seq(S)
           /\ Unlink(list, t) # <<>> => list # <<>>
           /\ Distinct(Unlink(list, t))
           /\ TakenFrom(Unlink(list, t), list, {t})
<1>1. CASE ~ \E i \in 1..Len(list) : list[i] = t
  <2>1. Unlink(list, t) = list
    BY <1>1 DEF Unlink
  <2> QED BY <2>1, <1>1 DEF TakenFrom
<1>2. CASE \E i \in 1..Len(list) : list[i] = t
  <2> DEFINE p == CHOOSE i \in 1..Len(list) : list[i] = t
             new == [i \in 1..(Len(list) - 1) |-> IF i < p THEN list[i] ELSE list[i + 1]]
  <2>1. p \in 1..Len(list) /\ list[p] = t
    BY <1>2
  <2>2. Unlink(list, t) = new
    BY <1>2 DEF Unlink
  <2> HIDE DEF p
  <2>3. Len(list) \in Nat /\ Len(list) - 1 \in Nat
    BY <2>1
  <2>4. \A i \in 1..(Len(list) - 1) : list[i] \in S /\ list[i + 1] \in S
    BY <2>3, ElementOfSeq
  <2>5. new \in Seq(S) /\ Len(new) = Len(list) - 1
    <3>1. \A i \in 1..(Len(list) - 1) : new[i] \in S
      BY <2>4
    <3> QED BY <3>1, <2>3, IsASeq
  <2> DEFINE from(i) == IF i < p THEN i ELSE i + 1
  <2>6. ASSUME NEW i \in 1..(Len(list) - 1)
        PROVE  /\ from(i) \in 1..Len(list) /\ from(i) # p
               /\ new[i] = list[from(i)]
    BY <2>1, <2>3
  <2>7. ASSUME NEW i \in 1..(Len(list) - 1) PROVE list[from(i)] # t
    BY <2>1, <2>6 DEF Distinct
  <2>8. Distinct(new)
    <3> SUFFICES ASSUME NEW i \in 1..(Len(list) - 1), NEW j \in 1..(Len(list) - 1),
                        new[i] = new[j]
                 PROVE  i = j
      BY <2>5 DEF Distinct
    <3> HIDE DEF new
    <3>1. from(i) = from(j)
      BY <2>6 DEF Distinct
    <3> QED BY <3>1, <2>1, <2>3
  <2>9. list # <<>>
    BY <2>1
  <2> HIDE DEF new
  <2>10. TakenFrom(new, list, {t})
    BY <2>5, <2>6, <2>7 DEF TakenFrom
  <2> QED BY <2>2, <2>5, <2>8, <2>9, <2>10
<1> QED BY <1>1, <1>2

\* Adding one thread at the end.
LEMMA AppendDistinct ==
    ASSUME NEW S, NEW list \in Seq(S), Distinct(list), NEW t \in S,
           \A i \in 1..Len(list) : list[i] # t
    PROVE  /\ Append(list, t) \in Seq(S) /\ Distinct(Append(list, t))
           /\ \A i \in 1..Len(Append(list, t)) :
                 \/ Append(list, t)[i] = t
                 \/ i \in 1..Len(list) /\ Append(list, t)[i] = list[i]
<1>1. /\ Append(list, t) \in Seq(S) /\ Len(Append(list, t)) = Len(list) + 1
      /\ \A i \in 1..Len(list) : Append(list, t)[i] = list[i]
      /\ Append(list, t)[Len(list) + 1] = t
      /\ Len(list) \in Nat
  BY AppendProperties
<1>2. \A i \in 1..(Len(list) + 1) : i = Len(list) + 1 \/ i \in 1..Len(list)
  BY <1>1
<1>3. \A i \in 1..(Len(list) + 1) :
        \/ Append(list, t)[i] = t /\ i = Len(list) + 1
        \/ i \in 1..Len(list) /\ Append(list, t)[i] = list[i]
  BY <1>1, <1>2
<1>4. Distinct(Append(list, t))
  BY <1>1, <1>3 DEF Distinct
<1> QED BY <1>1, <1>3, <1>4

-----------------------------------------------------------------------------
(* Type correctness.                                                       *)

LEMMA OffsetType ==
    ASSUME NEW offset \in 0..(Size - 1)
    PROVE  /\ NextOffset(offset) \in 0..(Size - 1)
           /\ NextOffset(offset) = IF offset + 1 < Size THEN offset + 1 ELSE offset + 1 - Size
BY SizeAssumption DEF NextOffset

LEMMA ReturnsType ==
    ASSUME TypeOK, NEW t, NEW result \in Results, NEW mail \in Mails \cup {NoMail},
           Returns(t, result, mail)
    PROVE  /\ error' \in [Threads -> {"EOK", "ETIMEOUT", "ERROR"}]
           /\ call' \in [Threads -> Results \cup {"send", "recv"}]
           /\ value' \in [Threads -> Mails \cup {NoMail}]
           /\ timeout' \in [Threads -> Nat \cup {Forever}]
           /\ elapsed' \in [Threads -> Nat]
           /\ asked' \in [Threads -> Timeouts]
           /\ waited' \in [Threads -> Nat]
BY DEF TypeOK, Returns, Timeouts

LEMMA SleepsType ==
    ASSUME TypeOK, NEW t \in Threads, NEW op \in {"send", "recv"}, NEW mail \in Mails \cup {NoMail},
           NEW n \in Nat \cup {Forever}, Limit(t, op, n), Sleeps(t, op, mail, n)
    PROVE  /\ error' \in [Threads -> {"EOK", "ETIMEOUT", "ERROR"}]
           /\ call' \in [Threads -> Results \cup {"send", "recv"}]
           /\ value' \in [Threads -> Mails \cup {NoMail}]
           /\ stat' \in [Threads -> {"ready", "suspend"}]
           /\ timeout' \in [Threads -> Nat \cup {Forever}]
           /\ elapsed' \in [Threads -> Nat]
           /\ asked' \in [Threads -> Timeouts]
           /\ waited' \in [Threads -> Nat]
BY DEF TypeOK, Sleeps, Limit

LEMMA WakesType ==
    ASSUME TypeOK, NEW S, Wakes(S)
    PROVE  stat' \in [Threads -> {"ready", "suspend"}]
BY DEF TypeOK, Wakes

LEMMA TypeStep == ASSUME IInv, Next PROVE TypeOK'
<1> USE DEF IInv
<1> SUFFICES ASSUME \/ StepPut \/ StepTake \/ StepFull \/ StepEmpty
                    \/ StepSleepSend \/ StepSleepRecv \/ StepError \/ StepExpire
                    \/ Tick \/ Reset
             PROVE  TypeOK'
  BY Steps
<1>0. /\ suspend_thread \in Seq(Receivers) /\ Distinct(suspend_thread)
      /\ suspend_sender_thread \in Seq(Senders) /\ Distinct(suspend_sender_thread)
  BY DEF TypeOK, Lists, ListOf
<1>1. CASE StepPut
  <2> PICK t \in Senders, mail \in Mails : Put(t, mail) BY <1>1 DEF StepPut
  <2>1. Returns(t, "EOK", NoMail) /\ Wakes(Resumed(suspend_thread)) BY DEF Put
  <2>2. Rest(suspend_thread) \in Seq(Receivers) BY <1>0, RestProperties
  <2>3. in_offset' \in 0..(Size - 1) /\ entry' \in 0..Size
    BY OffsetType, SizeAssumption DEF Put, TypeOK
  <2> QED BY <2>1, <2>2, <2>3, ReturnsType, WakesType DEF TypeOK, Put, Results
<1>2. CASE StepTake
  <2> PICK t \in Receivers : TakeMail(t) BY <1>2 DEF StepTake
  <2>1. Returns(t, "EOK", msg_pool[out_offset]) /\ Wakes(Resumed(suspend_sender_thread))
    BY DEF TakeMail
  <2>2. Rest(suspend_sender_thread) \in Seq(Senders) BY <1>0, RestProperties
  <2>3. out_offset' \in 0..(Size - 1) /\ entry' \in 0..Size
    BY OffsetType, SizeAssumption DEF TakeMail, TypeOK
  <2>4. msg_pool[out_offset] \in Mails \cup {NoMail} BY DEF TypeOK
  <2> QED BY <2>1, <2>2, <2>3, <2>4, ReturnsType, WakesType DEF TypeOK, TakeMail, Results
<1>3. CASE StepFull
  <2> PICK t \in Senders : Fails(t, "EFULL") BY <1>3 DEF StepFull
  <2> QED BY ReturnsType DEF TypeOK, Fails, Results, ringVars, listVars
<1>4. CASE StepEmpty
  <2> PICK t \in Receivers : Fails(t, "ETIMEOUT") BY <1>4 DEF StepEmpty
  <2> QED BY ReturnsType DEF TypeOK, Fails, Results, ringVars, listVars
<1>5. CASE StepSleepSend
  <2> PICK t \in Senders, mail \in Mails, n \in Nat \cup {Forever} :
             Limit(t, "send", n) /\ SleepSending(t, mail, n)
    BY <1>5 DEF StepSleepSend
  <2>1. Append(suspend_sender_thread, t) \in Seq(Senders) BY <1>0, AppendProperties
  <2>2. t \in Threads /\ Sleeps(t, "send", mail, n) BY DEF Threads, SleepSending
  <2> QED BY <2>1, <2>2, SleepsType DEF TypeOK, SleepSending, Sleeps, ringVars
<1>6. CASE StepSleepRecv
  <2> PICK t \in Receivers, n \in Nat \cup {Forever} :
             Limit(t, "recv", n) /\ SleepReceiving(t, n)
    BY <1>6 DEF StepSleepRecv
  <2>1. Append(suspend_thread, t) \in Seq(Receivers) BY <1>0, AppendProperties
  <2>2. t \in Threads /\ Sleeps(t, "recv", NoMail, n) BY DEF Threads, SleepReceiving
  <2> QED BY <2>1, <2>2, SleepsType DEF TypeOK, SleepReceiving, Sleeps, ringVars
<1>7. CASE StepError
  <2> PICK t \in Threads : ReturnError(t) BY <1>7 DEF StepError
  <2>1. Fails(t, error[t]) /\ error[t] \in Results BY DEF ReturnError, TypeOK, Results
  <2> QED BY <2>1, ReturnsType DEF TypeOK, Fails, ringVars, listVars
<1>8. CASE StepExpire
  <2> PICK t \in Threads : Expire(t) BY <1>8 DEF StepExpire
  <2>1. /\ Unlink(suspend_thread, t) \in Seq(Receivers)
        /\ Unlink(suspend_sender_thread, t) \in Seq(Senders)
    BY <1>0, UnlinkProperties
  <2>2. stat' \in [Threads -> {"ready", "suspend"}] BY WakesType DEF Expire
  <2> QED BY <2>1, <2>2 DEF TypeOK, Expire, ringVars, timeVars
<1>9. CASE Tick
  <2>1. elapsed' \in [Threads -> Nat]
    BY <1>9 DEF TypeOK, Tick
  <2>2. waited' \in [Threads -> Nat]
    BY <1>9 DEF TypeOK, Tick
  <2> QED BY <1>9, <2>1, <2>2 DEF TypeOK, Tick, ringVars, listVars
<1>10. CASE Reset
  <2>1. stat' \in [Threads -> {"ready", "suspend"}] BY <1>10, WakesType DEF Reset
  <2>2. error' \in [Threads -> {"EOK", "ETIMEOUT", "ERROR"}] BY <1>10 DEF TypeOK, Reset
  <2>3. /\ in_offset' \in 0..(Size - 1) /\ out_offset' \in 0..(Size - 1) /\ entry' \in 0..Size
        /\ suspend_thread' \in Seq(Receivers) /\ suspend_sender_thread' \in Seq(Senders)
    BY <1>10, SizeAssumption DEF Reset
  <2> QED BY <1>10, <2>1, <2>2, <2>3 DEF TypeOK, Reset, timeVars
<1> QED BY <1>1, <1>2, <1>3, <1>4, <1>5, <1>6, <1>7, <1>8, <1>9, <1>10

-----------------------------------------------------------------------------
(* The ring.                                                               *)

LEMMA RingStep == ASSUME IInv, Next PROVE Ring'
<1> USE DEF IInv
<1>0. /\ in_offset \in 0..(Size - 1) /\ out_offset \in 0..(Size - 1)
      /\ entry \in 0..Size /\ Size \in Nat \ {0} /\ Ring
  BY SizeAssumption DEF TypeOK
<1>1. CASE StepPut
  <2> PICK t \in Senders, mail \in Mails : Put(t, mail) BY <1>1 DEF StepPut
  <2>1. /\ in_offset' = IF in_offset + 1 < Size THEN in_offset + 1 ELSE in_offset + 1 - Size
        /\ entry' = entry + 1 /\ out_offset' = out_offset /\ entry < Size
    BY <1>0, OffsetType DEF Put
  <2> QED BY <1>0, <2>1 DEF Ring
<1>2. CASE StepTake
  <2> PICK t \in Receivers : TakeMail(t) BY <1>2 DEF StepTake
  <2>1. /\ out_offset' = IF out_offset + 1 < Size THEN out_offset + 1 ELSE out_offset + 1 - Size
        /\ entry' = entry - 1 /\ in_offset' = in_offset /\ entry > 0
    BY <1>0, OffsetType DEF TakeMail
  <2> QED BY <1>0, <2>1 DEF Ring
<1>3. CASE UNCHANGED ringVars
  BY <1>0, <1>3 DEF Ring, ringVars
<1>4. CASE Reset
  BY <1>4, <1>0 DEF Reset, Ring
<1> QED
  BY Steps, <1>1, <1>2, <1>3, <1>4
     DEF StepFull, StepEmpty, StepSleepSend, StepSleepRecv, StepError, StepExpire, Fails,
         SleepSending, SleepReceiving, Sleeps, ReturnError, Expire, Tick

-----------------------------------------------------------------------------
(* The clocks.                                                             *)

LEMMA SleepsClock ==
    ASSUME TypeOK, NEW t \in Threads, Clock(t), NEW op \in {"send", "recv"}, NEW mail,
           NEW n \in Nat \cup {Forever}, n # 0,
           Caller(t, op), Limit(t, op, n), Sleeps(t, op, mail, n)
    PROVE  Clock(t)'
<1>1. /\ asked[t] \in Nat \cup {Forever} /\ timeout[t] \in Nat \cup {Forever}
      /\ elapsed[t] \in Nat /\ waited[t] \in Nat
  BY TimeoutType DEF TypeOK
<1>2. /\ call'[t] = op /\ op \notin Results /\ error'[t] = "EOK"
      /\ timeout'[t] = n /\ elapsed'[t] = 0 /\ waited'[t] = waited[t]
      /\ asked'[t] = IF call[t] = op THEN asked[t] ELSE n
  BY DEF TypeOK, Sleeps, Results
<1>3. CASE call[t] = op
  <2>1. n = IF timeout[t] > 0 THEN timeout[t] - elapsed[t] ELSE timeout[t]
    BY <1>3 DEF Limit, Remaining
  <2>2. asked'[t] = asked[t]
    BY <1>2, <1>3
  <2>3. CASE asked[t] > 0
    <3>1. n = timeout[t] - elapsed[t] /\ timeout[t] > 0 /\ timeout[t] <= asked[t]
      BY <2>1, <2>3 DEF Clock
    <3>2. n > 0
      BY <1>1, <3>1, <2>3, TimeoutType DEF Clock, Forever
    <3>3. waited[t] = asked[t] - timeout[t] + elapsed[t] /\ elapsed[t] <= timeout[t]
      BY <2>3 DEF Clock
    <3>4. asked[t] \in Nat /\ timeout[t] \in Nat /\ n \in Nat
      BY <1>1, <2>3, <3>1, <3>2 DEF Forever
    <3>5. waited[t] = asked[t] - n + 0 /\ n <= asked[t]
      BY <1>1, <3>1, <3>3, <3>4
    <3> QED BY <1>2, <2>2, <2>3, <3>2, <3>4, <3>5 DEF Clock, Forever
  <2>4. CASE asked[t] = Forever
    <3>1. n = Forever /\ waited[t] = 0
      BY <2>1, <2>4 DEF Clock, Forever
    <3> QED BY <1>2, <2>2, <2>4, <3>1 DEF Clock, Forever
  <2>5. CASE asked[t] = 0
    BY <2>1, <2>5 DEF Clock
  <2> QED BY <1>1, <2>3, <2>4, <2>5
<1>4. CASE call[t] # op
  <2>1. call[t] \in Results
    BY <1>4 DEF Caller
  <2>2. waited[t] = 0 /\ asked'[t] = n
    BY <1>2, <1>4, <2>1 DEF Clock
  <2>3. n = Forever \/ n > 0
    OBVIOUS
  <2> QED BY <1>2, <2>2, <2>3 DEF Clock, Forever
<1> QED BY <1>3, <1>4

\* A thread whose call is not touched keeps its clock.
LEMMA SameClock ==
    ASSUME NEW x, Clock(x), call'[x] = call[x], error'[x] = error[x],
           timeout'[x] = timeout[x], elapsed'[x] = elapsed[x],
           asked'[x] = asked[x], waited'[x] = waited[x]
    PROVE  Clock(x)'
BY DEF Clock

LEMMA ReturnsClock ==
    ASSUME TypeOK, Clocks, NEW t \in Threads, NEW result, NEW mail, Returns(t, result, mail)
    PROVE  Clocks'
<1> SUFFICES ASSUME NEW x \in Threads PROVE Clock(x)'
  BY DEF Clocks
<1>1. CASE x = t
  <2>1. /\ timeout'[x] = 0 /\ elapsed'[x] = 0 /\ asked'[x] = 0 /\ waited'[x] = 0
    BY <1>1 DEF TypeOK, Returns
  <2> QED BY <2>1 DEF Clock, Forever
<1>2. CASE x # t
  BY <1>2, SameClock DEF TypeOK, Returns, Clocks
<1> QED BY <1>1, <1>2

LEMMA ClockStep == ASSUME IInv, Next PROVE Clocks'
<1> USE DEF IInv
<1>1. CASE StepPut \/ StepTake
  BY <1>1, ReturnsClock DEF StepPut, StepTake, Put, TakeMail, Threads
<1>2. CASE StepFull \/ StepEmpty \/ StepError
  BY <1>2, ReturnsClock DEF StepFull, StepEmpty, StepError, ReturnError, Fails, Threads
<1>3. CASE StepSleepSend \/ StepSleepRecv
  <2> PICK t \in Threads, op \in {"send", "recv"}, mail \in Mails \cup {NoMail},
           n \in Nat \cup {Forever} :
             Caller(t, op) /\ Limit(t, op, n) /\ Sleeps(t, op, mail, n) /\ n # 0
    BY <1>3 DEF StepSleepSend, StepSleepRecv, SleepSending, SleepReceiving, Threads
  <2> SUFFICES ASSUME NEW x \in Threads PROVE Clock(x)'
    BY DEF Clocks
  <2>1. CASE x = t
    BY <2>1, SleepsClock DEF Clocks
  <2>2. CASE x # t
    BY <2>2, SameClock DEF TypeOK, Sleeps, Clocks
  <2> QED BY <2>1, <2>2
<1>4. CASE StepExpire
  <2> PICK t \in Threads : Expire(t) BY <1>4 DEF StepExpire
  <2> SUFFICES ASSUME NEW x \in Threads PROVE Clock(x)'
    BY DEF Clocks
  <2>1. CASE x = t
    <3>1. elapsed[t] = timeout[t]
      BY DEF Expire, Due
    <3> QED BY <2>1, <3>1 DEF Expire, timeVars, Clocks, Clock
  <2>2. CASE x # t
    BY <2>2, SameClock DEF TypeOK, Expire, timeVars, Clocks
  <2> QED BY <2>1, <2>2
<1>5. CASE Tick
  <2> SUFFICES ASSUME NEW x \in Threads PROVE Clock(x)'
    BY DEF Clocks
  <2>1. /\ elapsed'[x] = IF elapsed[x] < timeout[x] THEN elapsed[x] + 1 ELSE elapsed[x]
        /\ waited'[x] = IF waited[x] < asked[x] THEN waited[x] + 1 ELSE waited[x]
        /\ call' = call /\ error' = error /\ timeout' = timeout /\ asked' = asked
    BY <1>5 DEF Tick
  <2>2. /\ asked[x] \in Nat \cup {Forever} /\ timeout[x] \in Nat \cup {Forever}
        /\ elapsed[x] \in Nat /\ waited[x] \in Nat
    BY TimeoutType DEF TypeOK
  <2>3. Clock(x)
    BY DEF Clocks
  <2>4. CASE asked[x] > 0
    <3>1. asked[x] \in Nat /\ timeout[x] \in Nat
      BY <2>2, <2>3, <2>4 DEF Clock, Forever
    <3>2. /\ call[x] \notin Results /\ timeout[x] > 0 /\ timeout[x] <= asked[x]
          /\ elapsed[x] <= timeout[x] /\ waited[x] = asked[x] - timeout[x] + elapsed[x]
      BY <2>3, <2>4 DEF Clock
    <3>3. error[x] = "ETIMEOUT" => elapsed[x] = timeout[x]
      BY <2>3, <2>4 DEF Clock
    <3>4. /\ elapsed'[x] <= timeout[x]
          /\ waited'[x] = asked[x] - timeout[x] + elapsed'[x]
          /\ elapsed[x] = timeout[x] => elapsed'[x] = timeout[x]
      BY <2>1, <2>2, <3>1, <3>2
    <3> QED BY <2>1, <2>4, <3>1, <3>2, <3>3, <3>4 DEF Clock, Forever
  <2>5. CASE asked[x] = 0
    <3>1. elapsed'[x] = 0 /\ waited'[x] = 0 /\ timeout[x] = 0
      BY <2>1, <2>3, <2>5 DEF Clock
    <3> QED BY <2>1, <2>5, <3>1 DEF Clock, Forever
  <2>6. CASE asked[x] = Forever
    <3>1. elapsed'[x] = 0 /\ waited'[x] = 0 /\ timeout[x] = Forever
      BY <2>1, <2>3, <2>6 DEF Clock, Forever
    <3>2. call[x] \notin Results
      BY <2>3, <2>6 DEF Clock, Forever
    <3> QED BY <2>1, <2>6, <3>1, <3>2 DEF Clock, Forever
  <2> QED BY <2>2, <2>4, <2>5, <2>6
<1>6. CASE Reset
  <2> SUFFICES ASSUME NEW x \in Threads PROVE Clock(x)'
    BY DEF Clocks
  <2>1. error'[x] = "ERROR" \/ error'[x] = error[x]
    BY <1>6 DEF Reset
  <2>2. UNCHANGED <<call, timeout, elapsed, asked, waited>>
    BY <1>6 DEF Reset, timeVars
  <2> QED BY <2>1, <2>2 DEF Clock, Clocks
<1> QED BY Steps, <1>1, <1>2, <1>3, <1>4, <1>5, <1>6

-----------------------------------------------------------------------------
(* Who sleeps, and in which list.                                          *)

\* What a step by t does to the threads' states when t returns.
LEMMA ReturnsStats ==
    ASSUME TypeOK, Stats, NEW t \in Threads, stat[t] = "ready",
           NEW result \in Results, NEW mail, Returns(t, result, mail),
           NEW S, Wakes(S)
    PROVE  Stats'
<1> SUFFICES ASSUME NEW x \in Threads
             PROVE  /\ call'[x] \in Results => stat'[x] = "ready" /\ error'[x] = "EOK"
                    /\ stat'[x] = "suspend" => error'[x] = "EOK"
                    /\ call'[x] = "send" => value'[x] \in Mails /\ x \in Senders
                    /\ call'[x] = "recv" => x \in Receivers /\ value'[x] = NoMail
  BY DEF Stats
<1>1. stat'[x] = IF x \in S THEN "ready" ELSE stat[x]
  BY DEF Wakes
<1>2. CASE x = t
  <2>1. call'[x] = result /\ error'[x] = "EOK" /\ stat'[x] = "ready"
    BY <1>1, <1>2 DEF TypeOK, Returns
  <2> QED BY <2>1 DEF Results
<1>3. CASE x # t
  <2>1. call'[x] = call[x] /\ error'[x] = error[x] /\ value'[x] = value[x]
    BY <1>3 DEF TypeOK, Returns
  <2> QED BY <1>1, <2>1 DEF Stats
<1> QED BY <1>2, <1>3

LEMMA StatStep == ASSUME IInv, Next PROVE Stats'
<1> USE DEF IInv
<1>1. CASE StepPut
  BY <1>1, ReturnsStats DEF StepPut, Put, Caller, Threads, Results
<1>2. CASE StepTake
  BY <1>2, ReturnsStats DEF StepTake, TakeMail, Caller, Threads, Results
<1>3. CASE StepFull \/ StepEmpty \/ StepError
  <2>1. PICK t \in Threads, result \in Results : stat[t] = "ready" /\ Fails(t, result)
    BY <1>3 DEF StepFull, StepEmpty, StepError, ReturnError, Caller, Threads, Results, TypeOK
  <2>2. Wakes({})
    BY <2>1 DEF Fails, Wakes, TypeOK
  <2> QED BY <2>1, <2>2, ReturnsStats DEF Fails
<1>4. CASE StepSleepSend \/ StepSleepRecv
  <2>1. PICK t \in Threads, op \in {"send", "recv"}, mail \in Mails \cup {NoMail},
             n \in Nat \cup {Forever} :
               /\ Sleeps(t, op, mail, n)
               /\ op = "send" => mail \in Mails /\ t \in Senders
               /\ op = "recv" => t \in Receivers /\ mail = NoMail
    BY <1>4 DEF StepSleepSend, StepSleepRecv, SleepSending, SleepReceiving, Threads
  <2> SUFFICES ASSUME NEW x \in Threads
               PROVE  /\ call'[x] \in Results => stat'[x] = "ready" /\ error'[x] = "EOK"
                      /\ stat'[x] = "suspend" => error'[x] = "EOK"
                      /\ call'[x] = "send" => value'[x] \in Mails /\ x \in Senders
                      /\ call'[x] = "recv" => x \in Receivers /\ value'[x] = NoMail
    BY DEF Stats
  <2>2. CASE x = t
    <3>1. call'[x] = op /\ error'[x] = "EOK" /\ value'[x] = mail
      BY <2>1, <2>2 DEF TypeOK, Sleeps
    <3> QED BY <2>1, <2>2, <3>1 DEF Results
  <2>3. CASE x # t
    <3>1. /\ call'[x] = call[x] /\ error'[x] = error[x] /\ value'[x] = value[x]
          /\ stat'[x] = stat[x]
      BY <2>1, <2>3 DEF TypeOK, Sleeps
    <3> QED BY <3>1 DEF Stats
  <2> QED BY <2>2, <2>3
<1>5. CASE StepExpire
  <2> PICK t \in Threads : Expire(t) BY <1>5 DEF StepExpire
  <2>1. stat[t] = "suspend" /\ call[t] \notin Results
    BY DEF Expire, Due, Stats
  <2>2. \A x \in Threads : /\ stat'[x] = IF x = t THEN "ready" ELSE stat[x]
                           /\ error'[x] = IF x = t THEN "ETIMEOUT" ELSE error[x]
    BY DEF Expire, Wakes, TypeOK
  <2> QED BY <2>1, <2>2 DEF Stats, Expire
<1>6. CASE Tick
  BY <1>6 DEF Tick, Stats
<1>7. CASE Reset
  <2>1. \A x \in Threads : /\ stat'[x] = "ready"
                           /\ error'[x] = IF stat[x] = "suspend" THEN "ERROR" ELSE error[x]
    BY <1>7 DEF Reset, Wakes, Asleep, TypeOK
  <2> QED BY <1>7, <2>1 DEF Stats, Reset
<1> QED BY Steps, <1>1, <1>2, <1>3, <1>4, <1>5, <1>6, <1>7

\* A list of which the threads in Off were taken, while the others slept on.
LEMMA SubList ==
    ASSUME NEW S, NEW list \in Seq(S), NEW new \in Seq(S), NEW op, NEW Off,
           ListOf(list, op), Distinct(new), TakenFrom(new, list, Off), SleepOn(S, Off)
    PROVE  /\ \A i \in 1..Len(new) : stat'[new[i]] = "suspend" /\ call'[new[i]] = op
           /\ Distinct(new)
<1> SUFFICES ASSUME NEW i \in 1..Len(new)
             PROVE  stat'[new[i]] = "suspend" /\ call'[new[i]] = op
  OBVIOUS
<1>1. PICK j \in 1..Len(list) : new[i] = list[j] /\ list[j] \notin Off
  BY DEF TakenFrom
<1>2. stat[list[j]] = "suspend" /\ call[list[j]] = op /\ list[j] \in S
  BY ElementOfSeq DEF ListOf
<1> QED BY <1>1, <1>2 DEF SleepOn

LEMMA ListStep == ASSUME IInv, Next PROVE Lists'
<1> USE DEF IInv
<1>a. /\ suspend_thread \in Seq(Receivers) /\ ListOf(suspend_thread, "recv")
      /\ Distinct(suspend_thread)
      /\ \A i \in 1..Len(suspend_thread) :
           suspend_thread[i] \in Threads /\ stat[suspend_thread[i]] = "suspend"
  BY ElementOfSeq DEF TypeOK, Lists, ListOf, Threads
<1>b. /\ suspend_sender_thread \in Seq(Senders) /\ ListOf(suspend_sender_thread, "send")
      /\ Distinct(suspend_sender_thread)
      /\ \A i \in 1..Len(suspend_sender_thread) :
           suspend_sender_thread[i] \in Threads /\ stat[suspend_sender_thread[i]] = "suspend"
  BY ElementOfSeq DEF TypeOK, Lists, ListOf, Threads
<1>c. Receivers \subseteq Threads /\ Senders \subseteq Threads
  BY DEF Threads
<1> SUFFICES /\ \A i \in 1..Len(suspend_thread') :
                   stat'[suspend_thread'[i]] = "suspend" /\ call'[suspend_thread'[i]] = "recv"
             /\ Distinct(suspend_thread')
             /\ \A i \in 1..Len(suspend_sender_thread') :
                   /\ stat'[suspend_sender_thread'[i]] = "suspend"
                   /\ call'[suspend_sender_thread'[i]] = "send"
             /\ Distinct(suspend_sender_thread')
  BY DEF Lists, ListOf, Distinct
<1>1. CASE StepPut
  <2> PICK t \in Threads, mail \in Mails : stat[t] = "ready" /\ Put(t, mail)
    BY <1>1 DEF StepPut, Caller, Threads
  <2>1. /\ \A x \in Threads : stat'[x] = IF x \in Resumed(suspend_thread) THEN "ready" ELSE stat[x]
        /\ \A x \in Threads : x # t => call'[x] = call[x]
        /\ suspend_thread' = Rest(suspend_thread)
        /\ suspend_sender_thread' = suspend_sender_thread
    BY DEF Put, Wakes, Returns, TypeOK
  <2>2. /\ Rest(suspend_thread) \in Seq(Receivers) /\ Distinct(Rest(suspend_thread))
        /\ TakenFrom(Rest(suspend_thread), suspend_thread, Resumed(suspend_thread))
    BY <1>a, <1>b, RestProperties
  <2>3. \A x \in Resumed(suspend_thread) : call[x] = "recv"
    <3>1. suspend_thread # <<>> => 1 \in 1..Len(suspend_thread) /\ Head(suspend_thread) = suspend_thread[1]
      BY <1>a, <1>b, EmptySeq, LenProperties
    <3> QED BY <1>a, <1>b, <3>1 DEF Resumed, ResumesOne, ListOf
  <2>4. \A i \in 1..Len(suspend_sender_thread) :
          /\ suspend_sender_thread[i] \notin Resumed(suspend_thread)
          /\ suspend_sender_thread[i] # t
    BY <1>a, <1>b, <2>3 DEF ListOf
  <2>61. SleepOn(Receivers, Resumed(suspend_thread))
    BY <1>c, <2>1 DEF SleepOn
  <2>6. /\ \A i \in 1..Len(Rest(suspend_thread)) :
             stat'[Rest(suspend_thread)[i]] = "suspend" /\ call'[Rest(suspend_thread)[i]] = "recv"
        /\ Distinct(Rest(suspend_thread))
    BY <1>a, <2>2, <2>61, SubList
  <2>7. \A i \in 1..Len(suspend_sender_thread) :
          /\ stat'[suspend_sender_thread[i]] = "suspend"
          /\ call'[suspend_sender_thread[i]] = "send"
    BY <1>a, <1>b, <2>1, <2>4 DEF ListOf
  <2> QED BY <1>a, <1>b, <2>1, <2>6, <2>7
<1>2. CASE StepTake
  <2> PICK t \in Threads : stat[t] = "ready" /\ TakeMail(t)
    BY <1>2 DEF StepTake, Caller, Threads
  <2>1. /\ \A x \in Threads : stat'[x] = IF x \in Resumed(suspend_sender_thread) THEN "ready" ELSE stat[x]
        /\ \A x \in Threads : x # t => call'[x] = call[x]
        /\ suspend_sender_thread' = Rest(suspend_sender_thread)
        /\ suspend_thread' = suspend_thread
    BY DEF TakeMail, Wakes, Returns, TypeOK
  <2>2. /\ Rest(suspend_sender_thread) \in Seq(Senders) /\ Distinct(Rest(suspend_sender_thread))
        /\ TakenFrom(Rest(suspend_sender_thread), suspend_sender_thread, Resumed(suspend_sender_thread))
    BY <1>a, <1>b, RestProperties
  <2>3. \A x \in Resumed(suspend_sender_thread) : call[x] = "send"
    <3>1. suspend_sender_thread # <<>> =>
            /\ 1 \in 1..Len(suspend_sender_thread)
            /\ Head(suspend_sender_thread) = suspend_sender_thread[1]
      BY <1>a, <1>b, EmptySeq, LenProperties
    <3> QED BY <1>a, <1>b, <3>1 DEF Resumed, ResumesOne, ListOf
  <2>4. \A i \in 1..Len(suspend_thread) :
          /\ suspend_thread[i] \notin Resumed(suspend_sender_thread)
          /\ suspend_thread[i] # t
    BY <1>a, <1>b, <2>3 DEF ListOf
  <2>61. SleepOn(Senders, Resumed(suspend_sender_thread))
    BY <1>c, <2>1 DEF SleepOn
  <2>6. /\ \A i \in 1..Len(Rest(suspend_sender_thread)) :
             stat'[Rest(suspend_sender_thread)[i]] = "suspend" /\ call'[Rest(suspend_sender_thread)[i]] = "send"
        /\ Distinct(Rest(suspend_sender_thread))
    BY <1>b, <2>2, <2>61, SubList
  <2>7. \A i \in 1..Len(suspend_thread) :
          stat'[suspend_thread[i]] = "suspend" /\ call'[suspend_thread[i]] = "recv"
    BY <1>a, <1>b, <2>1, <2>4 DEF ListOf
  <2> QED BY <1>a, <1>b, <2>1, <2>6, <2>7
<1>3. CASE StepFull \/ StepEmpty \/ StepError
  <2> PICK t \in Threads, result \in Results : stat[t] = "ready" /\ Fails(t, result)
    BY <1>3 DEF StepFull, StepEmpty, StepError, ReturnError, Caller, Threads, Results, TypeOK
  <2>1. /\ \A x \in Threads : x # t => call'[x] = call[x]
        /\ stat' = stat /\ suspend_thread' = suspend_thread
        /\ suspend_sender_thread' = suspend_sender_thread
    BY DEF Fails, Returns, TypeOK, listVars
  <2> QED BY <1>a, <1>b, <2>1 DEF ListOf
<1>4. CASE StepSleepSend
  <2> PICK t \in Senders, mail \in Mails, n \in Nat \cup {Forever} : stat[t] = "ready" /\ SleepSending(t, mail, n)
    BY <1>4 DEF StepSleepSend, Caller
  <2>1. /\ \A x \in Threads : x # t => stat'[x] = stat[x] /\ call'[x] = call[x]
        /\ stat'[t] = "suspend" /\ call'[t] = "send"
        /\ suspend_sender_thread' = Append(suspend_sender_thread, t)
        /\ suspend_thread' = suspend_thread
    BY DEF SleepSending, Sleeps, TypeOK, Threads
  <2>2. /\ \A i \in 1..Len(suspend_thread) : suspend_thread[i] # t
        /\ \A i \in 1..Len(suspend_sender_thread) : suspend_sender_thread[i] # t
    BY <1>a, <1>b
  <2>3. /\ Distinct(Append(suspend_sender_thread, t))
        /\ \A i \in 1..Len(Append(suspend_sender_thread, t)) :
             \/ Append(suspend_sender_thread, t)[i] = t
             \/ /\ i \in 1..Len(suspend_sender_thread)
                /\ Append(suspend_sender_thread, t)[i] = suspend_sender_thread[i]
    BY <1>a, <1>b, <2>2, AppendDistinct
  <2>4. \A i \in 1..Len(Append(suspend_sender_thread, t)) :
          /\ stat'[Append(suspend_sender_thread, t)[i]] = "suspend"
          /\ call'[Append(suspend_sender_thread, t)[i]] = "send"
    BY <1>a, <1>b, <2>1, <2>2, <2>3 DEF ListOf
  <2>5. \A i \in 1..Len(suspend_thread) :
          stat'[suspend_thread[i]] = "suspend" /\ call'[suspend_thread[i]] = "recv"
    BY <1>a, <1>b, <2>1, <2>2 DEF ListOf
  <2> QED BY <1>a, <1>b, <2>1, <2>3, <2>4, <2>5
<1>5. CASE StepSleepRecv
  <2> PICK t \in Receivers, n \in Nat \cup {Forever} : stat[t] = "ready" /\ SleepReceiving(t, n)
    BY <1>5 DEF StepSleepRecv, Caller
  <2>1. /\ \A x \in Threads : x # t => stat'[x] = stat[x] /\ call'[x] = call[x]
        /\ stat'[t] = "suspend" /\ call'[t] = "recv"
        /\ suspend_thread' = Append(suspend_thread, t)
        /\ suspend_sender_thread' = suspend_sender_thread
    BY DEF SleepReceiving, Sleeps, TypeOK, Threads
  <2>2. /\ \A i \in 1..Len(suspend_thread) : suspend_thread[i] # t
        /\ \A i \in 1..Len(suspend_sender_thread) : suspend_sender_thread[i] # t
    BY <1>a, <1>b
  <2>3. /\ Distinct(Append(suspend_thread, t))
        /\ \A i \in 1..Len(Append(suspend_thread, t)) :
             \/ Append(suspend_thread, t)[i] = t
             \/ i \in 1..Len(suspend_thread) /\ Append(suspend_thread, t)[i] = suspend_thread[i]
    BY <1>a, <1>b, <2>2, AppendDistinct
  <2> QED BY <1>a, <1>b, <2>1, <2>2, <2>3 DEF ListOf
<1>6. CASE StepExpire
  <2> PICK t \in Threads : Expire(t) BY <1>6 DEF StepExpire
  <2>1. /\ \A x \in Threads : x # t => stat'[x] = stat[x]
        /\ call' = call
        /\ suspend_thread' = Unlink(suspend_thread, t)
        /\ suspend_sender_thread' = Unlink(suspend_sender_thread, t)
    BY DEF Expire, Wakes
  <2>2. /\ Unlink(suspend_thread, t) \in Seq(Receivers) /\ Distinct(Unlink(suspend_thread, t))
        /\ TakenFrom(Unlink(suspend_thread, t), suspend_thread, {t})
    BY <1>a, <1>b, UnlinkProperties
  <2>3. /\ Unlink(suspend_sender_thread, t) \in Seq(Senders)
        /\ Distinct(Unlink(suspend_sender_thread, t))
        /\ TakenFrom(Unlink(suspend_sender_thread, t), suspend_sender_thread, {t})
    BY <1>a, <1>b, UnlinkProperties
  <2>61. SleepOn(Receivers, {t})
    BY <1>c, <2>1 DEF SleepOn
  <2>6. /\ \A i \in 1..Len(Unlink(suspend_thread, t)) :
             stat'[Unlink(suspend_thread, t)[i]] = "suspend" /\ call'[Unlink(suspend_thread, t)[i]] = "recv"
        /\ Distinct(Unlink(suspend_thread, t))
    BY <1>a, <2>2, <2>61, SubList
  <2>71. SleepOn(Senders, {t})
    BY <1>c, <2>1 DEF SleepOn
  <2>7. /\ \A i \in 1..Len(Unlink(suspend_sender_thread, t)) :
             stat'[Unlink(suspend_sender_thread, t)[i]] = "suspend" /\ call'[Unlink(suspend_sender_thread, t)[i]] = "send"
        /\ Distinct(Unlink(suspend_sender_thread, t))
    BY <1>b, <2>3, <2>71, SubList
  <2> QED BY <2>1, <2>6, <2>7
<1>7. CASE Tick
  BY <1>a, <1>b, <1>7 DEF Tick, listVars, ListOf
<1>8. CASE Reset
  BY <1>8 DEF Reset, Distinct
<1> QED BY Steps, <1>1, <1>2, <1>3, <1>4, <1>5, <1>6, <1>7, <1>8

-----------------------------------------------------------------------------
(* No wake-up is lost.                                                     *)

\* Counting threads: a set that grew, lost nobody, or lost one.
LEMMA CountThreads ==
    ASSUME NEW A \in SUBSET Threads, NEW B \in SUBSET Threads, NEW x
    PROVE  /\ Cardinality(A) \in Nat /\ Cardinality(B) \in Nat
           /\ A \subseteq B => Cardinality(A) <= Cardinality(B)
           /\ A \cup {x} \subseteq B /\ x \notin A => Cardinality(A) + 1 <= Cardinality(B)
           /\ A \ {x} \subseteq B => Cardinality(A) - 1 <= Cardinality(B)
<1>1. IsFiniteSet(Threads)
  BY ThreadsAssumption, FS_Union DEF Threads
<1>2. IsFiniteSet(A) /\ IsFiniteSet(B)
  BY <1>1, FS_Subset
<1>3. Cardinality(A) \in Nat /\ Cardinality(B) \in Nat
  BY <1>2, FS_CardinalityType
<1>4. ASSUME A \subseteq B PROVE Cardinality(A) <= Cardinality(B)
  BY <1>2, <1>4, FS_Subset
<1>5. ASSUME A \cup {x} \subseteq B, x \notin A PROVE Cardinality(A) + 1 <= Cardinality(B)
  <2>1. IsFiniteSet(B \ {x}) /\ Cardinality(B \ {x}) = Cardinality(B) - 1
    BY <1>2, <1>5, FS_RemoveElement
  <2>2. A \in SUBSET (B \ {x})
    BY <1>5
  <2>3. Cardinality(A) <= Cardinality(B \ {x})
    BY <2>1, <2>2, FS_Subset
  <2> QED BY <1>3, <2>1, <2>3
<1>6. ASSUME A \ {x} \subseteq B PROVE Cardinality(A) - 1 <= Cardinality(B)
  <2>1. /\ IsFiniteSet(A \ {x})
        /\ Cardinality(A \ {x}) = IF x \in A THEN Cardinality(A) - 1 ELSE Cardinality(A)
    BY <1>2, FS_RemoveElement
  <2>2. Cardinality(A \ {x}) <= Cardinality(B)
    BY <1>2, <1>6, FS_Subset
  <2> QED BY <1>3, <2>1, <2>2
<1> QED BY <1>3, <1>4, <1>5, <1>6

\* The head of a list of sleepers is not among the resumed threads, and a
\* step that resumes it adds it to them.
LEMMA ResumeOne ==
    ASSUME NEW S, S \subseteq Threads, NEW list \in Seq(S), NEW op, list # <<>>,
           ListOf(list, op), Stats, NEW t, stat[t] = "ready",
           \A x \in Threads : /\ stat'[x] = IF x \in Resumed(list) THEN "ready" ELSE stat[x]
                              /\ x # t => call'[x] = call[x] /\ error'[x] = error[x]
    PROVE  /\ Head(list) \notin ToRetry(op)
           /\ Head(list) \in ToRetry(op)'
<1>1. Head(list) \in Threads /\ stat[Head(list)] = "suspend" /\ call[Head(list)] = op
  <2>1. 1 \in 1..Len(list) /\ Head(list) = list[1]
    BY EmptySeq, LenProperties
  <2> QED BY <2>1, ElementOfSeq DEF ListOf
<1>2. error[Head(list)] = "EOK"
  BY <1>1 DEF Stats
<1>3. Head(list) \in Resumed(list)
  BY DEF Resumed, ResumesOne
<1>4. /\ call'[Head(list)] = op /\ error'[Head(list)] = "EOK"
      /\ stat'[Head(list)] = "ready"
  BY <1>1, <1>2, <1>3
<1> QED BY <1>1, <1>4 DEF ToRetry

MailsAwaited == suspend_thread # <<>> => entry <= Cardinality(ToRetry("recv"))
SlotsAwaited == suspend_sender_thread # <<>> => Size - entry <= Cardinality(ToRetry("send"))

\* What every thread but t keeps.
Others(t) == \A x \in Threads : x # t => /\ call'[x] = call[x] /\ error'[x] = error[x]
                                         /\ stat'[x] = stat[x]

LEMMA OthersKeep ==
    ASSUME TypeOK, NEW t, NEW op, NEW mail, NEW n, NEW result,
           Sleeps(t, op, mail, n) \/ Fails(t, result)
    PROVE  Others(t) /\ entry' = entry
BY DEF TypeOK, Sleeps, Fails, Returns, Others, ringVars

\* A thread that fails or goes to sleep in one operation, or that ends a
\* wait, is not one that retries the other.
LEMMA SameRetries ==
    ASSUME NEW op, NEW t \in Threads, t \notin ToRetry(op), Others(t)
    PROVE  ToRetry(op) \subseteq ToRetry(op)'
BY DEF ToRetry, Others

LEMMA RetryType ==
    ASSUME NEW op
    PROVE  ToRetry(op) \in SUBSET Threads /\ ToRetry(op)' \in SUBSET Threads
BY DEF ToRetry

\* Steps that do not touch the ring.
LEMMA QuietStep ==
    ASSUME IInv, \/ StepFull \/ StepEmpty \/ StepError
                 \/ StepSleepSend \/ StepSleepRecv \/ StepExpire \/ Tick \/ Reset
    PROVE  MailsAwaited' /\ SlotsAwaited'
<1> USE DEF IInv
<1>0. /\ entry \in Nat /\ Size \in Nat /\ MailsAwaited /\ SlotsAwaited
  BY SizeAssumption DEF TypeOK, NoLostWakeup, MailsAwaited, SlotsAwaited
<1>a. /\ Cardinality(ToRetry("recv")) \in Nat /\ Cardinality(ToRetry("recv")') \in Nat
      /\ ToRetry("recv") \subseteq ToRetry("recv")' =>
            Cardinality(ToRetry("recv")) <= Cardinality(ToRetry("recv")')
  BY RetryType, CountThreads
<1>b. /\ Cardinality(ToRetry("send")) \in Nat /\ Cardinality(ToRetry("send")') \in Nat
      /\ ToRetry("send") \subseteq ToRetry("send")' =>
            Cardinality(ToRetry("send")) <= Cardinality(ToRetry("send")')
  BY RetryType, CountThreads
<1> SUFFICES /\ suspend_thread' # <<>> => entry' <= Cardinality(ToRetry("recv")')
             /\ suspend_sender_thread' # <<>> => Size - entry' <= Cardinality(ToRetry("send")')
  BY DEF MailsAwaited, SlotsAwaited
<1>1. ASSUME entry' = entry,
             suspend_thread' # <<>> => suspend_thread # <<>>,
             ToRetry("recv") \subseteq ToRetry("recv")'
      PROVE  suspend_thread' # <<>> => entry' <= Cardinality(ToRetry("recv")')
  BY <1>0, <1>a, <1>1 DEF MailsAwaited
<1>2. ASSUME entry' = entry,
             suspend_sender_thread' # <<>> => suspend_sender_thread # <<>>,
             ToRetry("send") \subseteq ToRetry("send")'
      PROVE  suspend_sender_thread' # <<>> => Size - entry' <= Cardinality(ToRetry("send")')
  BY <1>0, <1>b, <1>2 DEF SlotsAwaited
<1>3. CASE StepFull \/ StepSleepSend
  <2>1. PICK t \in Threads :
          /\ call[t] \in Results \cup {"send"}
          /\ Others(t)
          /\ entry = Size /\ entry' = entry /\ suspend_thread' = suspend_thread
    <3>1. CASE StepFull
      BY <3>1, OthersKeep DEF StepFull, Caller, Fails, listVars, Threads
    <3>2. CASE StepSleepSend
      BY <3>2, OthersKeep DEF StepSleepSend, Caller, SleepSending, Threads
    <3> QED BY <1>3, <3>1, <3>2
  <2>2. t \notin ToRetry("recv")
    BY <2>1 DEF ToRetry, Results
  <2>3. ToRetry("recv") \subseteq ToRetry("recv")'
    BY <2>1, <2>2, SameRetries
  <2>4. Size - entry' <= Cardinality(ToRetry("send")')
    BY <2>1, <1>0, <1>b
  <2> QED BY <1>1, <2>1, <2>3, <2>4
<1>4. CASE StepEmpty \/ StepSleepRecv
  <2>1. PICK t \in Threads :
          /\ call[t] \in Results \cup {"recv"}
          /\ Others(t)
          /\ entry = 0 /\ entry' = entry
          /\ suspend_sender_thread' = suspend_sender_thread
    <3>1. CASE StepEmpty
      BY <3>1, OthersKeep DEF StepEmpty, Caller, Fails, listVars, Threads
    <3>2. CASE StepSleepRecv
      BY <3>2, OthersKeep DEF StepSleepRecv, Caller, SleepReceiving, Threads
    <3> QED BY <1>4, <3>1, <3>2
  <2>2. t \notin ToRetry("send")
    BY <2>1 DEF ToRetry, Results
  <2>3. ToRetry("send") \subseteq ToRetry("send")'
    BY <2>1, <2>2, SameRetries
  <2>4. entry' <= Cardinality(ToRetry("recv")')
    BY <2>1, <1>0, <1>a
  <2> QED BY <1>2, <2>1, <2>3, <2>4
<1>5. CASE StepError \/ StepExpire
  <2>1. PICK t \in Threads :
          /\ error[t] # "EOK" \/ stat[t] = "suspend"
          /\ Others(t)
          /\ entry' = entry
          /\ \/ suspend_thread' = suspend_thread /\ suspend_sender_thread' = suspend_sender_thread
             \/ /\ suspend_thread' = Unlink(suspend_thread, t)
                /\ suspend_sender_thread' = Unlink(suspend_sender_thread, t)
    <3>1. CASE StepError
      BY <3>1, OthersKeep DEF StepError, ReturnError, Fails, listVars
    <3>2. CASE StepExpire
      BY <3>2 DEF StepExpire, Expire, Due, Wakes, TypeOK, ringVars, Others
    <3> QED BY <1>5, <3>1, <3>2
  <2>2. /\ suspend_thread' # <<>> => suspend_thread # <<>>
        /\ suspend_sender_thread' # <<>> => suspend_sender_thread # <<>>
    <3>1. /\ suspend_thread \in Seq(Receivers) /\ Distinct(suspend_thread)
          /\ suspend_sender_thread \in Seq(Senders) /\ Distinct(suspend_sender_thread)
      BY DEF TypeOK, Lists, ListOf
    <3>2. Unlink(suspend_thread, t) # <<>> => suspend_thread # <<>>
      BY <3>1, UnlinkProperties
    <3>3. Unlink(suspend_sender_thread, t) # <<>> => suspend_sender_thread # <<>>
      BY <3>1, UnlinkProperties
    <3> QED BY <2>1, <3>2, <3>3
  <2>3. t \notin ToRetry("recv") /\ t \notin ToRetry("send")
    BY <2>1 DEF ToRetry
  <2>4. ToRetry("recv") \subseteq ToRetry("recv")' /\ ToRetry("send") \subseteq ToRetry("send")'
    BY <2>1, <2>3, SameRetries
  <2> QED BY <1>1, <1>2, <2>1, <2>2, <2>4
<1>6. CASE Tick
  <2>1. ToRetry("recv")' = ToRetry("recv") /\ ToRetry("send")' = ToRetry("send")
    BY <1>6 DEF Tick, ToRetry
  <2> QED BY <1>1, <1>2, <1>6, <2>1 DEF Tick, ringVars, listVars
<1>7. CASE Reset
  BY <1>7 DEF Reset
<1> QED BY <1>3, <1>4, <1>5, <1>6, <1>7

LEMMA PutStep == ASSUME IInv, StepPut PROVE MailsAwaited' /\ SlotsAwaited'
<1> USE DEF IInv
<1> PICK t \in Senders, mail \in Mails : Caller(t, "send") /\ Put(t, mail) BY DEF StepPut
<1> DEFINE A == ToRetry("recv") B == ToRetry("recv")'
           C == ToRetry("send") D == ToRetry("send")'
<1>1. /\ entry \in Nat /\ Size \in Nat /\ MailsAwaited /\ SlotsAwaited
      /\ suspend_thread \in Seq(Receivers) /\ Distinct(suspend_thread)
      /\ ListOf(suspend_thread, "recv") /\ Receivers \subseteq Threads /\ t \in Threads
  BY SizeAssumption
     DEF TypeOK, NoLostWakeup, MailsAwaited, SlotsAwaited, Lists, ListOf, Threads
<1>2. /\ stat[t] = "ready" /\ call[t] # "recv"
      /\ entry' = entry + 1 /\ suspend_thread' = Rest(suspend_thread)
      /\ suspend_sender_thread' = suspend_sender_thread
      /\ \A x \in Threads :
           /\ stat'[x] = IF x \in Resumed(suspend_thread) THEN "ready" ELSE stat[x]
           /\ x # t => call'[x] = call[x] /\ error'[x] = error[x]
  BY DEF Put, Wakes, Returns, TypeOK, Caller, Results
<1>3. A \in SUBSET Threads /\ B \in SUBSET Threads /\ C \in SUBSET Threads /\ D \in SUBSET Threads
  BY RetryType
<1>4. A \subseteq B
  BY <1>2 DEF ToRetry
<1>5. C \ {t} \subseteq D
  BY <1>2 DEF ToRetry
<1>6. suspend_thread # <<>> => Head(suspend_thread) \notin A /\ Head(suspend_thread) \in B
  BY <1>1, <1>2, ResumeOne
<1>7. Rest(suspend_thread) # <<>> => suspend_thread # <<>>
  BY <1>1, RestProperties
<1> HIDE DEF A, B, C, D
<1>8. /\ Cardinality(A) \in Nat /\ Cardinality(B) \in Nat
      /\ Cardinality(C) \in Nat /\ Cardinality(D) \in Nat
  BY <1>3, CountThreads
<1>9. Cardinality(C) - 1 <= Cardinality(D)
  BY <1>3, <1>5, CountThreads
<1>10. suspend_thread # <<>> => Cardinality(A) + 1 <= Cardinality(B)
  <2> SUFFICES ASSUME suspend_thread # <<>> PROVE Cardinality(A) + 1 <= Cardinality(B)
    OBVIOUS
  <2> DEFINE h == Head(suspend_thread)
  <2>1. A \cup {h} \subseteq B /\ h \notin A
    BY <1>4, <1>6
  <2> HIDE DEF h
  <2> QED BY <2>1, <1>3, CountThreads
<1>11. suspend_thread # <<>> => entry <= Cardinality(A)
  BY <1>1 DEF MailsAwaited, A
<1>12. suspend_sender_thread # <<>> => Size - entry <= Cardinality(C)
  BY <1>1 DEF SlotsAwaited, C
<1>13. suspend_thread' # <<>> => entry' <= Cardinality(B)
  BY <1>1, <1>2, <1>7, <1>8, <1>10, <1>11
<1>14. suspend_sender_thread' # <<>> => Size - entry' <= Cardinality(D)
  BY <1>1, <1>2, <1>8, <1>9, <1>12
<1> QED BY <1>13, <1>14 DEF MailsAwaited, SlotsAwaited, B, D

LEMMA TakeStep == ASSUME IInv, StepTake PROVE MailsAwaited' /\ SlotsAwaited'
<1> USE DEF IInv
<1> PICK t \in Receivers : Caller(t, "recv") /\ TakeMail(t) BY DEF StepTake
<1> DEFINE A == ToRetry("send") B == ToRetry("send")'
           C == ToRetry("recv") D == ToRetry("recv")'
           waiting == suspend_sender_thread
<1>1. /\ entry \in Nat /\ Size \in Nat /\ MailsAwaited /\ SlotsAwaited
      /\ waiting \in Seq(Senders) /\ Distinct(waiting)
      /\ ListOf(waiting, "send") /\ Senders \subseteq Threads /\ t \in Threads
  BY SizeAssumption
     DEF TypeOK, NoLostWakeup, MailsAwaited, SlotsAwaited, Lists, ListOf, Threads
<1>2. /\ stat[t] = "ready" /\ call[t] # "send"
      /\ entry' = entry - 1 /\ suspend_sender_thread' = Rest(waiting)
      /\ suspend_thread' = suspend_thread
      /\ \A x \in Threads :
           /\ stat'[x] = IF x \in Resumed(waiting) THEN "ready" ELSE stat[x]
           /\ x # t => call'[x] = call[x] /\ error'[x] = error[x]
  BY DEF TakeMail, Wakes, Returns, TypeOK, Caller, Results
<1>3. A \in SUBSET Threads /\ B \in SUBSET Threads /\ C \in SUBSET Threads /\ D \in SUBSET Threads
  BY RetryType
<1>4. A \subseteq B
  BY <1>2 DEF ToRetry
<1>5. C \ {t} \subseteq D
  BY <1>2 DEF ToRetry
<1>6. waiting # <<>> => Head(waiting) \notin A /\ Head(waiting) \in B
  BY <1>1, <1>2, ResumeOne
<1>7. Rest(waiting) # <<>> => waiting # <<>>
  BY <1>1, RestProperties
<1> HIDE DEF A, B, C, D
<1>8. /\ Cardinality(A) \in Nat /\ Cardinality(B) \in Nat
      /\ Cardinality(C) \in Nat /\ Cardinality(D) \in Nat
  BY <1>3, CountThreads
<1>9. Cardinality(C) - 1 <= Cardinality(D)
  BY <1>3, <1>5, CountThreads
<1>10. waiting # <<>> => Cardinality(A) + 1 <= Cardinality(B)
  <2> SUFFICES ASSUME waiting # <<>> PROVE Cardinality(A) + 1 <= Cardinality(B)
    OBVIOUS
  <2> DEFINE h == Head(waiting)
  <2>1. A \cup {h} \subseteq B /\ h \notin A
    BY <1>4, <1>6
  <2> HIDE DEF h
  <2> QED BY <2>1, <1>3, CountThreads
<1>11. suspend_thread # <<>> => entry <= Cardinality(C)
  BY <1>1 DEF MailsAwaited, C
<1>12. waiting # <<>> => Size - entry <= Cardinality(A)
  BY <1>1 DEF SlotsAwaited, A
<1>13. suspend_thread' # <<>> => entry' <= Cardinality(D)
  BY <1>1, <1>2, <1>8, <1>9, <1>11
<1>14. suspend_sender_thread' # <<>> => Size - entry' <= Cardinality(B)
  BY <1>1, <1>2, <1>7, <1>8, <1>10, <1>12
<1> QED BY <1>13, <1>14 DEF MailsAwaited, SlotsAwaited, B, D

-----------------------------------------------------------------------------
(* The invariant, and what follows from it.                                *)

LEMMA IInvInit == Init => IInv
<1> SUFFICES ASSUME Init PROVE IInv
  OBVIOUS
<1>1. TypeOK
  BY SizeAssumption DEF Init, TypeOK, Results, Timeouts
<1>2. Ring
  BY SizeAssumption DEF Init, Ring
<1>3. Lists /\ NoLostWakeup
  BY DEF Init, Lists, ListOf, Distinct, NoLostWakeup
<1>4. Stats /\ Clocks
  BY DEF Init, Stats, Clocks, Clock, Results, Forever
<1> QED BY <1>1, <1>2, <1>3, <1>4 DEF IInv

LEMMA IInvStep == IInv /\ [Next]_vars => IInv'
<1> SUFFICES ASSUME IInv, [Next]_vars PROVE IInv'
  OBVIOUS
<1>1. CASE Next
  <2>1. MailsAwaited' /\ SlotsAwaited'
    BY <1>1, Steps, PutStep, TakeStep, QuietStep
  <2>2. NoLostWakeup'
    BY <2>1 DEF NoLostWakeup, MailsAwaited, SlotsAwaited
  <2> QED
    BY <1>1, <2>2, TypeStep, RingStep, ListStep, StatStep, ClockStep DEF IInv
<1>2. CASE UNCHANGED vars
  BY <1>2
     DEF IInv, TypeOK, Ring, Lists, ListOf, Distinct, Stats, Clocks, Clock, NoLostWakeup,
         ToRetry, vars, ringVars, listVars, timeVars
<1> QED BY <1>1, <1>2

\* The inductive invariant holds in every state of every behaviour.
THEOREM MailboxInvariance == Spec => []IInv
<1>1. Init => IInv
  BY IInvInit
<1>2. IInv /\ [Next]_vars => IInv'
  BY IInvStep
<1> QED BY <1>1, <1>2, PTL DEF Spec

\* The offsets stay within the pool and the fill level within its size.
THEOREM MailboxTypeCorrect == Spec => []TypeOK
<1>1. IInv => TypeOK
  BY DEF IInv
<1> QED BY <1>1, MailboxInvariance, PTL

\* While threads sleep in rt_mb_recv or rt_mb_send_wait, a resumed thread is
\* on its way to every mail or free slot they could use.
THEOREM NoWakeupIsLost == Spec => []NoLostWakeup
<1>1. IInv => NoLostWakeup
  BY DEF IInv
<1> QED BY <1>1, MailboxInvariance, PTL

LEMMA TimeoutFromClock == ASSUME IInv PROVE TimeoutExact
<1> SUFFICES ASSUME NEW t \in Threads, asked[t] > 0
             PROVE  /\ stat[t] = "suspend" /\ waited[t] = asked[t] => Due(t)
                    /\ error[t] = "ETIMEOUT" => waited[t] = asked[t]
  BY DEF TimeoutExact
<1>1. Clock(t)
  BY DEF IInv, Clocks
<1>2. /\ asked[t] \in Nat \cup {Forever} /\ timeout[t] \in Nat \cup {Forever}
      /\ elapsed[t] \in Nat /\ waited[t] \in Nat
  BY TimeoutType DEF IInv, TypeOK
<1>3. /\ timeout[t] > 0 /\ timeout[t] \in Nat /\ asked[t] \in Nat
      /\ waited[t] = asked[t] - timeout[t] + elapsed[t]
  BY <1>1, <1>2 DEF Clock, Forever
<1>4. waited[t] = asked[t] <=> elapsed[t] = timeout[t]
  BY <1>2, <1>3
<1>5. error[t] = "ETIMEOUT" => elapsed[t] = timeout[t]
  BY <1>1 DEF Clock
<1> QED BY <1>3, <1>4, <1>5 DEF Due

\* However often a timed call goes back to sleep, it sleeps as long as was
\* asked, no tick more or less.
THEOREM TimeoutsAreExact == Spec => []TimeoutExact
BY TimeoutFromClock, MailboxInvariance, PTL

\* A thread in a call that has nothing left of its timeout has spent it all.
LEMMA NothingLeft ==
    ASSUME IInv, NEW t \in Threads, asked[t] > 0, Remaining(t) = 0
    PROVE  waited[t] = asked[t]
<1>1. Clock(t)
  BY DEF IInv, Clocks
<1>2. /\ asked[t] \in Nat \cup {Forever} /\ timeout[t] \in Nat \cup {Forever}
      /\ elapsed[t] \in Nat /\ waited[t] \in Nat
  BY TimeoutType DEF IInv, TypeOK
<1>3. /\ timeout[t] > 0 /\ timeout[t] \in Nat /\ asked[t] \in Nat
      /\ waited[t] = asked[t] - timeout[t] + elapsed[t]
  BY <1>1, <1>2 DEF Clock, Forever
<1>4. timeout[t] - elapsed[t] = 0
  BY <1>3 DEF Remaining
<1> QED BY <1>2, <1>3, <1>4

\* A timed call that fails by lack of time or of room fails at the moment
\* its timeout is over, and not before.
THEOREM GivesUpInTimeAlways == Spec => GivesUpInTime
<1>1. ASSUME IInv, [Next]_vars
      PROVE  [\A t \in Threads :
                asked[t] > 0 /\ call'[t] \in {"ETIMEOUT", "EFULL"} => waited[t] = asked[t]]_vars
  <2> SUFFICES ASSUME Next, NEW t \in Threads, asked[t] > 0,
                      call'[t] \in {"ETIMEOUT", "EFULL"}
               PROVE  waited[t] = asked[t]
    BY <1>1
  <2>1. TypeOK /\ call[t] \in {"send", "recv"} /\ Clock(t)
    <3>1. TypeOK /\ Clock(t)
      BY <1>1 DEF IInv, Clocks
    <3>2. asked[t] # 0
      <4>1. asked[t] = 0 => ~(asked[t] > 0)
        OBVIOUS
      <4> QED BY <4>1
    <3>3. call[t] \notin Results
      BY <3>1, <3>2 DEF Clock
    <3> QED BY <3>1, <3>3 DEF TypeOK
  <2>2. call'[t] # call[t]
    BY <2>1
  <2>3. CASE StepPut \/ StepTake
    <3> PICK x \in Threads, mail \in Mails \cup {NoMail} : Returns(x, "EOK", mail)
      <4>1. CASE StepPut
        BY <4>1 DEF StepPut, Put, Threads
      <4>2. CASE StepTake
        <5>1. msg_pool[out_offset] \in Mails \cup {NoMail}
          BY <2>1 DEF TypeOK
        <5> QED BY <4>2, <5>1 DEF StepTake, TakeMail, Threads
      <4> QED BY <2>3, <4>1, <4>2
    <3> QED BY <2>1, <2>2 DEF Returns, TypeOK
  <2>4. CASE StepFull \/ StepEmpty
    <3>1. PICK x \in Threads, op \in {"send", "recv"}, result \in Results :
              Caller(x, op) /\ Limit(x, op, 0) /\ Fails(x, result)
      BY <2>4 DEF StepFull, StepEmpty, Threads, Results
    <3>2. x = t
      BY <2>1, <2>2, <3>1 DEF Fails, Returns, TypeOK
    <3>3. call[t] = op
      BY <2>1, <3>1, <3>2 DEF Caller, Results
    <3>4. Remaining(t) = 0
      BY <3>1, <3>2, <3>3 DEF Limit
    <3> QED BY <1>1, <3>4, NothingLeft
  <2>5. CASE StepSleepSend \/ StepSleepRecv
    <3> PICK x \in Threads, op \in {"send", "recv"}, mail \in Mails \cup {NoMail}, n \in Nat \cup {Forever} : Sleeps(x, op, mail, n)
      BY <2>5 DEF StepSleepSend, StepSleepRecv, SleepSending, SleepReceiving, Threads
    <3>1. call'[t] \in {op, call[t]}
      BY <2>1 DEF Sleeps, TypeOK
    <3> QED BY <2>1, <3>1
  <2>6. CASE StepError
    <3> PICK x \in Threads : ReturnError(x) BY <2>6 DEF StepError
    <3>1. x = t /\ call'[t] = error[t]
      BY <2>1, <2>2 DEF ReturnError, Fails, Returns, TypeOK
    <3>2. error[t] = "ETIMEOUT"
      BY <2>1, <3>1 DEF TypeOK
    <3> QED BY <1>1, <3>2, TimeoutFromClock DEF TimeoutExact
  <2>7. CASE StepExpire \/ Tick \/ Reset
    BY <2>2, <2>7 DEF StepExpire, Expire, Tick, Reset
  <2> QED BY <1>1, Steps, <2>3, <2>4, <2>5, <2>6, <2>7
<1> QED BY <1>1, MailboxInvariance, PTL DEF Spec, GivesUpInTime
=============================================================================
