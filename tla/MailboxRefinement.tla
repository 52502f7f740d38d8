-------------------------- MODULE MailboxRefinement --------------------------
(***************************************************************************)
(* The mailbox of the kernel implements the abstract queue BoundedFifo:    *)
(* each stretch of rt_mb_send_wait or rt_mb_recv is one of its steps, or   *)
(* leaves the queue, the calls and the values as they were.                *)
(***************************************************************************)
EXTENDS MailboxProofs

Element == Mails \cup {NoMail}

-----------------------------------------------------------------------------
(* The contents of the ring.                                               *)

LEMMA SlotType ==
    ASSUME TypeOK, NEW i \in 1..Size
    PROVE  Slot(i) \in 0..(Size - 1)
BY SizeAssumption DEF TypeOK, Slot

LEMMA SlotInjective ==
    ASSUME TypeOK, NEW i \in 1..Size, NEW j \in 1..Size, Slot(i) = Slot(j)
    PROVE  i = j
<1>1. out_offset \in 0..(Size - 1) /\ Size \in Nat \ {0}
  BY SizeAssumption DEF TypeOK
<1>2. /\ i \in Int /\ 1 <= i /\ i <= Size /\ j \in Int /\ 1 <= j /\ j <= Size
      /\ out_offset \in Int /\ 0 <= out_offset /\ out_offset < Size /\ Size \in Int
  BY <1>1
<1>3. (IF out_offset + i - 1 < Size THEN out_offset + i - 1 ELSE out_offset + i - 1 - Size)
      = (IF out_offset + j - 1 < Size THEN out_offset + j - 1 ELSE out_offset + j - 1 - Size)
  BY DEF Slot
<1> QED BY <1>2, <1>3

LEMMA SlotOfNext ==
    ASSUME TypeOK, Ring, entry < Size
    PROVE  in_offset = Slot(entry + 1) /\ entry + 1 \in 1..Size
BY SizeAssumption DEF TypeOK, Slot, Ring

LEMMA ContentsType ==
    ASSUME TypeOK
    PROVE  /\ Contents \in Seq(Element) /\ Len(Contents) = entry
           /\ \A i \in 1..entry : Contents[i] = msg_pool[Slot(i)]
           /\ Contents = <<>> <=> entry = 0
<1>1. entry \in Nat /\ \A i \in 1..entry : i \in 1..Size
  BY SizeAssumption DEF TypeOK
<1>2. \A i \in 1..entry : msg_pool[Slot(i)] \in Element
  BY <1>1, SlotType DEF TypeOK, Element
<1>3. Contents \in Seq(Element)
  BY <1>1, <1>2, IsASeq DEF Contents
<1>4. DOMAIN Contents = 1..entry
  BY DEF Contents
<1>5. Len(Contents) = entry
  BY <1>1, <1>3, <1>4, LenProperties
<1>6. Contents = <<>> <=> entry = 0
  BY <1>3, <1>5, EmptySeq
<1> QED BY <1>3, <1>5, <1>6 DEF Contents

\* The same of the next state.
LEMMA ContentsTypeNext ==
    ASSUME TypeOK'
    PROVE  /\ Contents' \in Seq(Element) /\ Len(Contents') = entry'
           /\ \A i \in 1..entry' : Contents'[i] = msg_pool'[Slot(i)']
<1>1. entry' \in Nat /\ \A i \in 1..entry' : i \in 1..Size
  BY SizeAssumption DEF TypeOK
<1>2. ASSUME NEW i \in 1..entry' PROVE msg_pool'[Slot(i)'] \in Element
  <2>1. i \in 1..Size
    BY <1>1
  <2>2. Slot(i)' = IF out_offset' + i - 1 < Size THEN out_offset' + i - 1
                   ELSE out_offset' + i - 1 - Size
    BY DEF Slot
  <2>3. ASSUME NEW o \in 0..(Size - 1)
        PROVE  (IF o + i - 1 < Size THEN o + i - 1 ELSE o + i - 1 - Size) \in 0..(Size - 1)
    BY <2>1, SizeAssumption
  <2>4. out_offset' \in 0..(Size - 1)
    BY DEF TypeOK
  <2>5. Slot(i)' \in 0..(Size - 1)
    BY <2>2, <2>3, <2>4
  <2> QED BY <2>5 DEF TypeOK, Element
<1>3. Contents' \in Seq(Element)
  BY <1>1, <1>2, IsASeq DEF Contents
<1>4. DOMAIN Contents' = 1..entry'
  BY DEF Contents
<1>5. Len(Contents') = entry'
  BY <1>1, <1>3, <1>4, LenProperties
<1> QED BY <1>3, <1>5 DEF Contents

\* A mail put at in_offset is the youngest.
LEMMA PutAppends ==
    ASSUME TypeOK, TypeOK', Ring, entry < Size, NEW mail \in Mails,
           msg_pool' = [msg_pool EXCEPT ![in_offset] = mail],
           entry' = entry + 1, out_offset' = out_offset
    PROVE  Contents' = Append(Contents, mail)
<1>1. /\ Contents \in Seq(Element) /\ Len(Contents) = entry
      /\ \A i \in 1..entry : Contents[i] = msg_pool[Slot(i)]
  BY ContentsType
<1>2. /\ Contents' \in Seq(Element) /\ Len(Contents') = entry + 1
      /\ \A i \in 1..(entry + 1) : Contents'[i] = msg_pool'[Slot(i)']
  BY ContentsTypeNext
<1>3. /\ Append(Contents, mail) \in Seq(Element) /\ Len(Append(Contents, mail)) = entry + 1
      /\ \A i \in 1..entry : Append(Contents, mail)[i] = Contents[i]
      /\ Append(Contents, mail)[entry + 1] = mail
  BY <1>1, AppendProperties DEF Element
<1>4. entry \in Nat /\ Size \in Nat
  BY SizeAssumption DEF TypeOK
<1>5. ASSUME NEW i \in 1..(entry + 1) PROVE Contents'[i] = Append(Contents, mail)[i]
  <2>1. Contents'[i] = msg_pool'[Slot(i)] /\ i \in 1..Size
    BY <1>2, <1>4 DEF Slot
  <2>2. CASE i = entry + 1
    <3>1. Slot(i) = in_offset /\ in_offset \in 0..(Size - 1)
      BY <2>2, SlotOfNext DEF TypeOK
    <3> QED BY <1>3, <2>1, <2>2, <3>1 DEF TypeOK
  <2>3. CASE i # entry + 1
    <3>1. i \in 1..entry
      BY <1>4, <2>3
    <3>2. Slot(i) # in_offset /\ Slot(i) \in 0..(Size - 1)
      BY <2>1, <2>3, SlotOfNext, SlotInjective, SlotType
    <3>3. msg_pool'[Slot(i)] = msg_pool[Slot(i)]
      BY <3>2 DEF TypeOK
    <3> QED BY <1>1, <1>3, <2>1, <3>1, <3>3
  <2> QED BY <2>2, <2>3
<1> QED BY <1>2, <1>3, <1>5, SeqEqual

\* The mail taken at out_offset is the oldest.
LEMMA TakeIsHead ==
    ASSUME TypeOK, TypeOK', entry > 0, msg_pool' = msg_pool,
           entry' = entry - 1, out_offset' = NextOffset(out_offset)
    PROVE  /\ Contents # <<>> /\ Head(Contents) = msg_pool[out_offset]
           /\ Contents' = Tail(Contents)
<1>1. /\ Contents \in Seq(Element) /\ Len(Contents) = entry /\ Contents # <<>>
      /\ \A i \in 1..entry : Contents[i] = msg_pool[Slot(i)]
  BY ContentsType
<1>2. /\ Contents' \in Seq(Element) /\ Len(Contents') = entry - 1
      /\ \A i \in 1..(entry - 1) : Contents'[i] = msg_pool'[Slot(i)']
  BY ContentsTypeNext
<1>3. /\ Tail(Contents) \in Seq(Element) /\ Len(Tail(Contents)) = entry - 1
      /\ \A i \in 1..(entry - 1) : Tail(Contents)[i] = Contents[i + 1]
      /\ Head(Contents) = Contents[1]
  BY <1>1, HeadTailProperties
<1>4. entry \in Nat /\ Size \in Nat /\ entry <= Size /\ out_offset \in 0..(Size - 1)
  BY SizeAssumption DEF TypeOK
<1>5. Slot(1) = out_offset
  BY <1>4 DEF Slot
<1>6. ASSUME NEW i \in 1..(entry - 1) PROVE Contents'[i] = Tail(Contents)[i]
  <2>1. Slot(i)' = Slot(i + 1)
    BY <1>4, OffsetType DEF Slot
  <2>2. i \in 1..(entry - 1) /\ i + 1 \in 1..entry
    BY <1>4
  <2> QED BY <1>1, <1>2, <1>3, <2>1, <2>2
<1>7. Contents' = Tail(Contents)
  BY <1>2, <1>3, <1>6, SeqEqual
<1>8. Head(Contents) = msg_pool[out_offset]
  BY <1>1, <1>3, <1>4, <1>5
<1> QED BY <1>1, <1>7, <1>8

-----------------------------------------------------------------------------
(* The steps.                                                              *)

LEMMA FifoInit == Init => Fifo!Init
<1> SUFFICES ASSUME Init PROVE Fifo!Init
  OBVIOUS
<1>1. TypeOK
  BY IInvInit DEF IInv
<1>2. Contents = <<>>
  BY <1>1, ContentsType DEF Init
<1> QED BY <1>2 DEF Init, Fifo!Init, Fifo!Threads, Threads

LEMMA FifoReturns ==
    ASSUME NEW t, NEW result, NEW mail, Returns(t, result, mail)
    PROVE  Fifo!Returns(t, result, mail)
BY DEF Returns, Fifo!Returns

LEMMA FifoStep == IInv /\ [Next]_vars => [Fifo!Next]_Fifo!fifoVars
<1> SUFFICES ASSUME IInv, [Next]_vars PROVE [Fifo!Next]_Fifo!fifoVars
  OBVIOUS
<1>0. TypeOK /\ TypeOK' /\ Ring
  BY IInvStep DEF IInv
<1>1. ASSUME UNCHANGED ringVars PROVE Contents' = Contents
  BY <1>1 DEF ringVars, Contents, Slot
<1>2. /\ Contents \in Seq(Element) /\ Len(Contents) = entry
      /\ Contents = <<>> <=> entry = 0
  BY <1>0, ContentsType
<1>3. CASE StepPut
  <2> PICK t \in Senders, mail \in Mails :
             Caller(t, "send") /\ Offers(t, mail) /\ Put(t, mail)
    BY <1>3 DEF StepPut
  <2>1. Contents' = Append(Contents, mail)
    BY <1>0, PutAppends DEF Put
  <2>2. Fifo!Calls(t, "send") /\ Len(Contents) < Size /\ (call[t] = "send" => mail = value[t])
    BY <1>2 DEF Put, Caller, Offers, Fifo!Calls, Fifo!Results, Results
  <2>3. Fifo!Returns(t, "EOK", NoMail)
    BY FifoReturns DEF Put
  <2>4. Fifo!Send(t)
    BY <2>1, <2>2, <2>3 DEF Fifo!Send
  <2> QED BY <2>4 DEF Fifo!Next
<1>4. CASE StepTake
  <2> PICK t \in Receivers : Caller(t, "recv") /\ TakeMail(t)
    BY <1>4 DEF StepTake
  <2>1. /\ Contents # <<>> /\ Head(Contents) = msg_pool[out_offset]
        /\ Contents' = Tail(Contents)
    BY <1>0, TakeIsHead DEF TakeMail
  <2>2. Fifo!Calls(t, "recv")
    BY DEF Caller, Fifo!Calls, Fifo!Results, Results
  <2>3. Fifo!Returns(t, "EOK", msg_pool[out_offset])
    BY FifoReturns DEF TakeMail
  <2>4. Fifo!Receive(t)
    BY <2>1, <2>2, <2>3 DEF Fifo!Receive
  <2> QED BY <2>4 DEF Fifo!Next
<1>5. CASE StepFull
  <2> PICK t \in Senders : Caller(t, "send") /\ entry = Size /\ Fails(t, "EFULL")
    BY <1>5 DEF StepFull
  <2>1. Fifo!RefuseSend(t)
    BY <1>1, <1>2, FifoReturns
       DEF Fails, Caller, Fifo!RefuseSend, Fifo!Calls, Fifo!Results, Results
  <2> QED BY <2>1 DEF Fifo!Next
<1>6. CASE StepEmpty
  <2> PICK t \in Receivers : Caller(t, "recv") /\ entry = 0 /\ Fails(t, "ETIMEOUT")
    BY <1>6 DEF StepEmpty
  <2>1. Fifo!RefuseReceive(t)
    BY <1>1, <1>2, FifoReturns
       DEF Fails, Caller, Fifo!RefuseReceive, Fifo!Calls, Fifo!Results, Results
  <2> QED BY <2>1 DEF Fifo!Next
<1>7. CASE StepSleepSend
  <2> PICK t \in Senders, mail \in Mails, n \in Nat \cup {Forever} :
             Caller(t, "send") /\ Offers(t, mail) /\ SleepSending(t, mail, n)
    BY <1>7 DEF StepSleepSend
  <2>1. /\ Contents' = Contents /\ entry = Size
        /\ call' = [call EXCEPT ![t] = "send"] /\ value' = [value EXCEPT ![t] = mail]
    BY <1>1 DEF SleepSending, Sleeps
  <2>2. CASE call[t] = "send"
    <3>1. call' = call /\ value' = value
      BY <1>0, <2>1, <2>2 DEF Offers, TypeOK
    <3> QED BY <2>1, <3>1 DEF Fifo!fifoVars
  <2>3. CASE call[t] # "send"
    <3>1. Fifo!WaitToSend(t)
      BY <1>2, <2>1, <2>3
         DEF Caller, Fifo!WaitToSend, Fifo!Returns, Fifo!Results, Results
    <3> QED BY <3>1 DEF Fifo!Next
  <2> QED BY <2>2, <2>3
<1>8. CASE StepSleepRecv
  <2> PICK t \in Receivers, n \in Nat \cup {Forever} : Caller(t, "recv") /\ SleepReceiving(t, n)
    BY <1>8 DEF StepSleepRecv
  <2>1. /\ Contents' = Contents /\ entry = 0
        /\ call' = [call EXCEPT ![t] = "recv"] /\ value' = [value EXCEPT ![t] = NoMail]
    BY <1>1 DEF SleepReceiving, Sleeps
  <2>2. CASE call[t] = "recv"
    <3>1. value[t] = NoMail
      BY <2>2 DEF IInv, Stats, Threads
    <3>2. call' = call /\ value' = value
      BY <1>0, <2>1, <2>2, <3>1 DEF TypeOK
    <3> QED BY <2>1, <3>2 DEF Fifo!fifoVars
  <2>3. CASE call[t] # "recv"
    <3>1. Fifo!WaitToReceive(t)
      BY <1>2, <2>1, <2>3
         DEF Caller, Fifo!WaitToReceive, Fifo!Returns, Fifo!Results, Results
    <3> QED BY <3>1 DEF Fifo!Next
  <2> QED BY <2>2, <2>3
<1>9. CASE StepError
  <2> PICK t \in Threads : ReturnError(t) BY <1>9 DEF StepError
  <2>1. /\ call[t] \in {"send", "recv"} /\ error[t] \in {"ETIMEOUT", "ERROR"}
        /\ Fails(t, error[t])
    BY <1>0 DEF ReturnError, TypeOK
  <2>2. Contents' = Contents /\ Fifo!Returns(t, error[t], NoMail)
    BY <1>1, <2>1, FifoReturns DEF Fails
  <2>3. Fifo!GiveUp(t) /\ t \in Fifo!Threads
    BY <2>1, <2>2 DEF Fifo!GiveUp, Fifo!Threads, Threads
  <2> QED BY <2>3 DEF Fifo!Next
<1>10. CASE StepExpire \/ Tick
  <2>1. UNCHANGED <<ringVars, call, value>>
    BY <1>10 DEF StepExpire, Expire, Tick
  <2> QED BY <1>1, <2>1 DEF Fifo!fifoVars
<1>11. CASE Reset
  <2>1. Contents' = <<>>
    <3>1. entry' = 0 /\ Len(Contents') = entry' /\ Contents' \in Seq(Element)
      BY <1>0, <1>11, ContentsTypeNext DEF Reset
    <3> QED BY <3>1, EmptySeq
  <2>2. Fifo!Reset
    BY <1>11, <2>1 DEF Reset, Fifo!Reset
  <2> QED BY <2>2 DEF Fifo!Next
<1>12. CASE UNCHANGED vars
  BY <1>1, <1>12 DEF vars, Fifo!fifoVars
<1> QED
  BY Steps, <1>3, <1>4, <1>5, <1>6, <1>7, <1>8, <1>9, <1>10, <1>11, <1>12

\* The ring, the lists of threads and their timers implement a first-in
\* first-out queue of at most Size mails in which every call is served once
\* and whole, or fails (rt_mb_send_wait, rt_mb_recv, rt_mb_control).
THEOREM MailboxImplementsFifo == Spec => ImplementsFifo
<1>1. Init => Fifo!Init
  BY FifoInit
<1>2. IInv /\ [Next]_vars => [Fifo!Next]_Fifo!fifoVars
  BY FifoStep
<1> QED BY <1>1, <1>2, MailboxInvariance, PTL DEF Spec, ImplementsFifo, Fifo!Spec
=============================================================================
