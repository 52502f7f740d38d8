----------------------------- MODULE BoundedFifo -----------------------------
(***************************************************************************)
(* What a mailbox promises its callers: a first-in first-out queue of at   *)
(* most Size mails.  Nothing is said of lists of threads, ring offsets or  *)
(* timers.  A call is served in one indivisible step, at once or after the *)
(* caller has waited, or it fails and leaves the queue alone.              *)
(***************************************************************************)
EXTENDS Naturals, Sequences

CONSTANTS
    Senders, Receivers,   \* the threads (a thread may be both)
    Mails,                \* the mails
    NoMail,               \* what a thread holds when it holds no mail
    Size                  \* capacity of the mailbox

VARIABLES
    queue,   \* the mails sent and not received, oldest first
    call,    \* the operation a thread waits in, else its last result
    value    \* the mail a waiting sender offers, or the last mail received

fifoVars == <<queue, call, value>>

Threads == Senders \cup Receivers
Results == {"EOK", "EFULL", "ETIMEOUT", "ERROR"}

Init ==
    /\ queue = <<>>
    /\ call = [t \in Threads |-> "EOK"]
    /\ value = [t \in Threads |-> NoMail]

Returns(t, result, mail) ==
    /\ call' = [call EXCEPT ![t] = result]
    /\ value' = [value EXCEPT ![t] = mail]

\* A call is a new one, or the one t waits in.
Calls(t, op) == call[t] \in Results \cup {op}

\* A call waits only when it cannot be served.
WaitToSend(t) ==
    /\ call[t] \in Results /\ Len(queue) = Size
    /\ \E mail \in Mails : Returns(t, "send", mail)
    /\ UNCHANGED queue

WaitToReceive(t) ==
    /\ call[t] \in Results /\ queue = <<>>
    /\ Returns(t, "recv", NoMail)
    /\ UNCHANGED queue

Send(t) ==
    /\ Calls(t, "send") /\ Len(queue) < Size
    /\ \E mail \in Mails :
         /\ call[t] = "send" => mail = value[t]
         /\ queue' = Append(queue, mail)
    /\ Returns(t, "EOK", NoMail)

Receive(t) ==
    /\ Calls(t, "recv") /\ queue # <<>>
    /\ queue' = Tail(queue)
    /\ Returns(t, "EOK", Head(queue))

\* A call that may not wait (any longer) reports the state of the queue.
RefuseSend(t) ==
    /\ Calls(t, "send") /\ Len(queue) = Size
    /\ Returns(t, "EFULL", NoMail)
    /\ UNCHANGED queue

RefuseReceive(t) ==
    /\ Calls(t, "recv") /\ queue = <<>>
    /\ Returns(t, "ETIMEOUT", NoMail)
    /\ UNCHANGED queue

\* A waiting call is ended by its timeout or by a reset.
GiveUp(t) ==
    /\ call[t] \in {"send", "recv"}
    /\ \E result \in {"ETIMEOUT", "ERROR"} : Returns(t, result, NoMail)
    /\ UNCHANGED queue

Reset == queue' = <<>> /\ UNCHANGED <<call, value>>

Next ==
    \/ \E t \in Senders : WaitToSend(t) \/ Send(t) \/ RefuseSend(t)
    \/ \E t \in Receivers : WaitToReceive(t) \/ Receive(t) \/ RefuseReceive(t)
    \/ \E t \in Threads : GiveUp(t)
    \/ Reset

Spec == Init /\ [][Next]_fifoVars
=============================================================================
