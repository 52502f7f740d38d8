------------------------------ MODULE ByteQueue -------------------------------
(***************************************************************************)
(* What a receiver without flow control promises: bytes are read in the    *)
(* order they came, each at most once.  It may lose bytes, but only at the *)
(* ends of what it holds: the newest, or the oldest when it is full.       *)
(***************************************************************************)
EXTENDS Naturals, Sequences

CONSTANTS
    NULL,       \* "nothing read"
    Byte,       \* the bytes
    Capacity    \* how many are held at most

VARIABLES
    queue,      \* the bytes received and neither read nor lost, oldest first
    ch          \* the byte read last

Init == queue = <<>> /\ ch = NULL

Put(b) ==
    /\ Len(queue) < Capacity
    /\ queue' = Append(queue, b)
    /\ UNCHANGED ch

Get ==
    /\ queue # <<>>
    /\ ch' = Head(queue)
    /\ queue' = Tail(queue)

LoseNewest ==
    /\ queue # <<>>
    /\ queue' = SubSeq(queue, 1, Len(queue) - 1)
    /\ UNCHANGED ch

LoseOldest ==
    /\ Len(queue) = Capacity
    /\ queue' = Tail(queue)
    /\ UNCHANGED ch

Next == Get \/ LoseNewest \/ LoseOldest \/ \E b \in Byte : Put(b)

Spec == Init /\ [][Next]_<<queue, ch>>
=============================================================================
