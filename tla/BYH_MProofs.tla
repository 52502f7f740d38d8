------------------------------ MODULE BYH_MProofs ------------------------------
(***************************************************************************)
(* Proofs about BYH_M, for replies of any length and any FIFO that holds   *)
(* two of the longer ones: its types, the bound on what is left in the     *)
(* receive FIFO, that nothing is left in it until a byte comes too late,   *)
(* and that until then a round sends the values that were answered in it,  *)
(* and as new no others but what the stack holds of them.                  *)
(***************************************************************************)
EXTENDS BYH_M, TLAPS

\* Waiting for a reply or reading it, and the bytes that are not read yet.
Reading == pc \in {"delay", "read"}
Unread  == Len(rx) + Len(reply)

\* What is left, and what is left until a byte comes too late.
BacklogInv ==
    /\ pc # "read" => got = 0
    /\ got <= ReplyLength(req)
    /\ Len(reply) <= LongReply
    /\ IF Reading THEN Unread + got <= LongReply + ReplyLength(req)
                  ELSE Unread <= LongReply
    /\ ~late => IF Reading THEN Unread + got <= ReplyLength(req) ELSE rx = <<>>

SizeInv == TypeOK /\ BacklogInv

\* The lengths of the replies.
LEMMA Lengths ==
    ASSUME NEW k \in Requests
    PROVE  /\ ReplyLength(k) \in Nat /\ ReplyLength(k) > 0 /\ ReplyLength(k) <= LongReply
           /\ LongReply \in Nat /\ Capacity \in Nat /\ 2 * LongReply <= Capacity
           /\ Reply(k) \in Seq(Byte) /\ Len(Reply(k)) = ReplyLength(k)
<1>1. ReplyLength(k) \in Nat /\ ReplyLength(k) > 0 /\ ReplyLength(k) <= LongReply
      /\ LongReply \in Nat
  BY ReplyAssumption DEF ReplyLength
<1>2. \A i \in 1..ReplyLength(k) : [of |-> k, place |-> i, round |-> "this"] \in Byte
  BY <1>1 DEF Byte, Rounds
<1>3. Reply(k) \in [1..ReplyLength(k) -> Byte]
  BY <1>2 DEF Reply
<1> QED
  BY <1>1, <1>3, CapacityAssumption

LEMMA GarbageType == Garbage \in Byte
BY ReplyAssumption DEF Garbage, Byte, Rounds

\* The initial state.
LEMMA InitSize == Init => SizeInv
<1> SUFFICES ASSUME Init PROVE SizeInv
  OBVIOUS
<1>1. "humiture" \in Requests
  BY DEF Requests
<1>2. temp \in [1..LongReply -> Byte]
  BY GarbageType DEF Init
<1>3. value \in [Requests -> Value]
  BY DEF Init, NoValue, Value, Rounds
<1>4. got \in 0..LongReply /\ rx \in Seq(Byte) /\ reply \in Seq(Byte)
  BY <1>1, Lengths DEF Init
<1>5. pc = "request" /\ req \in Requests /\ answered \in SUBSET Requests
  BY <1>1 DEF Init
<1>6. whole \in BOOLEAN /\ late \in BOOLEAN
  BY DEF Init
<1>7. TypeOK
  BY <1>2, <1>3, <1>4, <1>5, <1>6, Zenon DEF TypeOK
<1>8. BacklogInv
  BY <1>1, Lengths DEF Init, BacklogInv, Reading, Unread
<1> QED
  BY <1>7, <1>8 DEF SizeInv

\* A byte that comes: there is room for it.
LEMMA ByteComesSize ==
    ASSUME SizeInv, ByteComes
    PROVE  /\ SizeInv'
           /\ Len(rx') = Len(rx) + 1 /\ Len(reply') = Len(reply) - 1
           /\ \E b \in {Head(reply), Garbage} :
                rx' = Append(rx, b) /\ whole' = (whole /\ b = Head(reply))
<1> USE DEF SizeInv
<1>1. req \in Requests /\ got \in 0..LongReply /\ rx \in Seq(Byte) /\ reply \in Seq(Byte)
      /\ reply # <<>>
  BY DEF TypeOK, ByteComes
<1>2. Len(rx) \in Nat /\ Len(reply) \in Nat /\ Len(reply) > 0
      /\ Head(reply) \in Byte /\ reply' = Tail(reply)
      /\ Tail(reply) \in Seq(Byte) /\ Len(Tail(reply)) = Len(reply) - 1
  BY <1>1 DEF ByteComes
<1>3. Len(rx) < Capacity
  BY <1>1, <1>2, Lengths DEF BacklogInv, Unread
<1>4. PICK b \in {Head(reply), Garbage} :
        rx' = Received(b) /\ whole' = (whole /\ b = Head(reply))
  BY DEF ByteComes
<1>5. b \in Byte
  BY <1>2, GarbageType
<1>6. rx' = Append(rx, b)
  BY <1>3, <1>4 DEF Received
<1>7. rx' \in Seq(Byte) /\ Len(rx') = Len(rx) + 1
  BY <1>1, <1>5, <1>6
<1>8. UNCHANGED <<pc, req, got, temp, value, answered>>
  BY DEF ByteComes
<1>9. late' \in BOOLEAN /\ whole' \in BOOLEAN /\ (late => late') /\ (~Reading => late')
  BY <1>4 DEF ByteComes, TypeOK, Reading
<1>10. TypeOK'
  BY <1>2, <1>7, <1>8, <1>9 DEF TypeOK
<1>11. Unread' = Unread
  BY <1>2, <1>7 DEF Unread
<1>12. Reading' = Reading
  BY <1>8 DEF Reading
<1>13. BacklogInv'
  <2>1. Len(reply') <= LongReply
    BY <1>1, <1>2, Lengths DEF BacklogInv
  <2>2. IF Reading' THEN Unread' + got' <= LongReply + ReplyLength(req')
                    ELSE Unread' <= LongReply
    BY <1>8, <1>11, <1>12 DEF BacklogInv
  <2>3. ~late' => Reading /\ ~late
    BY <1>9
  <2>4. ~late' => Reading' /\ Unread' + got' <= ReplyLength(req')
    BY <2>3, <1>8, <1>11, <1>12 DEF BacklogInv
  <2>5. (pc' # "read" => got' = 0) /\ got' <= ReplyLength(req')
    BY <1>8 DEF BacklogInv
  <2> QED
    BY <2>1, <2>2, <2>4, <2>5 DEF BacklogInv
<1> QED
  BY <1>2, <1>4, <1>6, <1>7, <1>10, <1>13

LEMMA ByteLostSize ==
    ASSUME SizeInv, ByteLost
    PROVE  SizeInv' /\ Len(reply') = Len(reply) - 1
<1> USE DEF SizeInv
<1>1. req \in Requests /\ got \in 0..LongReply /\ rx \in Seq(Byte) /\ reply \in Seq(Byte)
      /\ reply # <<>>
  BY DEF TypeOK, ByteLost
<1>2. Len(rx) \in Nat /\ Len(reply) \in Nat /\ Len(reply) > 0 /\ reply' = Tail(reply)
      /\ Tail(reply) \in Seq(Byte) /\ Len(Tail(reply)) = Len(reply) - 1
  BY <1>1 DEF ByteLost
<1>3. UNCHANGED <<pc, req, got, temp, value, rx, answered, late>> /\ whole' = FALSE
  BY DEF ByteLost
<1>4. TypeOK'
  BY <1>2, <1>3 DEF TypeOK
<1>5. Unread' = Unread - 1 /\ Unread \in Nat /\ Reading' = Reading
  BY <1>2, <1>3 DEF Unread, Reading
<1>6. BacklogInv'
  <2>1. Len(reply') <= LongReply
    BY <1>1, <1>2, Lengths DEF BacklogInv
  <2>2. IF Reading' THEN Unread' + got' <= LongReply + ReplyLength(req')
                    ELSE Unread' <= LongReply
    BY <1>1, <1>3, <1>5, Lengths DEF BacklogInv
  <2>3. ~late' => IF Reading' THEN Unread' + got' <= ReplyLength(req') ELSE rx' = <<>>
    BY <1>1, <1>3, <1>5, Lengths DEF BacklogInv
  <2>4. (pc' # "read" => got' = 0) /\ got' <= ReplyLength(req')
    BY <1>3 DEF BacklogInv
  <2> QED
    BY <2>1, <2>2, <2>3, <2>4 DEF BacklogInv
<1> QED
  BY <1>2, <1>4, <1>6

\* A request goes out only when the last reply is over.
LEMMA RequestSize ==
    ASSUME SizeInv, Request
    PROVE  SizeInv'
<1> USE DEF SizeInv
<1>1. req \in Requests /\ rx \in Seq(Byte) /\ reply = <<>> /\ pc = "request"
      /\ pc' = "delay" /\ reply' = Reply(req) /\ whole' = TRUE
      /\ UNCHANGED <<req, got, temp, value, rx, answered, late>>
  BY DEF TypeOK, Request
<1>2. TypeOK'
  BY <1>1, Lengths DEF TypeOK
<1>3. got = 0 /\ Len(rx) <= LongReply /\ (~late => rx = <<>>) /\ Len(rx) \in Nat
  BY <1>1 DEF BacklogInv, Reading, Unread
<1>4. Len(reply') = ReplyLength(req) /\ Reading'
  BY <1>1, Lengths DEF Reading
<1>5. BacklogInv'
  BY <1>1, <1>3, <1>4, Lengths DEF BacklogInv, Unread
<1> QED
  BY <1>2, <1>5

LEMMA DelaySize ==
    ASSUME SizeInv, Delay
    PROVE  SizeInv'
<1> USE DEF SizeInv
<1>1. pc = "delay" /\ pc' = "read"
      /\ UNCHANGED <<req, got, temp, value, rx, reply, whole, answered, late>>
  BY DEF Delay
<1>2. TypeOK'
  BY <1>1 DEF TypeOK
<1>3. BacklogInv'
  BY <1>1 DEF BacklogInv, Reading, Unread
<1> QED
  BY <1>2, <1>3

LEMMA ReadByteSize ==
    ASSUME SizeInv, ReadByte
    PROVE  SizeInv' /\ got' = got + 1 /\ got \in Nat /\ got < ReplyLength(req)
           /\ Len(rx') = Len(rx) - 1 /\ Len(rx) \in Nat /\ Len(rx) > 0
<1> USE DEF SizeInv
<1>1. req \in Requests /\ got \in 0..LongReply /\ rx \in Seq(Byte) /\ reply \in Seq(Byte)
      /\ rx # <<>> /\ got < ReplyLength(req) /\ pc = "read"
  BY DEF TypeOK, ReadByte, ReadLength
<1>2. rx' = Tail(rx) /\ Head(rx) \in Byte /\ Len(rx) \in Nat /\ Len(rx) > 0
      /\ Tail(rx) \in Seq(Byte) /\ Len(Tail(rx)) = Len(rx) - 1
  BY <1>1 DEF ReadByte
<1>3. got' = got + 1 /\ temp' = [temp EXCEPT ![got + 1] = Head(rx)]
      /\ UNCHANGED <<pc, req, value, reply, whole, answered, late>>
  BY DEF ReadByte
<1>4. got' \in 0..LongReply /\ got' <= ReplyLength(req)
  BY <1>1, <1>3, Lengths
<1>5. temp' \in [1..LongReply -> Byte]
  BY <1>2, <1>3 DEF TypeOK
<1>6. TypeOK'
  BY <1>2, <1>3, <1>4, <1>5 DEF TypeOK
<1>7. Unread' + got' = Unread + got /\ Reading /\ Reading'
  BY <1>1, <1>2, <1>3 DEF Unread, Reading
<1>8. BacklogInv'
  <2>1. ~late' => Unread' + got' <= ReplyLength(req')
    BY <1>3, <1>7 DEF BacklogInv
  <2>2. Unread' + got' <= LongReply + ReplyLength(req') /\ Len(reply') <= LongReply
    BY <1>3, <1>7 DEF BacklogInv
  <2>3. pc' = "read" /\ got' <= ReplyLength(req')
    BY <1>1, <1>3, <1>4
  <2> QED
    BY <2>1, <2>2, <2>3, <1>7 DEF BacklogInv
<1> QED
  BY <1>1, <1>2, <1>3, <1>6, <1>8, Lengths

LEMMA ReadEndSize ==
    ASSUME SizeInv, ReadEnd
    PROVE  SizeInv'
<1> USE DEF SizeInv
<1>1. req \in Requests /\ got \in 0..LongReply /\ rx \in Seq(Byte) /\ reply \in Seq(Byte)
      /\ pc = "read" /\ (got = ReplyLength(req) \/ rx = <<>>)
  BY DEF TypeOK, ReadEnd, ReadLength, Stops
<1>2. pc' = "check" /\ got' = 0 /\ UNCHANGED <<req, temp, value, rx, reply, whole, late>>
  BY DEF ReadEnd
<1>3. answered' \in SUBSET Requests
  BY <1>1 DEF ReadEnd, TypeOK
<1>4. TypeOK'
  BY <1>1, <1>2, <1>3, Lengths DEF TypeOK
<1>5. Len(rx) \in Nat /\ Len(reply) \in Nat /\ Reading /\ ~Reading'
  BY <1>1, <1>2 DEF Reading
<1>6. Unread <= LongReply /\ (~late => rx = <<>>)
  BY <1>1, <1>5, Lengths DEF BacklogInv, Unread
<1>7. BacklogInv'
  <2>1. Unread' <= LongReply /\ (~late' => rx' = <<>>) /\ Len(reply') <= LongReply
    BY <1>2, <1>6 DEF Unread, BacklogInv
  <2>2. got' = 0 /\ got' <= ReplyLength(req')
    BY <1>1, <1>2, Lengths
  <2> QED
    BY <2>1, <2>2, <1>5 DEF BacklogInv
<1> QED
  BY <1>4, <1>7

LEMMA CheckSize ==
    ASSUME SizeInv, Check
    PROVE  SizeInv'
<1> USE DEF SizeInv
<1>1. pc = "check" /\ pc' \in {"request", "send"} /\ req' = Following
      /\ UNCHANGED <<got, rx, reply, whole, answered, late>>
  BY DEF Check
<1>2. req \in Requests /\ req' \in Requests
  BY <1>1 DEF TypeOK, Requests, Following
<1>3. temp' \in [1..LongReply -> Byte]
  BY GarbageType DEF Check, TypeOK
<1>4. 1 \in 1..LongReply
  BY ReplyAssumption
<1>5. value' \in [Requests -> Value]
  <2>1. [of |-> temp[1].of, round |-> temp[1].round] \in Value
    BY <1>4 DEF TypeOK, Byte, Value
  <2> QED
    BY <2>1 DEF Check, TypeOK
<1>6. TypeOK'
  BY <1>1, <1>2, <1>3, <1>5 DEF TypeOK
<1>7. BacklogInv'
  BY <1>1, <1>2, Lengths DEF BacklogInv, Reading, Unread
<1> QED
  BY <1>6, <1>7

\* What is left an hour later has grown old, not fewer.
LEMMA SendSize ==
    ASSUME SizeInv, Send
    PROVE  SizeInv' /\ (rx = <<>> => rx' = <<>>)
<1> USE DEF SizeInv
<1>1. pc = "send" /\ pc' = "request" /\ answered' = {} /\ reply = <<>>
      /\ UNCHANGED <<req, got, reply, whole, late>>
  BY DEF Send
<1>2. rx \in Seq(Byte) /\ Len(rx) \in Nat /\ \A i \in 1..Len(rx) : rx[i] \in Byte
  BY DEF TypeOK
<1>3. \A b \in Byte : Aged(b) \in Byte
  BY DEF Aged, Byte, Rounds
<1>4. rx' = [i \in 1..Len(rx) |-> Aged(rx[i])]
  BY DEF Send
<1>5. rx' \in [1..Len(rx) -> Byte]
  BY <1>2, <1>3, <1>4
<1>6. rx' \in Seq(Byte) /\ Len(rx') = Len(rx)
  BY <1>2, <1>4, <1>5
<1>7. temp' \in [1..LongReply -> Byte]
  BY <1>3 DEF Send, TypeOK
<1>8. \A v \in Value : Aged(v) \in Value
  BY DEF Aged, Value, Rounds
<1>9. value' \in [Requests -> Value]
  BY <1>8 DEF Send, TypeOK
<1>10. TypeOK'
  BY <1>1, <1>6, <1>7, <1>9 DEF TypeOK
<1>11. rx = <<>> => rx' = <<>>
  BY <1>2, <1>6
<1>12. BacklogInv'
  <2>1. Unread' = Unread /\ ~Reading /\ ~Reading'
    BY <1>1, <1>6 DEF Unread, Reading
  <2> QED
    BY <2>1, <1>1, <1>11 DEF BacklogInv
<1> QED
  BY <1>10, <1>11, <1>12

LEMMA NextSize == SizeInv /\ [Next]_vars => SizeInv'
<1> SUFFICES ASSUME SizeInv, [Next]_vars PROVE SizeInv'
  OBVIOUS
<1>1. CASE Line
  BY <1>1, ByteComesSize, ByteLostSize DEF Line
<1>2. CASE Thread
  BY <1>2, RequestSize, DelaySize, ReadByteSize, ReadEndSize, CheckSize, SendSize
  DEF Thread
<1>3. CASE UNCHANGED vars
  BY <1>3 DEF vars, SizeInv, TypeOK, BacklogInv, Reading, Unread
<1> QED
  BY <1>1, <1>2, <1>3 DEF Next

THEOREM SizeInvariance == Spec => []SizeInv
<1>1. Init => SizeInv
  BY InitSize
<1>2. SizeInv /\ [Next]_vars => SizeInv'
  BY NextSize
<1> QED
  BY <1>1, <1>2, PTL DEF Spec

\* Type correctness of BYH_M.
THEOREM TypeCorrect == Spec => []TypeOK
<1>1. SizeInv => TypeOK
  BY DEF SizeInv
<1> QED
  BY <1>1, SizeInvariance, PTL

\* No reply, however late, makes the receive FIFO overflow.
THEOREM BacklogIsBounded == Spec => []BacklogBounded
<1>1. SizeInv => BacklogBounded
  <2> SUFFICES ASSUME SizeInv PROVE BacklogBounded
    OBVIOUS
  <2>1. req \in Requests /\ got \in 0..LongReply /\ Len(rx) \in Nat /\ Len(reply) \in Nat
        /\ (reply # <<>> => Len(reply) > 0)
    BY DEF SizeInv, TypeOK
  <2>2. pc = "request" /\ reply = <<>> => Len(rx) <= LongReply
    BY <2>1 DEF SizeInv, BacklogInv, Reading, Unread
  <2>3. reply # <<>> => Len(rx) < Capacity
    BY <2>1, Lengths DEF SizeInv, BacklogInv, Unread
  <2> QED
    BY <2>2, <2>3 DEF BacklogBounded
<1> QED
  BY <1>1, SizeInvariance, PTL

\* Nothing is left when a request goes out, until a byte has come too late.
THEOREM AlignedRequests == Spec => []AlignedUntilLate
<1>1. SizeInv => AlignedUntilLate
  BY DEF SizeInv, BacklogInv, Reading, AlignedUntilLate
<1> QED
  BY <1>1, SizeInvariance, PTL

-----------------------------------------------------------------------------
(* Until a byte comes too late: which bytes are where.                     *)

Earlier(k) == IF k = "humiture" THEN {}
              ELSE IF k = "noise" THEN {"humiture"} ELSE {"humiture", "noise"}

\* The requests of this round whose replies are checked, and those made.
Done  == IF pc = "send" THEN Requests ELSE Earlier(req)
Asked == IF pc \in {"delay", "read", "check"} THEN Done \cup {req} ELSE Done

\* Byte i of the reply to the request under way.
Own(i)  == [of |-> req, place |-> i, round |-> "this"]
Settled(k) == k \in answered <=> value[k] = [of |-> k, round |-> "this"]

ValuesInv ==
    /\ \A k \in Done : Settled(k)
    /\ \A k \in Requests \ Done : value[k].round # "this"
    /\ answered \subseteq Done \cup (IF pc = "check" THEN {req} ELSE {})

\* What is new in temp is from a request of this round, and beyond got from
\* one of those before.
TempInv ==
    \A i \in 1..LongReply : temp[i].round = "this" =>
        temp[i].of \in IF Reading /\ i > got THEN Done ELSE Asked

\* The bytes of the reply under way are in order; it is whole if all of them
\* are there, and else one is missing or damaged.
ReplyInv ==
    /\ \A i \in 1..Len(reply) : reply[i] = Own(ReplyLength(req) - Len(reply) + i)
    /\ \A i \in 1..Len(rx) : rx[i] = Garbage \/ rx[i].of = req
    /\ whole => /\ Unread + got = ReplyLength(req)
                /\ \A i \in 1..got : temp[i] = Own(i)
                /\ \A i \in 1..Len(rx) : rx[i] = Own(got + i)
    /\ ~whole => \/ Unread + got < ReplyLength(req)
                 \/ \E i \in 1..got : temp[i] = Garbage
                 \/ \E i \in 1..Len(rx) : rx[i] = Garbage

CheckInv == req \in answered <=> \A i \in 1..ReplyLength(req) : temp[i] = Own(i)

FreshInv == ~late => /\ ValuesInv /\ TempInv
                     /\ Reading => ReplyInv
                     /\ pc = "check" => CheckInv

LEMMA RequestOrder ==
    ASSUME NEW k \in Requests
    PROVE  Earlier(k) \subseteq Requests /\ k \notin Earlier(k)
BY DEF Requests, Earlier

LEMMA InitFresh == Init => FreshInv
<1> SUFFICES ASSUME Init PROVE FreshInv
  OBVIOUS
<1>1. ValuesInv
  BY DEF Init, ValuesInv, Done, Earlier, NoValue
<1>2. TempInv
  BY DEF Init, TempInv, Garbage
<1> QED
  BY <1>1, <1>2 DEF FreshInv, Init, Reading

\* A byte that comes in time goes behind those of its reply.
LEMMA ByteComesFresh ==
    ASSUME SizeInv, FreshInv, ByteComes
    PROVE  FreshInv'
<1>1. SUFFICES ASSUME ~late' PROVE FreshInv'
  BY DEF FreshInv
<1>2. ~late /\ Reading /\ Reading' /\ pc' # "check"
  BY <1>1 DEF ByteComes, Reading
<1>3. ValuesInv /\ TempInv /\ ReplyInv
  BY <1>2 DEF FreshInv
<1>4. UNCHANGED <<pc, req, got, temp, value, answered>>
  BY DEF ByteComes
<1>5. ValuesInv' /\ TempInv'
  <2>1. ValuesInv'
    BY <1>3, <1>4 DEF ValuesInv, Done, Settled
  <2>2. TempInv'
    BY <1>3, <1>4 DEF TempInv, Done, Asked, Reading
  <2> QED
    BY <2>1, <2>2
<1>6. req \in Requests /\ got \in Nat /\ rx \in Seq(Byte) /\ reply \in Seq(Byte)
      /\ reply # <<>> /\ ReplyLength(req) \in Nat
  BY Lengths DEF SizeInv, TypeOK, ByteComes
<1>7. PICK b \in {Head(reply), Garbage} :
        rx' = Append(rx, b) /\ whole' = (whole /\ b = Head(reply))
  BY ByteComesSize
<1>8. Len(rx') = Len(rx) + 1 /\ Len(reply') = Len(reply) - 1 /\ Unread' = Unread
      /\ Len(rx) \in Nat /\ Len(reply) \in Nat /\ Len(reply) > 0
  <2>1. Len(rx') = Len(rx) + 1 /\ Len(reply') = Len(reply) - 1
    BY ByteComesSize
  <2>2. Len(rx) \in Nat /\ Len(reply) \in Nat /\ Len(reply) > 0
    BY <1>6
  <2> QED
    BY <2>1, <2>2 DEF Unread
<1>9. /\ \A i \in 1..Len(rx) : rx'[i] = rx[i]
      /\ rx'[Len(rx) + 1] = b
  BY <1>6, <1>7
<1>10. /\ \A i \in 1..Len(reply') : reply'[i] = reply[i + 1]
       /\ Head(reply) = reply[1]
  BY <1>6, <1>8 DEF ByteComes
<1>11. Head(reply) = Own(ReplyLength(req) - Len(reply) + 1)
  BY <1>3, <1>8, <1>10 DEF ReplyInv
<1>12. \A j : Own(j)' = Own(j)
  BY <1>4 DEF Own
<1>13. Head(reply) # Garbage
  BY <1>11 DEF Own, Garbage
<1>14. ReplyInv'
  <2>1. \A i \in 1..Len(reply') : reply'[i] = Own(ReplyLength(req) - Len(reply') + i)
    <3> TAKE i \in 1..Len(reply')
    <3>1. i + 1 \in 1..Len(reply) /\ ReplyLength(req) - Len(reply) + (i + 1)
                                     = ReplyLength(req) - Len(reply') + i
      BY <1>6, <1>8
    <3>2. reply[i + 1] = Own(ReplyLength(req) - Len(reply) + (i + 1))
      BY <1>3, <3>1 DEF ReplyInv
    <3> QED
      BY <1>10, <3>1, <3>2
  <2>2. b = Garbage \/ b.of = req
    BY <1>7, <1>11 DEF Own
  <2>3. \A i \in 1..Len(rx') : rx'[i] = Garbage \/ rx'[i].of = req
    <3> TAKE i \in 1..Len(rx')
    <3>1. i \in 1..Len(rx) \/ i = Len(rx) + 1
      BY <1>8
    <3> QED
      BY <1>3, <1>9, <2>2, <3>1 DEF ReplyInv
  <2>4. whole' => /\ Unread' + got = ReplyLength(req)
                  /\ \A i \in 1..got : temp[i] = Own(i)
                  /\ \A i \in 1..Len(rx') : rx'[i] = Own(got + i)
    <3> SUFFICES ASSUME whole'
                 PROVE  /\ Unread' + got = ReplyLength(req)
                        /\ \A i \in 1..got : temp[i] = Own(i)
                        /\ \A i \in 1..Len(rx') : rx'[i] = Own(got + i)
      OBVIOUS
    <3>1. whole /\ b = Head(reply)
      BY <1>7
    <3>2. Unread + got = ReplyLength(req) /\ \A i \in 1..got : temp[i] = Own(i)
      BY <1>3, <3>1 DEF ReplyInv
    <3>3. ReplyLength(req) - Len(reply) + 1 = got + (Len(rx) + 1)
      BY <1>6, <1>8, <3>2 DEF Unread
    <3>4. b = Own(got + (Len(rx) + 1))
      BY <1>11, <3>1, <3>3
    <3>5. \A i \in 1..Len(rx) : rx[i] = Own(got + i)
      BY <1>3, <3>1 DEF ReplyInv
    <3>6. \A i \in 1..Len(rx') : rx'[i] = Own(got + i)
      <4> TAKE i \in 1..Len(rx')
      <4>1. i \in 1..Len(rx) \/ i = Len(rx) + 1
        BY <1>8
      <4> QED
        BY <1>9, <3>4, <3>5, <4>1
    <3> QED
      BY <1>8, <3>2, <3>6
  <2>5. ~whole' => \/ Unread' + got < ReplyLength(req)
                   \/ \E i \in 1..got : temp[i] = Garbage
                   \/ \E i \in 1..Len(rx') : rx'[i] = Garbage
    <3>1. CASE b = Garbage
      <4>1. Len(rx) + 1 \in 1..Len(rx') /\ rx'[Len(rx) + 1] = Garbage
        BY <1>8, <1>9, <3>1
      <4> QED
        BY <4>1
    <3>2. CASE b # Garbage /\ ~whole'
      <4>1. ~whole
        BY <1>7, <3>2
      <4>2. \/ Unread + got < ReplyLength(req)
            \/ \E i \in 1..got : temp[i] = Garbage
            \/ \E i \in 1..Len(rx) : rx[i] = Garbage
        BY <1>3, <4>1 DEF ReplyInv
      <4>3. \A i \in 1..Len(rx) : i \in 1..Len(rx')
        BY <1>8
      <4> QED
        BY <1>8, <1>9, <4>2, <4>3
    <3> QED
      BY <3>1, <3>2
  <2>6. UNCHANGED <<ReplyLength(req), got, temp, req>>
    BY <1>4 DEF ReplyLength
  <2> QED
    BY <1>12, <2>1, <2>3, <2>4, <2>5, <2>6 DEF ReplyInv
<1> QED
  BY <1>2, <1>5, <1>14 DEF FreshInv

\* A lost byte is missing for good.
LEMMA ByteLostFresh ==
    ASSUME SizeInv, FreshInv, ByteLost
    PROVE  FreshInv'
<1>1. SUFFICES ASSUME ~late' PROVE FreshInv'
  BY DEF FreshInv
<1>2. UNCHANGED <<pc, req, got, temp, value, rx, answered, late>> /\ whole' = FALSE
  BY DEF ByteLost
<1>3. ValuesInv /\ TempInv /\ (Reading => ReplyInv) /\ (pc = "check" => CheckInv) /\ ~late
  BY <1>1, <1>2 DEF FreshInv
<1>4. ValuesInv'
  BY <1>2, <1>3 DEF ValuesInv, Done, Settled
<1>5. TempInv'
  BY <1>2, <1>3 DEF TempInv, Done, Asked, Reading
<1>6. pc' = "check" => CheckInv'
  BY <1>2, <1>3 DEF CheckInv, Own, ReplyLength
<1>7. ASSUME Reading PROVE ReplyInv'
  <2>1. req \in Requests /\ got \in Nat /\ rx \in Seq(Byte) /\ reply \in Seq(Byte)
        /\ reply # <<>> /\ ReplyLength(req) \in Nat /\ Len(rx) \in Nat
        /\ Len(reply) \in Nat /\ Len(reply) > 0
    BY Lengths DEF SizeInv, TypeOK, ByteLost
  <2>2. Len(reply') = Len(reply) - 1
    BY ByteLostSize
  <2>3. \A i \in 1..Len(reply') : reply'[i] = reply[i + 1]
    BY <2>1, <2>2 DEF ByteLost
  <2>4. \A i \in 1..Len(reply') : reply'[i] = Own(ReplyLength(req) - Len(reply') + i)
    <3> TAKE i \in 1..Len(reply')
    <3>1. i + 1 \in 1..Len(reply) /\ ReplyLength(req) - Len(reply) + (i + 1)
                                     = ReplyLength(req) - Len(reply') + i
      BY <2>1, <2>2
    <3>2. reply[i + 1] = Own(ReplyLength(req) - Len(reply) + (i + 1))
      BY <1>3, <1>7, <3>1 DEF ReplyInv
    <3> QED
      BY <2>3, <3>1, <3>2
  <2>5. Unread + got <= ReplyLength(req)
    BY <1>3, <1>7 DEF SizeInv, BacklogInv
  <2>6. Unread' + got < ReplyLength(req)
    BY <1>2, <2>1, <2>2, <2>5 DEF Unread
  <2>7. \A j : Own(j)' = Own(j)
    BY <1>2 DEF Own
  <2>8. \A i \in 1..Len(rx) : rx[i] = Garbage \/ rx[i].of = req
    BY <1>3, <1>7 DEF ReplyInv
  <2> QED
    BY <1>2, <2>4, <2>6, <2>7, <2>8 DEF ReplyInv, ReplyLength
<1> QED
  BY <1>2, <1>4, <1>5, <1>6, <1>7 DEF FreshInv, Reading

\* A request goes out with nothing left of the others.
LEMMA RequestFresh ==
    ASSUME SizeInv, FreshInv, Request
    PROVE  FreshInv'
<1>1. SUFFICES ASSUME ~late' PROVE FreshInv'
  BY DEF FreshInv
<1>2. pc = "request" /\ pc' = "delay" /\ reply = <<>> /\ reply' = Reply(req)
      /\ whole' = TRUE /\ UNCHANGED <<req, got, temp, value, rx, answered, late>>
  BY DEF Request
<1>3. ValuesInv /\ TempInv /\ ~late
  BY <1>1, <1>2 DEF FreshInv
<1>4. got = 0 /\ rx = <<>> /\ req \in Requests
  BY <1>2, <1>3 DEF SizeInv, TypeOK, BacklogInv, Reading
<1>5. ValuesInv'
  BY <1>2, <1>3 DEF ValuesInv, Done, Settled
<1>6. TempInv'
  BY <1>2, <1>3, <1>4 DEF TempInv, Done, Asked, Reading
<1>7. Len(reply') = ReplyLength(req) /\ ReplyLength(req) \in Nat
  BY <1>2, <1>4, Lengths
<1>8. Unread' + got' = ReplyLength(req)
  BY <1>2, <1>4, <1>7 DEF Unread
<1>9. \A i \in 1..Len(reply') : reply'[i] = Own(i)
  BY <1>2, <1>7 DEF Reply, Own
<1>10. ReplyInv'
  <2>1. \A i \in 1..Len(reply') : ReplyLength(req) - Len(reply') + i = i
    BY <1>7
  <2>2. \A j : Own(j)' = Own(j)
    BY <1>2 DEF Own
  <2>3. ReplyLength(req)' = ReplyLength(req)
    BY <1>2 DEF ReplyLength
  <2>4. \A i \in 1..Len(reply') : reply'[i] = Own(ReplyLength(req) - Len(reply') + i)
    BY <1>9, <2>1, <2>2, <2>3
  <2>5. Len(rx') = 0 /\ got' = 0 /\ 1..0 = {}
    BY <1>2, <1>4
  <2> QED
    BY <1>2, <1>8, <2>2, <2>3, <2>4, <2>5 DEF ReplyInv
<1> QED
  BY <1>2, <1>5, <1>6, <1>10 DEF FreshInv

LEMMA DelayFresh ==
    ASSUME SizeInv, FreshInv, Delay
    PROVE  FreshInv'
<1>1. pc = "delay" /\ pc' = "read"
      /\ UNCHANGED <<req, got, temp, value, rx, reply, whole, answered, late>>
  BY DEF Delay
<1> QED
  BY <1>1 DEF FreshInv, ValuesInv, TempInv, ReplyInv, Done, Asked, Reading, Settled,
              Own, Unread, ReplyLength

\* The next byte goes to its place in temp.
LEMMA ReadByteFresh ==
    ASSUME SizeInv, FreshInv, ReadByte
    PROVE  FreshInv'
<1>1. SUFFICES ASSUME ~late' PROVE FreshInv'
  BY DEF FreshInv
<1>2. pc = "read" /\ temp' = [temp EXCEPT ![got + 1] = Head(rx)] /\ rx' = Tail(rx)
      /\ rx # <<>> /\ UNCHANGED <<pc, req, value, reply, whole, answered, late>>
  BY DEF ReadByte
<1>3. ValuesInv /\ TempInv /\ ReplyInv /\ Reading /\ Reading'
  BY <1>1, <1>2 DEF FreshInv, Reading
<1>4. got' = got + 1 /\ got \in Nat /\ got < ReplyLength(req)
      /\ Len(rx') = Len(rx) - 1 /\ Len(rx) \in Nat /\ Len(rx) > 0
  BY ReadByteSize
<1>5. req \in Requests /\ rx \in Seq(Byte) /\ reply \in Seq(Byte) /\ Len(reply) \in Nat
      /\ ReplyLength(req) \in Nat /\ LongReply \in Nat /\ ReplyLength(req) <= LongReply
      /\ temp \in [1..LongReply -> Byte]
  BY Lengths DEF SizeInv, TypeOK
<1>6. \A i \in 1..Len(rx') : rx'[i] = rx[i + 1] /\ i + 1 \in 1..Len(rx)
  BY <1>2, <1>4, <1>5
<1>7. Head(rx) = rx[1] /\ 1 \in 1..Len(rx)
  BY <1>2, <1>4, <1>5
<1>8. got + 1 \in 1..LongReply /\ temp'[got + 1] = rx[1]
      /\ \A i \in 1..LongReply : i # got + 1 => temp'[i] = temp[i]
  BY <1>2, <1>4, <1>5, <1>7
<1>9. Unread' + got' = Unread + got
  BY <1>2, <1>4, <1>5 DEF Unread
<1>10. \A j : Own(j)' = Own(j)
  BY <1>2 DEF Own
<1>11. ReplyLength(req)' = ReplyLength(req)
  BY <1>2 DEF ReplyLength
<1>12. ValuesInv'
  BY <1>2, <1>3 DEF ValuesInv, Done, Settled
<1>13. TempInv'
  <2>1. Done' = Done /\ Asked' = Asked /\ req \in Asked /\ Done \subseteq Asked
    BY <1>2 DEF Done, Asked
  <2> SUFFICES ASSUME NEW i \in 1..LongReply, temp'[i].round = "this"
               PROVE  temp'[i].of \in IF i > got' THEN Done ELSE Asked
    BY <1>3, <2>1 DEF TempInv
  <2>2. CASE i = got + 1
    <3>1. rx[1].of = req
      BY <1>3, <1>7, <1>8, <2>2 DEF ReplyInv, Garbage
    <3> QED
      BY <1>4, <1>8, <2>1, <2>2, <3>1
  <2>3. CASE i # got + 1
    <3>1. temp'[i] = temp[i] /\ temp[i].of \in IF i > got THEN Done ELSE Asked
      BY <1>3, <1>8, <2>3 DEF TempInv
    <3>2. i > got' => i > got
      BY <1>4
    <3> QED
      BY <2>1, <3>1, <3>2
  <2> QED
    BY <2>2, <2>3
<1>14. ReplyInv'
  <2>1. \A i \in 1..Len(reply') : reply'[i] = Own(ReplyLength(req) - Len(reply') + i)
    BY <1>2, <1>3, <1>10, <1>11 DEF ReplyInv
  <2>2. \A i \in 1..Len(rx') : rx'[i] = Garbage \/ rx'[i].of = req'
    BY <1>2, <1>3, <1>6 DEF ReplyInv
  <2>3. ASSUME whole
        PROVE  /\ Unread' + got' = ReplyLength(req)
               /\ \A i \in 1..got' : temp'[i] = Own(i)
               /\ \A i \in 1..Len(rx') : rx'[i] = Own(got' + i)
    <3>1. /\ Unread + got = ReplyLength(req)
          /\ \A i \in 1..got : temp[i] = Own(i)
          /\ \A i \in 1..Len(rx) : rx[i] = Own(got + i)
      BY <1>3, <2>3 DEF ReplyInv
    <3>2. \A i \in 1..got' : temp'[i] = Own(i)
      <4> TAKE i \in 1..got'
      <4>1. i \in 1..LongReply /\ (i = got + 1 \/ i \in 1..got)
        BY <1>4, <1>5
      <4>2. CASE i = got + 1
        BY <1>7, <1>8, <3>1, <4>2
      <4>3. CASE i \in 1..got
        <5>1. i # got + 1
          BY <1>4, <4>3
        <5> QED
          BY <1>8, <3>1, <4>1, <4>3, <5>1
      <4> QED
        BY <4>1, <4>2, <4>3
    <3>3. \A i \in 1..Len(rx') : rx'[i] = Own(got' + i)
      <4> TAKE i \in 1..Len(rx')
      <4>1. got + (i + 1) = got' + i
        BY <1>4
      <4>2. rx[i + 1] = Own(got + (i + 1))
        BY <1>6, <3>1
      <4> QED
        BY <1>6, <4>1, <4>2
    <3> QED
      BY <1>9, <3>1, <3>2, <3>3
  <2>4. ASSUME ~whole
        PROVE  \/ Unread' + got' < ReplyLength(req)
               \/ \E i \in 1..got' : temp'[i] = Garbage
               \/ \E i \in 1..Len(rx') : rx'[i] = Garbage
    <3>1. CASE Unread + got < ReplyLength(req)
      BY <1>9, <3>1
    <3>2. CASE \E i \in 1..got : temp[i] = Garbage
      <4>1. PICK i \in 1..got : temp[i] = Garbage
        BY <3>2
      <4>2. i \in 1..got' /\ i \in 1..LongReply /\ i # got + 1
        BY <1>4, <1>5
      <4> QED
        BY <1>8, <4>1, <4>2
    <3>3. CASE \E i \in 1..Len(rx) : rx[i] = Garbage
      <4>1. PICK i \in 1..Len(rx) : rx[i] = Garbage
        BY <3>3
      <4>2. CASE i = 1
        <5>1. got + 1 \in 1..got' /\ temp'[got + 1] = Garbage
          BY <1>4, <1>8, <4>1, <4>2
        <5> QED
          BY <5>1
      <4>3. CASE i # 1
        <5>1. i - 1 \in 1..Len(rx') /\ (i - 1) + 1 = i
          BY <1>4, <4>3
        <5>2. rx'[i - 1] = Garbage
          BY <1>6, <4>1, <5>1
        <5> QED
          BY <5>1, <5>2
      <4> QED
        BY <4>2, <4>3
    <3> QED
      BY <1>3, <2>4, <3>1, <3>2, <3>3 DEF ReplyInv
  <2> QED
    BY <1>2, <1>10, <1>11, <2>1, <2>2, <2>3, <2>4 DEF ReplyInv
<1> QED
  BY <1>2, <1>3, <1>12, <1>13, <1>14 DEF FreshInv

\* What has been read is the whole reply exactly if it was answered.
LEMMA ReadEndFresh ==
    ASSUME SizeInv, FreshInv, ReadEnd
    PROVE  FreshInv'
<1>1. SUFFICES ASSUME ~late' PROVE FreshInv'
  BY DEF FreshInv
<1>2. pc = "read" /\ pc' = "check" /\ (got = ReplyLength(req) \/ rx = <<>>)
      /\ UNCHANGED <<req, temp, value, rx, reply, whole, late>>
      /\ answered' = IF whole /\ reply = <<>> THEN answered \cup {req} ELSE answered
  BY DEF ReadEnd, ReadLength, Stops
<1>3. ValuesInv /\ TempInv /\ ReplyInv /\ Reading /\ ~Reading'
  BY <1>1, <1>2 DEF FreshInv, Reading
<1>4. req \in Requests /\ got \in Nat /\ Len(rx) \in Nat /\ Len(reply) \in Nat
      /\ ReplyLength(req) \in Nat /\ ReplyLength(req) > 0 /\ ReplyLength(req) <= LongReply
      /\ LongReply \in Nat /\ rx \in Seq(Byte) /\ reply \in Seq(Byte)
  BY Lengths DEF SizeInv, TypeOK
<1>5. Unread + got <= ReplyLength(req)
  BY <1>1, <1>2, <1>3 DEF SizeInv, BacklogInv
<1>6. Done' = Done /\ req \notin Done /\ req \notin answered
  BY <1>2, <1>3, <1>4, RequestOrder DEF Done, ValuesInv
<1>7. ValuesInv'
  BY <1>2, <1>3, <1>6 DEF ValuesInv, Settled
<1>8. TempInv'
  <2>1. Asked' = Asked /\ Done \subseteq Asked
    BY <1>2, <1>6 DEF Asked
  <2> QED
    BY <1>2, <1>3, <2>1 DEF TempInv
<1>9. CASE whole /\ reply = <<>>
  <2>1. Len(reply) = 0 /\ Unread + got = ReplyLength(req)
    BY <1>3, <1>9 DEF ReplyInv
  <2>2. got = ReplyLength(req)
    BY <1>2, <1>4, <2>1 DEF Unread
  <2>3. \A i \in 1..ReplyLength(req) : temp[i] = Own(i)
    BY <1>3, <1>9, <2>2 DEF ReplyInv
  <2> QED
    BY <1>2, <1>7, <1>8, <1>9, <2>3 DEF FreshInv, CheckInv, Own, Reading, ReplyLength
<1>10. CASE ~(whole /\ reply = <<>>)
  <2>1. \E i \in 1..ReplyLength(req) : temp[i] # Own(i)
    <3>1. ASSUME got < ReplyLength(req)
          PROVE  \E i \in 1..ReplyLength(req) : temp[i] # Own(i)
      <4>1. got + 1 \in 1..LongReply /\ got + 1 \in 1..ReplyLength(req) /\ got + 1 > got
        BY <1>4, <3>1
      <4>2. temp[got + 1].round = "this" => temp[got + 1].of \in Done
        BY <1>3, <4>1 DEF TempInv
      <4>3. temp[got + 1] # Own(got + 1)
        BY <1>6, <4>2 DEF Own
      <4> QED
        BY <4>1, <4>3
    <3>2. ASSUME got = ReplyLength(req)
          PROVE  \E i \in 1..ReplyLength(req) : temp[i] # Own(i)
      <4>1. Len(rx) = 0 /\ Len(reply) = 0
        BY <1>4, <1>5, <3>2 DEF Unread
      <4>2. ~whole
        BY <1>4, <1>10, <4>1
      <4>3. Unread + got = ReplyLength(req)
        BY <3>2, <4>1, <1>4 DEF Unread
      <4>4. \E i \in 1..got : temp[i] = Garbage
        BY <1>3, <1>4, <4>1, <4>2, <4>3 DEF ReplyInv
      <4> QED
        BY <3>2, <4>4 DEF Own, Garbage
    <3>3. got < ReplyLength(req) \/ got = ReplyLength(req)
      BY <1>4 DEF SizeInv, BacklogInv
    <3> QED
      BY <3>1, <3>2, <3>3
  <2>2. req \notin answered'
    BY <1>2, <1>6, <1>10
  <2> QED
    BY <1>2, <1>7, <1>8, <2>1, <2>2 DEF FreshInv, CheckInv, Own, Reading, ReplyLength
<1> QED
  BY <1>9, <1>10

\* A check that succeeds with new values of its own request is the one of an
\* answered request.
LEMMA CheckFresh ==
    ASSUME SizeInv, FreshInv, Check
    PROVE  FreshInv'
<1>1. SUFFICES ASSUME ~late' PROVE FreshInv'
  BY DEF FreshInv
<1>2. pc = "check" /\ req' = Following /\ pc' = (IF req = "pm" THEN "send" ELSE "request")
      /\ value' = (IF CrcMatches
                   THEN [value EXCEPT ![req] = [of |-> temp[1].of, round |-> temp[1].round]]
                   ELSE value)
      /\ (temp' = temp \/ temp' = [i \in 1..LongReply |-> Garbage])
      /\ UNCHANGED <<got, rx, reply, whole, answered, late>>
  BY DEF Check
<1>3. ValuesInv /\ TempInv /\ CheckInv /\ ~Reading /\ ~Reading' /\ pc' # "check"
  BY <1>1, <1>2 DEF FreshInv, Reading
<1>4. req \in Requests /\ value \in [Requests -> Value] /\ 1 \in 1..ReplyLength(req)
  BY Lengths DEF SizeInv, TypeOK
<1>5. Done = Earlier(req) /\ Done' = Done \cup {req} /\ req \notin Done
      /\ Done \subseteq Requests
  BY <1>2, <1>4, RequestOrder DEF Done, Earlier, Following, Requests
<1>6. Asked = Done \cup {req} /\ Asked' = Done'
  BY <1>2 DEF Asked
<1>7. TempInv'
  <2>1. CASE temp' = temp
    BY <1>3, <1>5, <1>6, <2>1 DEF TempInv
  <2>2. CASE temp' = [i \in 1..LongReply |-> Garbage]
    BY <2>2 DEF TempInv, Garbage
  <2> QED
    BY <1>2, <2>1, <2>2
<1>8. value'[req] = [of |-> req, round |-> "this"]
        <=> \A i \in 1..ReplyLength(req) : temp[i] = Own(i)
  <2>1. ASSUME \A i \in 1..ReplyLength(req) : temp[i] = Own(i)
        PROVE  value'[req] = [of |-> req, round |-> "this"]
    <3>1. temp[1] = Own(1)
      BY <1>4, <2>1
    <3>2. CrcMatches
      <4>1. temp[1].round = "this"
        BY <3>1 DEF Own
      <4>2. \A i \in 1..ReplyLength(req) :
              temp[i] = [of |-> req, place |-> i, round |-> temp[1].round]
        BY <2>1, <4>1 DEF Own
      <4> QED
        BY <1>4, <4>2 DEF CrcMatches, ReadLength
    <3> QED
      BY <1>2, <1>4, <3>1, <3>2 DEF Own
  <2>2. ASSUME value'[req] = [of |-> req, round |-> "this"]
        PROVE  \A i \in 1..ReplyLength(req) : temp[i] = Own(i)
    <3>1. value[req].round # "this"
      BY <1>3, <1>4, <1>5 DEF ValuesInv
    <3>2. CrcMatches /\ temp[1].of = req /\ temp[1].round = "this"
      BY <1>2, <1>4, <2>2, <3>1
    <3>3. PICK k \in Requests : \A i \in 1..ReplyLength(req) :
            temp[i] = [of |-> k, place |-> i, round |-> temp[1].round]
      BY <3>2 DEF CrcMatches, ReadLength
    <3>4. temp[1] = [of |-> k, place |-> 1, round |-> temp[1].round]
      BY <1>4, <3>3
    <3>5. k = req
      BY <3>2, <3>4
    <3> QED
      BY <3>2, <3>3, <3>5 DEF Own
  <2> QED
    BY <2>1, <2>2
<1>9. ValuesInv'
  <2>1. \A k \in Requests : k # req => value'[k] = value[k]
    BY <1>2, <1>4
  <2>2. \A k \in Done' : k \in answered' <=> value'[k] = [of |-> k, round |-> "this"]
    <3> TAKE k \in Done'
    <3>1. CASE k = req
      BY <1>2, <1>3, <1>8, <3>1 DEF CheckInv
    <3>2. CASE k # req
      <4>1. k \in Done /\ value'[k] = value[k]
        BY <1>5, <2>1, <3>2
      <4> QED
        BY <1>2, <1>3, <4>1 DEF ValuesInv, Settled
    <3> QED
      BY <3>1, <3>2
  <2>3. \A k \in Requests \ Done' : value'[k].round # "this"
    <3> TAKE k \in Requests \ Done'
    <3>1. k # req /\ k \in Requests \ Done
      BY <1>5
    <3> QED
      BY <1>3, <2>1, <3>1 DEF ValuesInv
  <2>4. answered' \subseteq Done'
    BY <1>2, <1>3, <1>5 DEF ValuesInv
  <2> QED
    BY <1>3, <2>2, <2>3, <2>4 DEF ValuesInv, Settled
<1> QED
  BY <1>3, <1>7, <1>9 DEF FreshInv

\* An hour later nothing is new.
LEMMA SendFresh ==
    ASSUME SizeInv, FreshInv, Send
    PROVE  FreshInv'
<1>1. pc = "send" /\ pc' = "request" /\ answered' = {} /\ req' = req
  BY DEF Send
<1>2. \A b : b.round = "this" => Aged(b) = [b EXCEPT !.round = "old"]
  BY DEF Aged
<1>3. \A b \in Byte : Aged(b).round # "this"
  BY DEF Aged, Byte
<1>4. \A v \in Value : Aged(v).round # "this"
  BY DEF Aged, Value
<1>5. \A i \in 1..LongReply : temp'[i].round # "this"
  BY <1>3 DEF Send, SizeInv, TypeOK
<1>6. \A k \in Requests : value'[k].round # "this"
  BY <1>4 DEF Send, SizeInv, TypeOK
<1>7. Done' \subseteq Requests
  BY <1>1, RequestOrder DEF Done, SizeInv, TypeOK
<1>8. ValuesInv'
  BY <1>1, <1>6, <1>7 DEF ValuesInv, Settled
<1>9. TempInv'
  BY <1>5 DEF TempInv
<1> QED
  BY <1>1, <1>8, <1>9 DEF FreshInv, Reading

LEMMA NextFresh == SizeInv /\ FreshInv /\ [Next]_vars => FreshInv'
<1> SUFFICES ASSUME SizeInv, FreshInv, [Next]_vars PROVE FreshInv'
  OBVIOUS
<1>1. CASE Line
  BY <1>1, ByteComesFresh, ByteLostFresh DEF Line
<1>2. CASE Thread
  BY <1>2, RequestFresh, DelayFresh, ReadByteFresh, ReadEndFresh, CheckFresh, SendFresh
  DEF Thread
<1>3. CASE UNCHANGED vars
  <2>1. FreshInv' = FreshInv
    BY <1>3 DEF vars, FreshInv, ValuesInv, TempInv, ReplyInv, CheckInv, Done, Asked,
                Reading, Settled, Own, Unread, ReplyLength
  <2> QED
    BY <2>1
<1> QED
  BY <1>1, <1>2, <1>3 DEF Next

-----------------------------------------------------------------------------
(* Whose reply a value is taken from.                                      *)

\* Mailed values and left-over bytes keep their origin when they age.
LEMMA AgedOrigin ==
    ASSUME NEW b, b \in Byte \/ b \in Value
    PROVE  Aged(b).of = b.of /\ (b = Garbage => Aged(b) = Garbage)
BY DEF Aged, Byte, Value, Garbage

\* A checked reply is one to a request whose reply is as long.
LEMMA CheckedOrigin ==
    ASSUME SizeInv, CrcMatches
    PROVE  \E k \in Requests : ReplyLength(k) = ReplyLength(req) /\ temp[1].of = k
<1>1. PICK k \in Requests : /\ ReplyLength(k) = ReadLength(req)
                            /\ \A i \in 1..ReadLength(req) :
                                 temp[i] = [of |-> k, place |-> i, round |-> temp[1].round]
  BY DEF CrcMatches
<1>2. 1 \in 1..ReadLength(req)
  BY Lengths DEF ReadLength, SizeInv, TypeOK
<1> DEFINE r == temp[1].round
<1>3. \A i \in 1..ReadLength(req) : temp[i] = [of |-> k, place |-> i, round |-> r]
  BY <1>1
<1> HIDE DEF r
<1>4. temp[1] = [of |-> k, place |-> 1, round |-> r]
  BY <1>2, <1>3
<1>5. temp[1].of = k
  BY <1>4
<1> QED
  BY <1>1, <1>5 DEF ReadLength

\* Byte i of this round's reply to k.
ByteOf(k, i) == [of |-> k, place |-> i, round |-> "this"]

\* Until a byte comes too late: what is new was answered, or is left from what
\* was; a reply that did not come whole is never whole in temp; and temp holds
\* nothing of an earlier call, unless the stack does.
NewInv ==
    \A k \in Requests : value[k].round = "this" => k \in answered \/ FromStack(k)
PartialInv ==
    \A k \in Done \ answered : \E i \in 1..ReplyLength(k) : temp[i] # ByteOf(k, i)
CallInv ==
    StackKept \/ \A i \in 1..LongReply :
                    \/ temp[i] = Garbage
                    \/ pc \in {"read", "check"} /\ temp[i].of = req
StackInv == ~late => NewInv /\ PartialInv /\ CallInv

\* A reply that is new when it is checked is one of this round that came whole,
\* and only the stack can hold that of another request.
LEMMA NewIsAnswered ==
    ASSUME SizeInv, FreshInv, StackInv, ~late, pc = "check",
           CrcMatches, temp[1].round = "this"
    PROVE  /\ temp[1].of \in answered
           /\ ReplyLength(temp[1].of) = ReplyLength(req)
           /\ temp[1].of # req => StackKept
<1>1. PICK k \in Requests : /\ ReplyLength(k) = ReplyLength(req)
                            /\ \A i \in 1..ReplyLength(req) : temp[i] = ByteOf(k, i)
  BY DEF CrcMatches, ReadLength, ByteOf
<1>2. 1 \in 1..ReplyLength(req) /\ 1 \in 1..LongReply /\ req \in Requests
  BY Lengths DEF SizeInv, TypeOK
<1>3. temp[1] = ByteOf(k, 1)
  BY <1>1, <1>2
<1>4. temp[1].of = k /\ temp[1] # Garbage
  BY <1>3 DEF ByteOf, Garbage
<1>5. k \in Done \cup {req}
  BY <1>2, <1>4 DEF FreshInv, TempInv, Reading, Asked
<1>6. k \in answered
  <2>1. CASE k = req
    BY <1>1, <2>1 DEF FreshInv, CheckInv, Own, ByteOf
  <2>2. CASE k \in Done
    BY <1>1, <2>2 DEF StackInv, PartialInv
  <2> QED
    BY <1>5, <2>1, <2>2
<1>7. k # req => StackKept
  BY <1>2, <1>4 DEF StackInv, CallInv
<1> QED
  BY <1>1, <1>4, <1>6, <1>7

\* A check stores no more than that, and leaves at most the reply in temp.
LEMMA CheckStack ==
    ASSUME SizeInv, FreshInv, StackInv, ~late, Check
    PROVE  StackInv'
<1>1. /\ pc = "check" /\ req' = Following /\ late' = late
      /\ pc' = (IF req = "pm" THEN "send" ELSE "request")
      /\ value' = (IF CrcMatches
                   THEN [value EXCEPT ![req] = [of |-> temp[1].of, round |-> temp[1].round]]
                   ELSE value)
      /\ \/ StackKept /\ temp' = temp
         \/ temp' = [i \in 1..LongReply |-> Garbage]
      /\ answered' = answered
  BY DEF Check
<1>2. NewInv /\ PartialInv /\ CallInv /\ CheckInv
  BY <1>1 DEF StackInv, FreshInv
<1>3. req \in Requests /\ value \in [Requests -> Value]
  BY DEF SizeInv, TypeOK
<1>4. Done' = Done \cup {req} /\ Done \subseteq Requests
  BY <1>1, <1>3, RequestOrder DEF Done, Earlier, Following, Requests
<1>5. NewInv'
  <2> SUFFICES ASSUME NEW k \in Requests, value'[k].round = "this", k \notin answered
               PROVE  FromStack(k)'
    BY <1>1 DEF NewInv
  <2>1. CASE k = req /\ CrcMatches
    <3>1. value'[k] = [of |-> temp[1].of, round |-> temp[1].round]
      BY <1>1, <1>3, <2>1
    <3>2. temp[1].round = "this" /\ value'[k].of = temp[1].of
      BY <3>1
    <3>3. /\ temp[1].of \in answered
          /\ ReplyLength(temp[1].of) = ReplyLength(req)
          /\ temp[1].of # req => StackKept
      BY <1>1, <2>1, <3>2, NewIsAnswered
    <3>4. temp[1].of # req
      BY <2>1, <3>3
    <3> QED
      BY <1>1, <2>1, <3>2, <3>3, <3>4 DEF FromStack, ReplyLength
  <2>2. CASE ~(k = req /\ CrcMatches)
    <3>1. value'[k] = value[k]
      BY <1>1, <1>3, <2>2
    <3> QED
      BY <1>1, <1>2, <3>1 DEF NewInv, FromStack, ReplyLength
  <2> QED
    BY <2>1, <2>2
<1>6. PartialInv'
  <2> SUFFICES ASSUME NEW k \in Done \cup {req}, k \notin answered
               PROVE  \E i \in 1..ReplyLength(k) : temp'[i] # ByteOf(k, i)
    BY <1>1, <1>4 DEF PartialInv, ReplyLength, ByteOf
  <2>1. \E i \in 1..ReplyLength(k) : temp[i] # ByteOf(k, i)
    BY <1>2 DEF PartialInv, CheckInv, Own, ByteOf
  <2>2. CASE temp' = temp
    BY <2>1, <2>2
  <2>3. CASE temp' = [i \in 1..LongReply |-> Garbage]
    <3>1. k \in Requests
      BY <1>3, <1>4
    <3>2. 1 \in 1..ReplyLength(k) /\ 1 \in 1..LongReply
      BY <3>1, Lengths
    <3>3. temp'[1] # ByteOf(k, 1)
      BY <2>3, <3>2 DEF ByteOf, Garbage
    <3> QED
      BY <3>2, <3>3
  <2> QED
    BY <1>1, <2>2, <2>3
<1>7. CallInv'
  BY <1>1 DEF CallInv
<1> QED
  BY <1>5, <1>6, <1>7 DEF StackInv

\* A byte read is one of the request under way.
LEMMA ReadByteStack ==
    ASSUME SizeInv, FreshInv, StackInv, ~late, ReadByte
    PROVE  StackInv'
<1>1. /\ pc = "read" /\ UNCHANGED <<pc, req, value, answered, late>> /\ got \in Nat
      /\ temp' = [temp EXCEPT ![got + 1] = Head(rx)]
      /\ rx \in Seq(Byte) /\ rx # <<>>
  BY DEF ReadByte, SizeInv, TypeOK
<1>2. NewInv /\ PartialInv /\ CallInv /\ temp \in [1..LongReply -> Byte] /\ req \in Requests
  BY DEF StackInv, SizeInv, TypeOK
<1>3. Head(rx) = rx[1] /\ 1 \in 1..Len(rx)
  BY <1>1
<1>4. Head(rx) = Garbage \/ Head(rx).of = req
  BY <1>1, <1>3 DEF FreshInv, ReplyInv, Reading
<1>5. \A i \in 1..LongReply : temp'[i] = temp[i] \/ temp'[i] = Garbage \/ temp'[i].of = req
  BY <1>1, <1>2, <1>4
<1>6. NewInv'
  BY <1>1, <1>2 DEF NewInv, FromStack, ReplyLength
<1>7. PartialInv'
  <2>1. Done' = Done /\ Done \subseteq Requests /\ req \notin Done
    BY <1>1, <1>2, RequestOrder DEF Done
  <2> SUFFICES ASSUME NEW k \in Done \ answered
               PROVE  \E i \in 1..ReplyLength(k) : temp'[i] # ByteOf(k, i)
    BY <1>1, <2>1 DEF PartialInv, ReplyLength, ByteOf
  <2>2. PICK i \in 1..ReplyLength(k) : temp[i] # ByteOf(k, i)
    BY <1>2 DEF PartialInv
  <2>3. i \in 1..LongReply
    BY <2>1, <2>2, Lengths
  <2>4. temp'[i] # ByteOf(k, i)
    BY <1>5, <2>1, <2>2, <2>3 DEF ByteOf, Garbage
  <2> QED
    BY <2>2, <2>4
<1>8. CallInv'
  BY <1>1, <1>2, <1>5 DEF CallInv
<1> QED
  BY <1>6, <1>7, <1>8 DEF StackInv

\* An hour later nothing is new.
LEMMA SendStack ==
    ASSUME SizeInv, FreshInv, StackInv, ~late, Send
    PROVE  StackInv'
<1>1. /\ pc = "send" /\ value' = [k \in Requests |-> Aged(value[k])]
      /\ temp' = [i \in 1..LongReply |-> Aged(temp[i])]
      /\ pc' = "request" /\ req' = req
  BY DEF Send
<1>2. /\ temp \in [1..LongReply -> Byte] /\ value \in [Requests -> Value]
      /\ req \in Requests
  BY DEF SizeInv, TypeOK
<1>3. NewInv'
  <2>1. \A v \in Value : Aged(v).round # "this"
    BY DEF Aged, Value
  <2> QED
    BY <1>1, <1>2, <2>1 DEF NewInv
<1>4. PartialInv'
  <2>1. \A b \in Byte : Aged(b).round # "this"
    BY DEF Aged, Byte
  <2>2. Done' \subseteq Requests
    BY <1>1, <1>2, RequestOrder DEF Done
  <2> SUFFICES ASSUME NEW k \in Done'
               PROVE  \E i \in 1..ReplyLength(k) : temp'[i] # ByteOf(k, i)
    BY DEF PartialInv, ReplyLength, ByteOf
  <2>3. 1 \in 1..ReplyLength(k) /\ 1 \in 1..LongReply
    BY <2>2, Lengths
  <2>4. temp'[1] # ByteOf(k, 1)
    BY <1>1, <1>2, <2>1, <2>3 DEF ByteOf
  <2> QED
    BY <2>3, <2>4
<1>5. CallInv'
  <2>1. StackKept \/ \A i \in 1..LongReply : temp[i] = Garbage
    BY <1>1 DEF StackInv, CallInv
  <2>2. StackKept \/ \A i \in 1..LongReply : temp'[i] = Garbage
    BY <1>1, <1>2, <2>1, AgedOrigin
  <2> QED
    BY <2>2 DEF CallInv
<1> QED
  BY <1>3, <1>4, <1>5 DEF StackInv

\* An answer leaves the other values what they are.
LEMMA NewStays ==
    ASSUME NewInv, UNCHANGED value, answered \subseteq answered'
    PROVE  NewInv'
<1> SUFFICES ASSUME NEW k \in Requests, value[k].round = "this", k \notin answered'
             PROVE  FromStack(k)'
  BY DEF NewInv
<1>1. FromStack(k)
  BY DEF NewInv
<1> QED
  BY <1>1 DEF FromStack, ReplyLength

LEMMA NextStack == SizeInv /\ FreshInv /\ StackInv /\ [Next]_vars => StackInv'
<1> SUFFICES ASSUME SizeInv, FreshInv, StackInv, [Next]_vars, ~late' PROVE StackInv'
  BY DEF StackInv
<1>1. ~late
  BY DEF Next, Line, ByteComes, ByteLost, Thread, Request, Delay, ReadByte,
         ReadEnd, Check, Send, vars
<1>2. NewInv /\ PartialInv /\ CallInv
  BY <1>1 DEF StackInv
<1>3. CASE Line \/ Request \/ Delay \/ ReadEnd \/ UNCHANGED vars
  <2>1. /\ UNCHANGED <<req, temp, value>> /\ answered \subseteq answered'
        /\ pc \in {"read", "check"} => pc' \in {"read", "check"}
        /\ (pc = "send") = (pc' = "send")
    BY <1>3 DEF Line, ByteComes, ByteLost, Request, Delay, ReadEnd, vars
  <2>2. NewInv'
    BY <1>2, <2>1, NewStays
  <2>3. PartialInv'
    BY <1>2, <2>1 DEF PartialInv, Done, ReplyLength, ByteOf
  <2>4. CallInv'
    BY <1>2, <2>1 DEF CallInv
  <2> QED
    BY <2>2, <2>3, <2>4 DEF StackInv
<1> QED
  BY <1>1, <1>3, ReadByteStack, CheckStack, SendStack DEF Next, Thread

\* Until a byte comes too late, the values of a round that were answered are
\* those of their own replies in it, and another is new only if it is that of
\* an answered request with a reply as long, left on the stack.
THEOREM FreshValues == Spec => []FreshIfAnswered
<1>1. Init => SizeInv /\ FreshInv /\ StackInv
  <2>1. Init => NewInv /\ CallInv
    BY DEF Init, NewInv, CallInv, NoValue
  <2>2. Init => PartialInv
    BY DEF Init, PartialInv, Done, Earlier
  <2> QED
    BY <2>1, <2>2, InitSize, InitFresh DEF StackInv
<1>2. SizeInv /\ FreshInv /\ StackInv /\ [Next]_vars => SizeInv' /\ FreshInv' /\ StackInv'
  BY NextSize, NextFresh, NextStack
<1>3. FreshInv /\ StackInv => FreshIfAnswered
  BY DEF FreshInv, ValuesInv, Done, Settled, StackInv, NewInv, FreshIfAnswered
<1> QED
  BY <1>1, <1>2, <1>3, PTL DEF Spec

\* The noise is taken from its own replies only, and nothing else from them.
NoiseApart == \A k \in Requests : value[k].of # "none" =>
                  (k = "noise" <=> value[k].of = "noise")

\* Even with late bytes and an old stack the noise is never taken for another
\* value, nor another value for the noise: its reply has a length of its own
\* (BYH_M.c:176-206).
THEOREM NoiseIsOwn == Spec => []NoiseApart
<1>1. Init => NoiseApart
  BY DEF Init, NoiseApart, NoValue
<1>2. SizeInv /\ NoiseApart /\ [Next]_vars => NoiseApart'
  <2> SUFFICES ASSUME SizeInv, NoiseApart, [Next]_vars PROVE NoiseApart'
    OBVIOUS
  <2>t. value \in [Requests -> Value] /\ req \in Requests
    BY DEF SizeInv, TypeOK
  <2>1. CASE Check /\ CrcMatches
    <3>1. PICK k \in Requests : ReplyLength(k) = ReplyLength(req) /\ temp[1].of = k
      BY <2>1, CheckedOrigin
    <3>2. k = "noise" <=> req = "noise"
      BY <3>1, ReplyAssumption DEF ReplyLength
    <3>3. value' = [value EXCEPT ![req] = [of |-> temp[1].of, round |-> temp[1].round]]
      BY <2>1 DEF Check
    <3> QED
      BY <2>t, <3>1, <3>2, <3>3 DEF NoiseApart
  <2>2. CASE Send
    <3>1. \A k \in Requests : value'[k].of = value[k].of
      BY <2>2, <2>t, AgedOrigin DEF Send
    <3> QED
      BY <3>1 DEF NoiseApart
  <2>3. CASE ~(Check /\ CrcMatches) /\ ~Send
    <3>1. value' = value
      BY <2>3 DEF Next, Line, ByteComes, ByteLost, Thread, Request, Delay, ReadByte,
                  ReadEnd, Check, vars
    <3> QED
      BY <3>1 DEF NoiseApart
  <2> QED
    BY <2>1, <2>2, <2>3
<1> QED
  BY <1>1, <1>2, SizeInvariance, PTL DEF Spec
=============================================================================
