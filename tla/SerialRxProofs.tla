---------------------------- MODULE SerialRxProofs ----------------------------
(***************************************************************************)
(* Proofs about SerialRx, for any buffer of two bytes or more: its types,  *)
(* that the parser does not sleep beside a byte unless its own reset has   *)
(* erased the notice, and that handler, ring and reader implement the      *)
(* queue of ByteQueue.                                                     *)
(***************************************************************************)
EXTENDS SerialRx, TLAPS

\* The callback is installed before anybody reads; a reader about to sleep
\* beside a byte has its notice, or has erased it.
NoticeInv ==
    /\ rx_indicate <=> pc # "open"
    /\ pc \in {"take", "wait"} /\ ~Empty /\ isr \notin {"getc", "indicate"} =>
            missed \/ (pc = "take" /\ rx_notice > 0)

IInv == TypeOK /\ NoticeInv

-----------------------------------------------------------------------------
(* The ring.                                                               *)

LEMMA NextIndexType ==
    ASSUME NEW i \in Slots
    PROVE  NextIndex(i) \in Slots /\ NextIndex(i) # i
           /\ NextIndex(i) = (IF i = Size - 1 THEN 0 ELSE i + 1)
BY SizeAssumption DEF NextIndex, Slots

LEMMA EmptyMeets == FifoType => (Empty <=> put_index = get_index)
BY Zenon DEF FifoType, Empty

\* The handler counts nothing exactly when there is nothing.
LEMMA RxLengthPositive == FifoType => RxLength \in Nat /\ (RxLength = 0 <=> Empty)
<1> SUFFICES ASSUME FifoType PROVE RxLength \in Nat /\ (RxLength = 0 <=> Empty)
  OBVIOUS
<1>1. put_index \in Slots /\ get_index \in Slots
  BY DEF FifoType
<1>2. RxLength \in Nat /\ (RxLength = 0 <=> put_index = get_index)
  BY <1>1, SizeAssumption DEF RxLength, Slots
<1> QED
  BY <1>2, EmptyMeets

\* How many bytes the ring holds, and where they are.
LEMMA HeldRange ==
    ASSUME FifoType
    PROVE  /\ Held \in 0..(Size - 1)
           /\ Held = 0 <=> put_index = get_index
           /\ Held = (IF put_index >= get_index THEN put_index - get_index
                      ELSE put_index + Size - get_index)
           /\ \A i \in 0..(Size - 1) : Slot(i) \in Slots
           /\ \A i \in 0..(Size - 1), j \in 0..(Size - 1) : Slot(i) = Slot(j) => i = j
           /\ Slot(0) = get_index /\ Slot(Held) = put_index
<1>1. put_index \in Slots /\ get_index \in Slots /\ Size \in Nat /\ Size >= 2
  BY SizeAssumption DEF FifoType
<1>2. Held = (IF put_index = get_index THEN 0
              ELSE IF put_index > get_index THEN put_index - get_index
              ELSE put_index + Size - get_index)
  BY EmptyMeets DEF Held
<1>3. /\ Held \in 0..(Size - 1)
      /\ Held = 0 <=> put_index = get_index
      /\ Held = (IF put_index >= get_index THEN put_index - get_index
                 ELSE put_index + Size - get_index)
  BY <1>1, <1>2 DEF Slots
<1>4. \A i \in 0..(Size - 1) : Slot(i) \in Slots
  BY <1>1 DEF Slot, Slots
<1>5. \A i \in 0..(Size - 1), j \in 0..(Size - 1) : Slot(i) = Slot(j) => i = j
  BY <1>1 DEF Slot, Slots
<1>6. Slot(0) = get_index
  BY <1>1 DEF Slot, Slots
<1>7. Slot(Held) = put_index
  BY <1>1, <1>3 DEF Slot, Slots
<1> QED
  BY <1>3, <1>4, <1>5, <1>6, <1>7

\* What the ring holds is a sequence of what its slots hold.
LEMMA ContentsType ==
    ASSUME FifoType
    PROVE  /\ Contents \in Seq(Byte \cup {NULL}) /\ Len(Contents) = Held
           /\ \A i \in 1..Held : Contents[i] = buffer[Slot(i - 1)]
<1>1. \A i \in 1..Held : i - 1 \in 0..(Size - 1)
  BY HeldRange, SizeAssumption
<1>2. \A i \in 1..Held : buffer[Slot(i - 1)] \in Byte \cup {NULL}
  BY <1>1, HeldRange DEF FifoType
<1>3. Held \in Nat
  BY HeldRange, SizeAssumption
<1> QED
  BY <1>2, <1>3 DEF Contents

\* The same of the ring after a step.
HeldOfIndices == Held = IF put_index >= get_index THEN put_index - get_index
                        ELSE put_index + Size - get_index
ContentsOfSlots ==
    /\ Contents \in Seq(Byte \cup {NULL}) /\ Len(Contents) = Held
    /\ \A i \in 1..Held : Contents[i] = buffer[Slot(i - 1)]

LEMMA RingFacts == FifoType => HeldOfIndices /\ ContentsOfSlots
BY HeldRange, ContentsType DEF HeldOfIndices, ContentsOfSlots

LEMMA RingFactsNext == FifoType' => HeldOfIndices' /\ ContentsOfSlots'
BY RingFacts, PTL

\* Equal sequences.
LEMMA SameSeq ==
    ASSUME NEW S, NEW s \in Seq(S), NEW t \in Seq(S), Len(s) = Len(t),
           \A i \in 1..Len(s) : s[i] = t[i]
    PROVE  s = t
OBVIOUS

-----------------------------------------------------------------------------
(* The invariant.                                                          *)

LEMMA InitInvariant == Init => IInv
<1> SUFFICES ASSUME Init PROVE IInv
  OBVIOUS
<1>1. put_index \in Slots /\ get_index \in Slots
  BY SizeAssumption DEF Init, Slots
<1>2. buffer \in [Slots -> Byte \cup {NULL}]
  BY DEF Init
<1>3. is_full \in BOOLEAN /\ ~is_full
  BY DEF Init
<1>4. FifoType
  BY <1>1, <1>2, <1>3, Zenon DEF FifoType
<1>5. IsrType
  <2>1. rx_notice \in 0..NoticeMax
    BY NoticeAssumption DEF Init
  <2>2. rx_indicate \in BOOLEAN /\ dr \in Byte \cup {NULL} /\ isr = "off"
    BY DEF Init
  <2> QED
    BY <2>1, <2>2 DEF IsrType
<1>6. ReaderType
  <2>1. read_idx \in 0..(RecvSize - 1)
    BY RecvAssumption DEF Init
  <2>2. missed \in BOOLEAN /\ pc = "open" /\ mode = "line" /\ ch = NULL
    BY DEF Init
  <2> QED
    BY <2>1, <2>2 DEF ReaderType
<1>7. NoticeInv
  BY DEF Init, NoticeInv
<1> QED
  BY <1>4, <1>5, <1>6, <1>7 DEF IInv, TypeOK

\* The handler stores a byte: one slot stays free.
LEMMA StoreType ==
    ASSUME FifoType, NEW b \in Byte, Store(b)
    PROVE  FifoType'
<1>1. put_index \in Slots /\ get_index \in Slots
      /\ buffer \in [Slots -> Byte \cup {NULL}]
  BY DEF FifoType
<1>2. put_index' \in Slots /\ get_index' \in Slots
  BY <1>1, NextIndexType DEF Store
<1>3. buffer' \in [Slots -> Byte \cup {NULL}]
  BY <1>1 DEF Store
<1>4. put_index' # get_index'
  BY <1>1, NextIndexType DEF Store, Overruns
<1>5. is_full' \in BOOLEAN
  BY Zenon DEF Store
<1> QED
  BY <1>2, <1>3, <1>4, <1>5, Zenon DEF FifoType

\* Steps that leave the ring alone.
LEMMA QuietStep ==
    ASSUME IInv, [Arrives \/ IsrEnter \/ IsrNoByte \/ IsrClear \/ SetRxIndicate
                  \/ StartParser \/ ResetNotice \/ TakeNotice \/ Timeout \/ RecvFails]_vars
    PROVE  IInv'
<1> USE DEF IInv, TypeOK
<1>a. IsrType /\ ReaderType /\ FifoType /\ NoticeInv
  OBVIOUS
<1>1. UNCHANGED fifoVars
  BY DEF Arrives, IsrEnter, IsrNoByte, IsrClear, SetRxIndicate, StartParser,
         ResetNotice, TakeNotice, Timeout, RecvFails, vars
<1>2. FifoType' /\ Empty' = Empty
  BY <1>1 DEF FifoType, Empty, fifoVars
<1>3. IsrType'
  <2>1. rx_notice' \in 0..NoticeMax
    BY <1>a, NoticeAssumption DEF IsrType, Arrives, IsrEnter, IsrNoByte, IsrClear, SetRxIndicate,
         StartParser, ResetNotice, TakeNotice, Timeout, RecvFails, vars
  <2>2. dr' \in Byte \cup {NULL}
    BY <1>a DEF IsrType, Arrives, IsrEnter, IsrNoByte, IsrClear, SetRxIndicate,
         StartParser, ResetNotice, TakeNotice, Timeout, RecvFails, vars
  <2>3. isr' \in {"off", "getc", "indicate", "clear"}
    BY <1>a DEF IsrType, Arrives, IsrEnter, IsrNoByte, IsrClear, SetRxIndicate,
         StartParser, ResetNotice, TakeNotice, Timeout, RecvFails, vars
  <2>4. rx_indicate' \in BOOLEAN
    <3>1. rx_indicate' = rx_indicate \/ rx_indicate' = TRUE
      BY DEF Arrives, IsrEnter, IsrNoByte, IsrClear, SetRxIndicate,
         StartParser, ResetNotice, TakeNotice, Timeout, RecvFails, vars
    <3> QED
      BY <1>a, <3>1 DEF IsrType
  <2> QED
    BY <2>1, <2>2, <2>3, <2>4, Zenon DEF IsrType
<1>4. ReaderType'
  <2>1. read_idx' \in 0..(RecvSize - 1)
    BY <1>a, RecvAssumption DEF ReaderType, Arrives, IsrEnter, IsrNoByte, IsrClear,
         SetRxIndicate, StartParser, ResetNotice, TakeNotice, Timeout, RecvFails, vars,
         readerVars
  <2>2. mode' \in {"line", "recv"} /\ ch' \in Byte \cup {NULL}
    BY <1>a DEF ReaderType, Arrives, IsrEnter, IsrNoByte, IsrClear,
         SetRxIndicate, StartParser, ResetNotice, TakeNotice, Timeout, RecvFails, vars,
         readerVars
  <2>3. pc' \in {"open", "startup", "read", "reset", "take", "wait", "timedout"}
    BY <1>a DEF ReaderType, Arrives, IsrEnter, IsrNoByte, IsrClear,
         SetRxIndicate, StartParser, ResetNotice, TakeNotice, Timeout, RecvFails, vars
  <2>4. missed' \in BOOLEAN
    <3>1. missed' = missed \/ missed' = ~Empty
      BY DEF Arrives, IsrEnter, IsrNoByte, IsrClear, SetRxIndicate,
         StartParser, ResetNotice, TakeNotice, Timeout, RecvFails, vars
    <3> QED
      BY <1>a, <3>1 DEF ReaderType
  <2> QED
    BY <2>1, <2>2, <2>3, <2>4, Zenon DEF ReaderType
<1>5. rx_indicate' <=> pc' # "open"
  BY <1>a DEF NoticeInv, Arrives, IsrEnter, IsrNoByte, IsrClear, SetRxIndicate,
         StartParser, ResetNotice, TakeNotice, Timeout, RecvFails, vars
<1>6. pc' \in {"take", "wait"} /\ ~Empty' /\ isr' \notin {"getc", "indicate"} =>
            missed' \/ (pc' = "take" /\ rx_notice' > 0)
  <2>1. CASE TakeNotice
    <3>1. rx_notice \in Nat
      BY <1>a, NoticeAssumption DEF IsrType
    <3>2. pc' = "wait" => ~(rx_notice > 0)
      BY <2>1 DEF TakeNotice
    <3>3. pc' = "read" \/ pc' = "wait"
      BY <2>1 DEF TakeNotice
    <3>4. pc = "take" /\ isr = "off" /\ missed' = missed
      BY <2>1 DEF TakeNotice
    <3>5. ~Empty /\ pc' = "wait" => missed
      BY <1>a, <3>2, <3>4 DEF NoticeInv
    <3> QED
      BY <1>2, <3>3, <3>4, <3>5
  <2>2. CASE ResetNotice
    BY <1>2, <2>2 DEF ResetNotice
  <2>3. CASE IsrEnter \/ IsrNoByte \/ SetRxIndicate \/ StartParser \/ Timeout \/ RecvFails
    BY <2>3 DEF IsrEnter, IsrNoByte, SetRxIndicate, StartParser, Timeout, RecvFails
  <2>4. CASE Arrives \/ IsrClear \/ UNCHANGED vars
    <3>1. UNCHANGED <<pc, missed, rx_notice>>
      BY <2>4 DEF Arrives, IsrClear, vars
    <3>2. isr' = isr \/ isr = "clear"
      BY <2>4 DEF Arrives, IsrClear, vars
    <3> QED
      BY <1>a, <1>2, <3>1, <3>2 DEF NoticeInv
  <2> QED
    BY <2>1, <2>2, <2>3, <2>4
<1> QED
  BY <1>2, <1>3, <1>4, <1>5, <1>6 DEF NoticeInv

LEMMA IsrByteStep ==
    ASSUME IInv, IsrByte
    PROVE  IInv'
<1>1. FifoType'
  BY StoreType DEF IsrByte, IInv, TypeOK, IsrType
<1>2. isr = "getc" /\ dr' = NULL
      /\ UNCHANGED <<isr, rx_indicate, rx_notice, pc, readerVars, missed>>
  BY DEF IsrByte
<1>3. IsrType' /\ ReaderType'
  BY <1>2 DEF IInv, TypeOK, IsrType, ReaderType, readerVars
<1>4. NoticeInv'
  BY <1>2 DEF IInv, NoticeInv
<1> QED
  BY <1>1, <1>3, <1>4 DEF IInv, TypeOK

\* A byte in the ring is announced.
LEMMA IsrIndicateStep ==
    ASSUME IInv, IsrIndicate
    PROVE  IInv'
<1>1. isr = "indicate" /\ isr' = "clear"
      /\ UNCHANGED <<dr, fifoVars, rx_indicate, readerVars, missed>>
  BY DEF IsrIndicate
<1>2. FifoType /\ IsrType /\ ReaderType /\ NoticeInv
  BY DEF IInv, TypeOK
<1>3. FifoType' /\ Empty' = Empty
  BY <1>1, <1>2 DEF FifoType, Empty, fifoVars
<1>4. \/ UNCHANGED <<pc, rx_notice>> /\ (~rx_indicate \/ Empty)
      \/ pc = "wait" /\ pc' = "read" /\ UNCHANGED rx_notice
      \/ pc # "wait" /\ UNCHANGED pc
         /\ rx_notice' = IF rx_notice < NoticeMax THEN rx_notice + 1 ELSE rx_notice
  BY <1>2, RxLengthPositive DEF IsrIndicate
<1>5. rx_notice \in 0..NoticeMax
  BY <1>2 DEF IsrType
<1>6. rx_notice' \in 0..NoticeMax
  BY <1>4, <1>5, NoticeAssumption
<1>7. IsrType'
  BY <1>1, <1>2, <1>6 DEF IsrType
<1>8. ReaderType'
  BY <1>1, <1>2, <1>4 DEF ReaderType, readerVars
<1>9. NoticeInv'
  <2>1. CASE UNCHANGED <<pc, rx_notice>> /\ (~rx_indicate \/ Empty)
    BY <1>1, <1>2, <1>3, <2>1 DEF NoticeInv
  <2>2. CASE pc = "wait" /\ pc' = "read" /\ UNCHANGED rx_notice
    BY <1>1, <1>2, <2>2 DEF NoticeInv
  <2>3. CASE pc # "wait" /\ UNCHANGED pc
             /\ rx_notice' = IF rx_notice < NoticeMax THEN rx_notice + 1 ELSE rx_notice
    <3>1. rx_notice' > 0
      BY <1>5, <2>3, NoticeAssumption
    <3>2. pc' # "wait" /\ (rx_indicate' <=> pc' # "open")
      BY <1>1, <1>2, <2>3 DEF NoticeInv
    <3> QED
      BY <3>1, <3>2 DEF NoticeInv
  <2> QED
    BY <1>4, <2>1, <2>2, <2>3
<1> QED
  BY <1>3, <1>7, <1>8, <1>9 DEF IInv, TypeOK

LEMMA ReadStep ==
    ASSUME IInv, Read
    PROVE  IInv'
<1>1. pc = "read" /\ pc' \in {"read", "reset"}
      /\ UNCHANGED <<dr, isr, rx_indicate, rx_notice, missed>>
  BY DEF Read
<1>2. FifoType /\ IsrType /\ ReaderType /\ NoticeInv
  BY DEF IInv, TypeOK
<1>3. IsrType'
  BY <1>1, <1>2 DEF IsrType
<1>4. NoticeInv'
  BY <1>1, <1>2 DEF NoticeInv
<1>5. CASE Empty
  <2>1. UNCHANGED <<fifoVars, readerVars>>
    BY <1>5 DEF Read
  <2> QED
    BY <1>1, <1>2, <1>3, <1>4, <2>1 DEF IInv, TypeOK, FifoType, ReaderType,
                                        fifoVars, readerVars
<1>6. CASE ~Empty
  <2>1. /\ ch' = buffer[get_index] /\ buffer' = [buffer EXCEPT ![get_index] = NULL]
        /\ get_index' = NextIndex(get_index) /\ is_full' = FALSE
        /\ UseByte /\ put_index' = put_index
    BY <1>6 DEF Read
  <2>2. get_index' \in Slots /\ put_index' \in Slots
        /\ buffer' \in [Slots -> Byte \cup {NULL}] /\ ch' \in Byte \cup {NULL}
    BY <1>2, <2>1, NextIndexType DEF FifoType
  <2>3. FifoType'
    BY <2>1, <2>2 DEF FifoType
  <2>4. mode' \in {"line", "recv"} /\ read_idx' \in 0..(RecvSize - 1)
    BY <1>2, <2>1, RecvAssumption DEF UseByte, ReaderType
  <2>5. missed' \in BOOLEAN
    BY <1>1, <1>2 DEF ReaderType
  <2>6. ReaderType'
    BY <1>1, <2>2, <2>4, <2>5 DEF ReaderType
  <2> QED
    BY <1>3, <1>4, <2>3, <2>6 DEF IInv, TypeOK
<1> QED
  BY <1>5, <1>6

LEMMA NextInvariant == IInv /\ [Next]_vars => IInv'
<1> SUFFICES ASSUME IInv, [Next]_vars PROVE IInv'
  OBVIOUS
<1>1. CASE IsrByte
  BY <1>1, IsrByteStep
<1>2. CASE IsrIndicate
  BY <1>2, IsrIndicateStep
<1>3. CASE Read
  BY <1>3, ReadStep
<1>4. CASE ~IsrByte /\ ~IsrIndicate /\ ~Read
  BY <1>4, QuietStep DEF Next, Isr, Reader
<1> QED
  BY <1>1, <1>2, <1>3, <1>4

THEOREM Invariance == Spec => []IInv
<1>1. Init => IInv
  BY InitInvariant
<1>2. IInv /\ [Next]_vars => IInv'
  BY NextInvariant
<1> QED
  BY <1>1, <1>2, PTL DEF Spec

\* Type correctness: the indices meet only in an empty ring.
THEOREM TypeCorrect == Spec => []TypeOK
<1>1. IInv => TypeOK
  BY DEF IInv
<1> QED
  BY <1>1, Invariance, PTL

\* The parser sleeps beside a byte only if its own reset has erased a notice.
THEOREM NoticeSafe == Spec => []NoSleepOnData
<1>1. IInv => NoSleepOnData
  BY DEF IInv, NoticeInv, NoSleepOnData
<1> QED
  BY <1>1, Invariance, PTL

-----------------------------------------------------------------------------
(* The refinement of ByteQueue.                                            *)

Item == Byte \cup {NULL}

\* The queue the receiver implements: the ring, then the register.
LEMMA ReceivedType ==
    ASSUME FifoType, IsrType
    PROVE  /\ Received \in Seq(Item)
           /\ dr = NULL => Received = Contents
           /\ dr # NULL => Received = Append(Contents, dr)
BY ContentsType DEF Received, IsrType, Item

\* A byte that is stored while a slot is free goes behind the others.
LEMMA StoreAppends ==
    ASSUME FifoType, FifoType', NEW b \in Byte, Store(b), Held < Size - 1
    PROVE  Contents' = Append(Contents, b)
<1>1. put_index \in Slots /\ get_index \in Slots /\ Size \in Nat /\ Size >= 2
      /\ buffer \in [Slots -> Item]
  BY SizeAssumption DEF FifoType, Item
<1>a. Held = (IF put_index >= get_index THEN put_index - get_index
              ELSE put_index + Size - get_index)
  BY HeldRange
<1>b. NextIndex(put_index) = (IF put_index = Size - 1 THEN 0 ELSE put_index + 1)
  BY <1>1, NextIndexType
<1>2. NextIndex(put_index) # get_index
  BY <1>1, <1>a, <1>b DEF Slots
<1>3. get_index' = get_index /\ put_index' = NextIndex(put_index)
      /\ buffer' = [buffer EXCEPT ![put_index] = b]
  BY <1>2 DEF Store, Overruns
<1>4. \A i : Slot(i)' = Slot(i)
  BY <1>3 DEF Slot
<1>5. Held \in Nat /\ Held' = Held + 1
  <2>1. Held' = (IF put_index' >= get_index' THEN put_index' - get_index'
                 ELSE put_index' + Size - get_index')
    BY RingFactsNext DEF HeldOfIndices
  <2>2. Held \in Nat
    BY HeldRange
  <2> QED
    BY <1>1, <1>2, <1>3, <1>a, <1>b, <2>1, <2>2 DEF Slots
<1>6. Contents \in Seq(Item) /\ Len(Contents) = Held /\ b \in Item
      /\ \A i \in 1..Held : Contents[i] = buffer[Slot(i - 1)]
  BY ContentsType DEF Item
<1>7. Contents' \in Seq(Item) /\ Len(Contents') = Held'
      /\ \A i \in 1..Held' : Contents'[i] = buffer'[Slot(i - 1)]
  <2>1. Contents' \in Seq(Byte \cup {NULL}) /\ Len(Contents') = Held'
        /\ \A i \in 1..Held' : Contents'[i] = buffer'[Slot(i - 1)']
    BY RingFactsNext DEF ContentsOfSlots
  <2> QED
    BY <1>4, <2>1 DEF Item
<1>8. Append(Contents, b) \in Seq(Item) /\ Len(Append(Contents, b)) = Held + 1
      /\ (\A i \in 1..Held : Append(Contents, b)[i] = Contents[i])
      /\ Append(Contents, b)[Held + 1] = b
  BY <1>5, <1>6
<1>9. \A i \in 1..(Held + 1) : Contents'[i] = Append(Contents, b)[i]
  <2> TAKE i \in 1..(Held + 1)
  <2>1. i - 1 \in 0..(Size - 1) /\ Held \in 0..(Size - 1)
    BY <1>1, <1>5
  <2>2. Slot(i - 1) \in Slots /\ Slot(Held) = put_index
    BY <2>1, HeldRange
  <2>3. Contents'[i] = buffer'[Slot(i - 1)]
    BY <1>5, <1>7
  <2>4. CASE i = Held + 1
    <3>1. Slot(i - 1) = put_index
      BY <1>5, <2>2, <2>4
    <3> QED
      BY <1>1, <1>3, <1>8, <2>3, <2>4, <3>1
  <2>5. CASE i # Held + 1
    <3>1. i \in 1..Held /\ i - 1 # Held
      BY <1>5, <2>5
    <3>2. Slot(i - 1) # put_index
      BY <2>1, <2>2, <3>1, HeldRange
    <3>3. buffer'[Slot(i - 1)] = buffer[Slot(i - 1)]
      BY <1>1, <1>3, <2>2, <3>2
    <3> QED
      BY <1>6, <1>8, <2>3, <3>1, <3>3
  <2> QED
    BY <2>4, <2>5
<1> QED
  BY <1>5, <1>7, <1>8, <1>9, SameSeq

\* The positions behind the first one.
LEMMA SlotAfter ==
    ASSUME FifoType, NEW i \in 0..(Size - 2)
    PROVE  (IF NextIndex(get_index) + i < Size THEN NextIndex(get_index) + i
            ELSE NextIndex(get_index) + i - Size) = Slot(i + 1)
<1>1. get_index \in Slots
  BY DEF FifoType
<1> QED
  BY <1>1, SizeAssumption, NextIndexType DEF Slot, Slots

\* A byte that is stored in a full ring goes behind the others, of which the
\* oldest is gone.
LEMMA StoreDrops ==
    ASSUME FifoType, FifoType', NEW b \in Byte, Store(b), Held = Size - 1
    PROVE  Contents' = Append(Tail(Contents), b)
<1>1. put_index \in Slots /\ get_index \in Slots /\ Size \in Nat /\ Size >= 2
      /\ buffer \in [Slots -> Item]
  BY SizeAssumption DEF FifoType, Item
<1>a. Held = (IF put_index >= get_index THEN put_index - get_index
              ELSE put_index + Size - get_index)
  BY HeldRange
<1>b. /\ NextIndex(put_index) = (IF put_index = Size - 1 THEN 0 ELSE put_index + 1)
      /\ NextIndex(get_index) = (IF get_index = Size - 1 THEN 0 ELSE get_index + 1)
  BY <1>1, NextIndexType
<1>2. NextIndex(put_index) = get_index
  BY <1>1, <1>a, <1>b DEF Slots
<1>3. get_index' = NextIndex(get_index) /\ put_index' = get_index
      /\ buffer' = [buffer EXCEPT ![put_index] = b, ![get_index] = NULL]
  BY <1>2 DEF Store, Overruns
<1>4. \A i \in 0..(Size - 2) : Slot(i)' = Slot(i + 1)
  BY <1>3, SlotAfter DEF Slot
<1>5. Held' = Held
  <2>1. Held' = (IF put_index' >= get_index' THEN put_index' - get_index'
                 ELSE put_index' + Size - get_index')
    BY RingFactsNext DEF HeldOfIndices
  <2> QED
    BY <1>1, <1>3, <1>a, <1>b, <2>1 DEF Slots
<1>6. Contents \in Seq(Item) /\ Len(Contents) = Size - 1 /\ b \in Item
      /\ \A i \in 1..(Size - 1) : Contents[i] = buffer[Slot(i - 1)]
  BY ContentsType DEF Item
<1>7. Contents' \in Seq(Item) /\ Len(Contents') = Size - 1
      /\ \A i \in 1..(Size - 1) : Contents'[i] = buffer'[Slot(i)]
  <2>1. Contents' \in Seq(Byte \cup {NULL}) /\ Len(Contents') = Held'
        /\ \A i \in 1..Held' : Contents'[i] = buffer'[Slot(i - 1)']
    BY RingFactsNext DEF ContentsOfSlots
  <2>2. \A i \in 1..(Size - 1) : i - 1 \in 0..(Size - 2) /\ (i - 1) + 1 = i
    BY <1>1
  <2>3. \A i \in 1..(Size - 1) : Slot(i - 1)' = Slot(i)
    BY <1>4, <2>2
  <2> QED
    BY <1>5, <2>1, <2>3 DEF Item
<1>8. Tail(Contents) \in Seq(Item) /\ Len(Tail(Contents)) = Size - 2
      /\ \A i \in 1..(Size - 2) : Tail(Contents)[i] = Contents[i + 1]
  BY <1>1, <1>6
<1>9. Append(Tail(Contents), b) \in Seq(Item)
      /\ Len(Append(Tail(Contents), b)) = Size - 1
      /\ (\A i \in 1..(Size - 2) : Append(Tail(Contents), b)[i] = Tail(Contents)[i])
      /\ Append(Tail(Contents), b)[Size - 1] = b
  BY <1>1, <1>6, <1>8
<1>10. \A i \in 1..(Size - 1) : Contents'[i] = Append(Tail(Contents), b)[i]
  <2> TAKE i \in 1..(Size - 1)
  <2>1. i \in 0..(Size - 1) /\ 0 \in 0..(Size - 1) /\ Size - 1 \in 0..(Size - 1) /\ i # 0
    BY <1>1
  <2>2. Slot(i) \in Slots /\ Slot(i) # get_index /\ Slot(Size - 1) = put_index
    BY <2>1, HeldRange
  <2>3. Contents'[i] = buffer'[Slot(i)]
    BY <1>7
  <2>4. CASE i = Size - 1
    <3>1. put_index # get_index
      BY <2>2, <2>4
    <3>2. buffer'[put_index] = b
      BY <1>1, <1>3, <3>1
    <3> QED
      BY <1>9, <2>2, <2>3, <2>4, <3>2
  <2>5. CASE i # Size - 1
    <3>1. i \in 1..(Size - 2) /\ i + 1 \in 1..(Size - 1) /\ (i + 1) - 1 = i
      BY <1>1, <2>5
    <3>2. Slot(i) # put_index
      BY <2>1, <2>2, <2>5, HeldRange
    <3>3. buffer'[Slot(i)] = buffer[Slot(i)]
      BY <1>1, <1>3, <2>2, <3>2
    <3>4. Contents[i + 1] = buffer[Slot((i + 1) - 1)]
      BY <1>6, <3>1
    <3> QED
      BY <1>8, <1>9, <2>3, <3>1, <3>3, <3>4
  <2> QED
    BY <2>4, <2>5
<1> QED
  BY <1>7, <1>9, <1>10, SameSeq

\* A byte that is read is the first.
LEMMA ReadTakesHead ==
    ASSUME FifoType, FifoType', Read, ~Empty
    PROVE  /\ Held > 0 /\ ch' = Head(Contents)
           /\ Contents' = Tail(Contents)
<1>1. put_index \in Slots /\ get_index \in Slots /\ Size \in Nat /\ Size >= 2
      /\ buffer \in [Slots -> Item]
  BY SizeAssumption DEF FifoType, Item
<1>2. ch' = buffer[get_index] /\ buffer' = [buffer EXCEPT ![get_index] = NULL]
      /\ get_index' = NextIndex(get_index) /\ put_index' = put_index
  BY DEF Read
<1>a. Held = (IF put_index >= get_index THEN put_index - get_index
              ELSE put_index + Size - get_index)
  BY HeldRange
<1>b. NextIndex(get_index) = (IF get_index = Size - 1 THEN 0 ELSE get_index + 1)
  BY <1>1, NextIndexType
<1>3. Held \in 1..(Size - 1)
  BY EmptyMeets, HeldRange, <1>1
<1>4. Held' = Held - 1
  <2>1. Held' = (IF put_index' >= get_index' THEN put_index' - get_index'
                 ELSE put_index' + Size - get_index')
    BY RingFactsNext DEF HeldOfIndices
  <2>2. put_index # get_index
    BY EmptyMeets
  <2> QED
    BY <1>1, <1>2, <1>a, <1>b, <2>1, <2>2 DEF Slots
<1>5. Contents \in Seq(Item) /\ Len(Contents) = Held
      /\ \A i \in 1..Held : Contents[i] = buffer[Slot(i - 1)]
  BY ContentsType DEF Item
<1>6. ch' = Head(Contents)
  <2>1. Head(Contents) = Contents[1] /\ 1 \in 1..Held /\ 1 - 1 = 0
    BY <1>3, <1>5
  <2>2. Contents[1] = buffer[Slot(0)]
    BY <1>5, <2>1
  <2> QED
    BY <1>2, <2>1, <2>2, HeldRange
<1>7. Contents' \in Seq(Item) /\ Len(Contents') = Held - 1
      /\ \A i \in 1..(Held - 1) : Contents'[i] = buffer'[Slot(i)]
  <2>1. Contents' \in Seq(Byte \cup {NULL}) /\ Len(Contents') = Held'
        /\ \A i \in 1..Held' : Contents'[i] = buffer'[Slot(i - 1)']
    BY RingFactsNext DEF ContentsOfSlots
  <2>2. \A i \in 1..(Held - 1) : i - 1 \in 0..(Size - 2) /\ (i - 1) + 1 = i
    BY <1>1, <1>3
  <2>3. \A i \in 1..(Held - 1) : Slot(i - 1)' = Slot(i)
    BY <1>2, <2>2, SlotAfter DEF Slot
  <2> QED
    BY <1>4, <2>1, <2>3 DEF Item
<1>8. Tail(Contents) \in Seq(Item) /\ Len(Tail(Contents)) = Held - 1
      /\ \A i \in 1..(Held - 1) : Tail(Contents)[i] = Contents[i + 1]
  BY <1>3, <1>5
<1>9. \A i \in 1..(Held - 1) : Contents'[i] = Tail(Contents)[i]
  <2> TAKE i \in 1..(Held - 1)
  <2>1. i \in 0..(Size - 1) /\ 0 \in 0..(Size - 1) /\ i # 0
        /\ i + 1 \in 1..Held /\ (i + 1) - 1 = i
    BY <1>1, <1>3
  <2>2. Slot(i) \in Slots /\ Slot(i) # get_index
    BY <2>1, HeldRange
  <2>3. buffer'[Slot(i)] = buffer[Slot(i)]
    BY <1>1, <1>2, <2>2
  <2>4. Contents[i + 1] = buffer[Slot((i + 1) - 1)]
    BY <1>5, <2>1
  <2> QED
    BY <1>7, <1>8, <2>1, <2>3, <2>4
<1> QED
  BY <1>3, <1>6, <1>7, <1>8, <1>9, SameSeq

\* Steps of the reader other than a read, and of the handler that move no byte.
LEMMA StutterStep ==
    ASSUME IInv, UNCHANGED <<fifoVars, dr, ch>>
    PROVE  UNCHANGED <<Received, ch>>
BY DEF Received, Contents, Held, Slot, Empty, fifoVars

\* A byte arrives: the newest of the queue.
LEMMA ArrivesPuts ==
    ASSUME IInv, Arrives
    PROVE  \E b \in Byte : Queue!Put(b)
<1>1. FifoType /\ IsrType
  BY DEF IInv, TypeOK
<1>2. PICK b \in Byte : dr' = b
  BY DEF Arrives
<1>3. dr = NULL /\ dr' # NULL /\ UNCHANGED <<fifoVars, ch>>
  BY <1>2, NullAssumption DEF Arrives, readerVars
<1>4. Contents' = Contents
  BY <1>3 DEF Contents, Held, Slot, Empty, fifoVars
<1>5. Received = Contents /\ Received' = Append(Contents, b)
  BY <1>2, <1>3, <1>4 DEF Received
<1>6. Len(Received) < Size
  BY <1>1, <1>5, ContentsType, HeldRange, SizeAssumption
<1> QED
  BY <1>3, <1>5, <1>6 DEF Queue!Put

\* The handler moves the byte into the ring, and the oldest out of a full one.
LEMMA IsrByteKeepsOrDrops ==
    ASSUME IInv, IInv', IsrByte
    PROVE  UNCHANGED <<Received, ch>> \/ Queue!LoseOldest
<1>1. FifoType /\ IsrType /\ FifoType' /\ dr \in Byte /\ dr # NULL
  BY NullAssumption DEF IInv, TypeOK, IsrType, IsrByte
<1>2. Store(dr) /\ dr' = NULL /\ ch' = ch
  BY DEF IsrByte, readerVars
<1>3. Received = Append(Contents, dr) /\ Received' = Contents'
  BY <1>1, <1>2 DEF Received
<1>4. Contents \in Seq(Item) /\ Len(Contents) = Held /\ dr \in Item
      /\ Held \in 0..(Size - 1) /\ Size \in Nat /\ Size >= 2
  BY <1>1, ContentsType, HeldRange, SizeAssumption DEF Item
<1>5. CASE Held < Size - 1
  BY <1>1, <1>2, <1>3, <1>5, StoreAppends
<1>6. CASE Held = Size - 1
  <2>1. Received' = Append(Tail(Contents), dr)
    BY <1>1, <1>2, <1>3, <1>6, StoreDrops
  <2>2. Len(Received) = Size
    BY <1>3, <1>4, <1>6
  <2>3. Contents # <<>>
    BY <1>4, <1>6
  <2>4. Tail(Append(Contents, dr)) = Append(Tail(Contents), dr)
    BY <1>4, <2>3
  <2> QED
    BY <1>2, <1>3, <2>1, <2>2, <2>4 DEF Queue!LoseOldest
<1> QED
  BY <1>4, <1>5, <1>6

\* Clearing the flag loses the newest byte, if one has arrived since getc.
LEMMA IsrClearLoses ==
    ASSUME IInv, IsrClear
    PROVE  UNCHANGED <<Received, ch>> \/ Queue!LoseNewest
<1>1. FifoType /\ IsrType
  BY DEF IInv, TypeOK
<1>2. dr' = NULL /\ UNCHANGED <<fifoVars, ch>>
  BY DEF IsrClear, readerVars
<1>3. Contents' = Contents
  BY <1>2 DEF Contents, Held, Slot, Empty, fifoVars
<1>4. Received' = Contents
  BY <1>2, <1>3 DEF Received
<1>5. CASE dr = NULL
  BY <1>2, <1>4, <1>5 DEF Received
<1>6. CASE dr # NULL
  <2>1. Received = Append(Contents, dr) /\ Contents \in Seq(Item) /\ dr \in Item
    BY <1>1, <1>6, ContentsType DEF Received, IsrType, Item
  <2>2. Received # <<>> /\ SubSeq(Received, 1, Len(Received) - 1) = Contents
    BY <2>1
  <2> QED
    BY <1>2, <1>4, <2>2 DEF Queue!LoseNewest
<1> QED
  BY <1>5, <1>6

\* A read takes the oldest byte, wherever the newest is.
LEMMA ReadGets ==
    ASSUME IInv, IInv', Read
    PROVE  UNCHANGED <<Received, ch>> \/ Queue!Get
<1>1. FifoType /\ IsrType /\ FifoType' /\ dr' = dr
  BY DEF IInv, TypeOK, Read
<1>2. CASE Empty
  <2>1. UNCHANGED <<fifoVars, dr, ch>>
    BY <1>2 DEF Read, readerVars
  <2> QED
    BY <2>1, StutterStep
<1>3. CASE ~Empty
  <2>1. Held > 0 /\ ch' = Head(Contents) /\ Contents' = Tail(Contents)
    BY <1>1, <1>3, ReadTakesHead
  <2>2. Contents \in Seq(Item) /\ Len(Contents) = Held /\ Contents # <<>>
    BY <1>1, <2>1, ContentsType DEF Item
  <2>3. CASE dr = NULL
    <3>1. Received = Contents /\ Received' = Contents'
      BY <1>1, <2>3 DEF Received
    <3> QED
      BY <2>1, <2>2, <3>1 DEF Queue!Get
  <2>4. CASE dr # NULL
    <3>1. Received = Append(Contents, dr) /\ Received' = Append(Tail(Contents), dr)
      BY <1>1, <2>1, <2>4 DEF Received
    <3>2. dr \in Item
      BY <1>1 DEF IsrType, Item
    <3>3. Head(Append(Contents, dr)) = Head(Contents)
          /\ Tail(Append(Contents, dr)) = Append(Tail(Contents), dr)
          /\ Append(Contents, dr) # <<>>
      BY <2>2, <3>2
    <3> QED
      BY <2>1, <3>1, <3>3 DEF Queue!Get
  <2> QED
    BY <2>3, <2>4
<1> QED
  BY <1>2, <1>3

\* Every step of the receiver is one of the queue, or leaves it alone.
LEMMA StepRefines ==
    ASSUME IInv, IInv', [Next]_vars
    PROVE  [Queue!Next]_<<Received, ch>>
<1>1. CASE Arrives
  BY <1>1, ArrivesPuts DEF Queue!Next
<1>2. CASE IsrByte
  BY <1>2, IsrByteKeepsOrDrops DEF Queue!Next
<1>3. CASE IsrClear
  BY <1>3, IsrClearLoses DEF Queue!Next
<1>4. CASE Read
  BY <1>4, ReadGets DEF Queue!Next
<1>5. CASE IsrEnter \/ IsrNoByte \/ IsrIndicate
  <2>1. UNCHANGED <<fifoVars, dr, ch>>
    BY <1>5 DEF IsrEnter, IsrNoByte, IsrIndicate, readerVars
  <2> QED
    BY <2>1, StutterStep
<1>6. CASE SetRxIndicate \/ StartParser \/ ResetNotice \/ TakeNotice \/ RecvFails
           \/ Timeout \/ UNCHANGED vars
  <2>1. UNCHANGED <<fifoVars, dr, ch>>
    BY <1>6 DEF SetRxIndicate, StartParser, ResetNotice, TakeNotice, RecvFails,
                Timeout, vars, readerVars
  <2> QED
    BY <2>1, StutterStep
<1> QED
  BY <1>1, <1>2, <1>3, <1>4, <1>5, <1>6 DEF Next, Isr, Reader

\* The receiver implements the queue.
THEOREM ReceiverIsQueue == Spec => ImplementsQueue
<1>1. Init => Queue!Init
  <2> SUFFICES ASSUME Init PROVE Queue!Init
    OBVIOUS
  <2>1. Held = 0 /\ dr = NULL /\ ch = NULL
    BY DEF Init, Held, Empty
  <2>2. Contents = <<>>
    BY <2>1 DEF Contents
  <2> QED
    BY <2>1, <2>2 DEF Queue!Init, Received
<1>2. IInv /\ IInv' /\ [Next]_vars => [Queue!Next]_<<Received, ch>>
  BY StepRefines
<1> QED
  BY <1>1, <1>2, Invariance, PTL DEF Spec, ImplementsQueue, Queue!Spec
=============================================================================
