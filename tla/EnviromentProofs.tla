--------------------------- MODULE EnviromentProofs ---------------------------
(***************************************************************************)
(* Proofs about Enviroment.tla, for every value of its constants.          *)
(*                                                                         *)
(* The inductive invariant has three parts: TypeOK; Stream, what the mails *)
(* in flight are; and, while the shell has not stopped the node, Control,  *)
(* who may be where.  Control rests on the timing: an upload is over and   *)
(* NB_IOT waits for sem_one again before BYH_M sends the next batch.       *)
(***************************************************************************)
EXTENDS Enviroment, TLAPS

\* The seconds since BYH_M released sem_one, while it is in its loop.
Elapsed == secs + (1 - byh_delay)

BYHNotStarted == byh_pc \in {"none", "take", "wait"}
BYHMeasures   == byh_pc \in {"humiture", "d1", "d2", "d3"}

\* The values received, then the mails queued, are the fields of the batch
\* BYH_M sends, in order.
Stream ==
    /\ \A k \in 1..Len(nb_got) : nb_got[k] = [field |-> k, batch |-> batch]
    /\ \A k \in 1..Len(iot_mb) :
          iot_mb[k] = [field |-> Len(nb_got) + k, batch |-> batch]

\* How many values NB_IOT holds, and how many mails are queued for it.
Counts ==
    /\ nb_pc = "recv" => Len(nb_got) < 5
    /\ nb_pc = "upload" => Len(nb_got) = 5 /\ Len(iot_mb) = 0
    /\ nb_pc \notin {"recv", "upload"} => Len(nb_got) = 0
    /\ byh_pc = "send" => /\ byh_sent < 10
                          /\ Len(iot_mb) = IF byh_sent < 5 THEN byh_sent ELSE 5
    /\ byh_pc = "release1" => Len(iot_mb) = 5
    /\ BYHNotStarted \/ BYHMeasures => byh_sent = 0 /\ Len(iot_mb) = 0
    /\ byh_pc = "idle" => byh_sent = 0
    /\ byh_pc \in {"release2", "idle"} =>
          Len(iot_mb) = IF nb_pc = "recv" THEN 5 - Len(nb_got) ELSE 0
    /\ byh_pc = "asserted" /\ nb_pc = "recv" => Len(iot_mb) + Len(nb_got) = 5

\* Who waits on sem_one, and who may take from it.
Tokens ==
    sem_one # NULL =>
        /\ nb_pc # "asserted"
        /\ sem_one.value > 0 =>
              sem_one.value = 1 /\ byh_pc = "none" /\ nb_pc = "take"
        /\ sem_one.waiters = IF byh_pc = "wait" THEN <<"BYH">>
                             ELSE IF nb_pc = "wait" THEN <<"NB">> ELSE <<>>
        /\ byh_pc \in {"take", "wait"} => nb_pc \in {"none", "init", "start"}
        /\ byh_pc = "asserted" => nb_pc \notin {"none", "init", "start"}

\* Where NB_IOT is, given where BYH_M is.
Timing ==
    /\ byh_pc = "take" => \/ nb_pc = "none"
                          \/ nb_pc = "init" /\ nb_left = InitDelay
    /\ byh_pc = "wait" => nb_pc \in {"none", "init", "start", "asserted"}
    /\ ~BYHNotStarted /\ byh_pc # "asserted" => nb_pc \notin {"none", "init", "start"}
    /\ BYHMeasures \/ byh_pc \in {"send", "release1"} =>
          nb_pc \in {"take", "wait", "asserted"}
    /\ nb_pc = "take" => /\ byh_pc \notin {"d2", "d3", "send", "release1"}
                         /\ byh_pc = "d1" => byh_delay = 1
                         /\ byh_pc = "idle" => Elapsed <= UploadMax
    /\ byh_pc = "release2" /\ nb_pc = "upload" => nb_left = UploadMax
    /\ byh_pc = "idle" /\ nb_pc = "recv" => Elapsed = 0
    /\ byh_pc = "idle" /\ nb_pc = "upload" => nb_left + Elapsed = UploadMax
    /\ BYHMeasures \/ BYHNotStarted => secs = 0
    /\ byh_pc = "none" => nb_pc # "upload"

Booted == /\ mb_inited => main = "done"
          /\ ~mb_inited => nb_pc = "none" /\ byh_pc = "none" /\ led_pc = "none"

Control == Counts /\ Tokens /\ Timing /\ Booted

IInv == TypeOK /\ Stream /\ (shell = "idle" => Control)

\* The actions one by one.
LEMMA Steps ==
  ASSUME [Next]_vars
  PROVE  \/ Boot \/ Rerun \/ NBInit \/ NBRelease \/ NBTake \/ NBRecv \/ NBUpload
         \/ BYHTake \/ BYHHumiture \/ BYHNoise \/ BYHPM \/ BYHPMDelayed
         \/ BYHSend \/ BYHReleaseOne \/ BYHReleaseTwo \/ BYHSecond
         \/ LEDStart \/ LEDPoll \/ LEDRecv \/ LEDDraw \/ Tick \/ UNCHANGED vars
  BY DEF Next, NBStep, BYHStep, LEDStep

\* The two facts about sequences the steps below need.
LEMMA FirstOfSeq ==
  ASSUME NEW S, NEW q \in Seq(S), Len(q) >= 1
  PROVE  q[1] \in S
  OBVIOUS

LEMMA TailOfSeq ==
  ASSUME NEW S, NEW q \in Seq(S), q # <<>>
  PROVE  /\ Head(q) = q[1] /\ Head(q) \in S
         /\ Tail(q) \in Seq(S) /\ Len(q) \in Nat \ {0}
         /\ Len(Tail(q)) = Len(q) - 1
         /\ \A k \in 1..Len(Tail(q)) : Tail(q)[k] = q[k + 1]
  OBVIOUS

LEMMA AppendToSeq ==
  ASSUME NEW S, NEW q \in Seq(S), NEW e \in S
  PROVE  /\ Append(q, e) \in Seq(S) /\ Len(q) \in Nat
         /\ Len(Append(q, e)) = Len(q) + 1
         /\ \A k \in 1..Len(q) : Append(q, e)[k] = q[k]
         /\ Append(q, e)[Len(q) + 1] = e
  OBVIOUS

LEMMA TypeInit == Init => TypeOK
<1> SUFFICES ASSUME Init PROVE TypeOK
  OBVIOUS
<1> USE DEF Init
<1>1. SemType
  BY DEF SemType
<1>2. MailType
  BY DEF MailType, MbSize
<1>3. SysType /\ NBType
  BY DEF SysType, NBType
<1>4. BYHType
  BY BatchesAssumption, SamplePeriodAssumption DEF BYHType, BatchNo
<1>5. labels \in [Fields -> Mail \cup {NULL}]
  BY DEF NoLabels
<1>6. LEDType
  BY <1>5 DEF LEDType
<1> QED
  BY <1>1, <1>2, <1>3, <1>4, <1>6 DEF TypeOK

LEMMA ReleaseType ==
  ASSUME NEW s \in Sem
  PROVE  Release(s) \in Sem
<1>1. CASE s.waiters # <<>>
  <2>1. Tail(s.waiters) \in Seq({"NB", "BYH"})
    BY <1>1 DEF Sem
  <2> QED
    BY <1>1, <2>1 DEF Sem, Release
<1>2. CASE s.waiters = <<>>
  BY <1>2, SemWrapAssumption DEF Sem, Release
<1> QED
  BY <1>1, <1>2

LEMMA TakeType ==
  ASSUME NEW s \in Sem, NEW th, th \in {"NB", "BYH"} \/ s.value > 0
  PROVE  Take(s, th) \in Sem
<1>1. CASE s.value > 0
  BY <1>1, SemWrapAssumption DEF Sem, Take
<1>2. CASE ~(s.value > 0)
  <2>1. Append(s.waiters, th) \in Seq({"NB", "BYH"})
    BY <1>2 DEF Sem
  <2> QED
    BY <1>2, <2>1 DEF Sem, Take
<1> QED
  BY <1>1, <1>2

LEMMA SemStep == SemType /\ [Next]_vars => SemType'
<1> SUFFICES ASSUME SemType, [Next]_vars PROVE SemType'
  OBVIOUS
<1> USE DEF SemType
<1>1. CASE Boot \/ Rerun
  <2>1. NewSem \in Sem
    BY SemWrapAssumption DEF NewSem, Sem
  <2> QED
    BY <1>1, <2>1 DEF Boot, Rerun, RunEnviroment
<1>2. CASE NBRelease \/ BYHReleaseOne
  BY <1>2, ReleaseType DEF NBRelease, BYHReleaseOne
<1>3. CASE NBTake \/ BYHTake
  BY <1>3, TakeType DEF NBTake, BYHTake
<1>4. CASE BYHReleaseTwo
  BY <1>4, ReleaseType DEF BYHReleaseTwo
<1>5. CASE LEDPoll
  BY <1>5, TakeType DEF LEDPoll
<1> QED
  BY <1>1, <1>2, <1>3, <1>4, <1>5, Steps
  DEF NBInit, NBRecv, NBUpload, BYHHumiture, BYHNoise, BYHPM, BYHPMDelayed,
      BYHSend, BYHSecond, LEDStart, LEDRecv, LEDDraw, Tick, vars, semVars

LEMMA MailStep == IInv /\ [Next]_vars => MailType'
<1> SUFFICES ASSUME MailType, BYHType, shell = "idle" => Counts, [Next]_vars
             PROVE  MailType'
  BY DEF IInv, TypeOK, Control
<1>1. CASE Boot \/ Rerun
  <2>1. /\ iot_mb' = iot_mb \/ iot_mb' = <<>>
        /\ led_mb' = led_mb \/ led_mb' = <<>>
        /\ nb_got' = nb_got
    BY <1>1 DEF Boot, Rerun, RunEnviroment, InitAndStart, nbVars
  <2>2. <<>> \in Seq(Mail) /\ Len(<<>>) <= MbSize
    BY DEF MbSize
  <2> QED
    BY <2>1, <2>2 DEF MailType
<1>2. CASE NBRecv
  <2>1. Head(iot_mb) \in Mail /\ iot_mb' \in Seq(Mail) /\ Len(iot_mb') = Len(iot_mb) - 1
    BY <1>2 DEF NBRecv, MailType
  <2>2. nb_got' \in Seq(Mail) /\ Len(nb_got') = Len(nb_got) + 1
    BY <1>2, <2>1 DEF NBRecv, MailType
  <2> QED
    BY <1>2, <2>1, <2>2 DEF NBRecv, MailType, MbSize
<1>3. CASE NBUpload
  BY <1>3 DEF NBUpload, MailType
<1>4. CASE BYHSend
  <2>1. /\ byh_sent < 5 => [field |-> byh_sent + 1, batch |-> batch] \in Mail
        /\ ~(byh_sent < 5) => [field |-> byh_sent - 4, batch |-> batch] \in Mail
    BY <1>4 DEF BYHSend, BYHType, Counts, Cpu24, Mail, Fields
  <2>2. \A mb \in Seq(Mail), m \in Mail : Len(mb) <= MbSize =>
            Post(mb, m) \in Seq(Mail) /\ Len(Post(mb, m)) <= MbSize
    BY DEF Post, MbSize
  <2> QED
    BY <1>4, <2>1, <2>2 DEF BYHSend, nbVars, MailType
<1>5. CASE LEDRecv
  <2>1. led_mb \in Seq(Mail)
    BY DEF MailType
  <2>2. CASE led_mb = <<>>
    BY <1>5, <2>2 DEF LEDRecv, nbVars, MailType
  <2>3. CASE led_mb # <<>>
    <3>1. led_mb' \in Seq(Mail) /\ Len(led_mb') = Len(led_mb) - 1 /\ Len(led_mb) \in Nat
      BY <1>5, <2>1, <2>3, TailOfSeq DEF LEDRecv
    <3> QED
      BY <1>5, <3>1 DEF LEDRecv, nbVars, MbSize, MailType
  <2> QED
    BY <2>2, <2>3
<1> QED
  BY <1>1, <1>2, <1>3, <1>4, <1>5, Steps
  DEF NBInit, NBRelease, NBTake, BYHTake, BYHHumiture, BYHNoise, BYHPM,
      BYHPMDelayed, BYHReleaseOne, BYHReleaseTwo, BYHSecond, LEDStart,
      LEDPoll, LEDDraw, Tick, vars, nbVars, MailType

LEMMA SuccType == \A b \in BatchNo : Succ(b) \in BatchNo
  BY BatchesAssumption DEF BatchNo, Succ

LEMMA SysStep == SysType /\ [Next]_vars => SysType'
<1> SUFFICES ASSUME SysType, [Next]_vars PROVE SysType'
  OBVIOUS
<1> USE DEF SysType
<1>1. CASE Boot \/ Rerun
  BY <1>1 DEF Boot, Rerun, RunEnviroment, InitAndStart, byhVars, ledVars
<1>2. CASE BYHReleaseTwo
  BY <1>2 DEF BYHReleaseTwo, sysVars, ledVars
<1>3. CASE LEDPoll
  BY <1>3 DEF LEDPoll, sysVars, byhVars
<1>4. CASE LEDRecv
  BY <1>4 DEF LEDRecv, sysVars, byhVars
<1>5. CASE Tick
  BY <1>5 DEF Tick, sysVars
<1> QED
  BY <1>1, <1>2, <1>3, <1>4, <1>5, Steps
  DEF NBInit, NBRelease, NBTake, NBRecv, NBUpload, BYHTake, BYHHumiture,
      BYHNoise, BYHPM, BYHPMDelayed, BYHSend, BYHReleaseOne, BYHSecond,
      LEDStart, LEDDraw, vars, sysVars, byhVars, ledVars

LEMMA NBTypeStep == IInv /\ [Next]_vars => NBType'
<1> SUFFICES ASSUME MailType, NBType, shell = "idle" => Counts, [Next]_vars
             PROVE  NBType'
  BY DEF IInv, TypeOK, Control
<1> USE DEF NBType
<1>1. CASE Boot \/ Rerun
  BY <1>1, InitDelayAssumption DEF Boot, Rerun, RunEnviroment, InitAndStart, nbVars
<1>2. CASE NBInit \/ NBRelease \/ NBTake
  BY <1>2 DEF NBInit, NBRelease, NBTake
<1>3. CASE NBRecv
  BY <1>3, UploadMaxAssumption DEF NBRecv
<1>4. CASE NBUpload
  <2>1. Len(nb_got) = 5
    BY <1>4 DEF NBUpload, Counts, Cpu24
  <2>2. nb_got \in Seq(Mail)
    BY DEF MailType
  <2>3. nb_got[1] \in Mail
    BY <2>1, <2>2, FirstOfSeq
  <2> QED
    BY <1>4, <2>3 DEF NBUpload, Mail
<1>5. CASE BYHReleaseOne
  BY <1>5 DEF BYHReleaseOne
<1>6. CASE Tick
  BY <1>6 DEF Tick
<1> QED
  BY <1>1, <1>2, <1>3, <1>4, <1>5, <1>6, Steps
  DEF BYHTake, BYHHumiture, BYHNoise, BYHPM, BYHPMDelayed, BYHSend,
      BYHReleaseTwo, BYHSecond, LEDStart, LEDPoll, LEDRecv, LEDDraw, vars, nbVars

LEMMA BYHTypeStep == IInv /\ [Next]_vars => BYHType'
<1> SUFFICES ASSUME BYHType, shell = "idle" => Counts, [Next]_vars
             PROVE  BYHType'
  BY DEF IInv, TypeOK, Control
<1> USE DEF BYHType
<1>1. CASE Boot \/ Rerun
  BY <1>1 DEF Boot, Rerun, RunEnviroment, InitAndStart, byhVars
<1>2. CASE NBRelease
  BY <1>2 DEF NBRelease
<1>3. CASE BYHTake \/ BYHNoise \/ BYHPM \/ BYHPMDelayed
  BY <1>3 DEF BYHTake, BYHNoise, BYHPM, BYHPMDelayed
<1>4. CASE BYHHumiture
  BY <1>4, SuccType DEF BYHHumiture
<1>5. CASE BYHSend
  BY <1>5 DEF BYHSend, Counts, Cpu24
<1>6. CASE BYHReleaseOne \/ BYHReleaseTwo
  BY <1>6, SamplePeriodAssumption DEF BYHReleaseOne, BYHReleaseTwo
<1>7. CASE BYHSecond
  BY <1>7, SamplePeriodAssumption DEF BYHSecond, SampleDue
<1>8. CASE Tick
  BY <1>8 DEF Tick
<1> QED
  BY <1>1, <1>2, <1>3, <1>4, <1>5, <1>6, <1>7, <1>8, Steps
  DEF NBInit, NBTake, NBRecv, NBUpload, LEDStart, LEDPoll, LEDRecv, LEDDraw,
      vars, byhVars

LEMMA LEDTypeStep == MailType /\ LEDType /\ [Next]_vars => LEDType'
<1> SUFFICES ASSUME MailType, LEDType, [Next]_vars PROVE LEDType'
  OBVIOUS
<1> USE DEF LEDType
<1>1. CASE Boot \/ Rerun
  BY <1>1 DEF Boot, Rerun, RunEnviroment, InitAndStart, ledVars
<1>2. CASE LEDStart
  BY <1>2 DEF LEDStart
<1>3. CASE LEDPoll
  BY <1>3 DEF LEDPoll
<1>4. CASE LEDRecv
  <2>1. led_mb # <<>> => Head(led_mb) \in Mail
    BY DEF MailType
  <2>2. labels' \in [Fields -> Mail \cup {NULL}]
    BY <1>4, <2>1 DEF LEDRecv
  <2> QED
    BY <1>4, <2>2 DEF LEDRecv, LastRecv
<1>5. CASE LEDDraw
  <2>1. panel' \in {<<>>} \cup [WeatherFields -> Mail \cup {NULL}]
                         \cup [PMFields -> Mail \cup {NULL}]
    BY <1>5 DEF LEDDraw, Fields, WeatherFields, PMFields
  <2>2. led_i' \in Nat
    BY <1>5 DEF LEDDraw, NextI
  <2> QED
    BY <1>5, <2>1, <2>2 DEF LEDDraw
<1>6. CASE Tick
  BY <1>6 DEF Tick
<1> QED
  BY <1>1, <1>2, <1>3, <1>4, <1>5, <1>6, Steps
  DEF NBInit, NBRelease, NBTake, NBRecv, NBUpload, BYHTake, BYHHumiture,
      BYHNoise, BYHPM, BYHPMDelayed, BYHSend, BYHReleaseOne, BYHReleaseTwo,
      BYHSecond, vars, ledVars
-----------------------------------------------------------------------------
(* The mails in flight.                                                    *)

LEMMA StreamStep == IInv /\ [Next]_vars => Stream'
<1> SUFFICES ASSUME IInv, [Next]_vars PROVE Stream'
  OBVIOUS
<1>t. iot_mb \in Seq(Mail) /\ nb_got \in Seq(Mail)
  BY DEF IInv, TypeOK, MailType
<1>1. CASE Boot \/ Rerun
  <2>1. iot_mb' = iot_mb \/ iot_mb' = <<>>
    BY <1>1 DEF Boot, Rerun, RunEnviroment, InitAndStart
  <2>2. nb_got' = nb_got /\ batch' = batch
    BY <1>1 DEF Boot, Rerun, RunEnviroment, InitAndStart, nbVars, byhVars
  <2> QED
    BY <2>1, <2>2 DEF IInv, Stream
<1>2. CASE NBRecv
  <2>1. /\ iot_mb # <<>> /\ nb_got' = Append(nb_got, Head(iot_mb))
        /\ iot_mb' = Tail(iot_mb) /\ batch' = batch
    BY <1>2 DEF NBRecv, byhVars
  <2>2. Head(iot_mb) = [field |-> Len(nb_got) + 1, batch |-> batch]
    <3>1. Head(iot_mb) = iot_mb[1] /\ 1 \in 1..Len(iot_mb)
      BY <2>1, <1>t, TailOfSeq
    <3> QED
      BY <3>1 DEF IInv, Stream
  <2>3. \A k \in 1..Len(nb_got') : nb_got'[k] = [field |-> k, batch |-> batch]
    BY <2>1, <2>2, <1>t, AppendToSeq, TailOfSeq DEF IInv, Stream
  <2>4. \A k \in 1..Len(iot_mb') :
           iot_mb'[k] = [field |-> Len(nb_got') + k, batch |-> batch]
    <3> SUFFICES ASSUME NEW k \in 1..Len(iot_mb')
                 PROVE  iot_mb'[k] = [field |-> Len(nb_got') + k, batch |-> batch]
      OBVIOUS
    <3>1. k + 1 \in 1..Len(iot_mb) /\ iot_mb'[k] = iot_mb[k + 1]
      BY <2>1, <1>t, TailOfSeq
    <3>2. Len(nb_got') = Len(nb_got) + 1 /\ Len(nb_got) \in Nat
      BY <2>1, <1>t, AppendToSeq, TailOfSeq
    <3> QED
      BY <3>1, <3>2 DEF IInv, Stream
  <2> QED
    BY <2>1, <2>3, <2>4 DEF Stream
<1>3. CASE NBUpload
  <2>1. nb_got' = <<>> /\ iot_mb' = iot_mb
    BY <1>3 DEF NBUpload
  <2>2. Len(iot_mb) = 0
    BY <1>3 DEF NBUpload, IInv, Control, Counts, Cpu24
  <2> QED
    BY <2>1, <2>2 DEF Stream
<1>4. CASE BYHHumiture
  <2>1. nb_got' = nb_got /\ iot_mb' = iot_mb
    BY <1>4 DEF BYHHumiture, nbVars
  <2>2. Len(iot_mb) = 0 /\ Len(nb_got) = 0
    BY <1>4 DEF BYHHumiture, IInv, Control, Counts, Timing, BYHMeasures, Cpu24
  <2> QED
    BY <2>1, <2>2 DEF Stream
<1>5. CASE BYHSend
  <2>1. Len(nb_got) = 0 /\ nb_got' = nb_got /\ batch' = batch
    BY <1>5 DEF BYHSend, IInv, Control, Counts, Timing, Cpu24, nbVars
  <2>2. CASE byh_sent < 5
    <3> DEFINE m == [field |-> byh_sent + 1, batch |-> batch]
    <3>1. Len(iot_mb) = byh_sent
      BY <1>5, <2>2 DEF BYHSend, IInv, Control, Counts, Cpu24
    <3>2. m \in Mail
      BY <2>2 DEF IInv, TypeOK, BYHType, Mail, Fields
    <3>3. iot_mb' = Append(iot_mb, m)
      BY <1>5, <2>2, <3>1 DEF BYHSend, Post, MbSize
    <3> QED
      BY <2>1, <3>1, <3>2, <3>3, <1>t, AppendToSeq DEF IInv, Stream
  <2>3. CASE ~(byh_sent < 5)
    <3>1. iot_mb' = iot_mb
      BY <1>5, <2>3 DEF BYHSend
    <3> QED
      BY <2>1, <3>1 DEF IInv, Stream
  <2> QED
    BY <2>2, <2>3
<1> QED
  BY <1>1, <1>2, <1>3, <1>4, <1>5, Steps
  DEF NBInit, NBRelease, NBTake, BYHTake, BYHNoise, BYHPM, BYHPMDelayed,
      BYHReleaseOne, BYHReleaseTwo, BYHSecond, LEDStart, LEDPoll, LEDRecv,
      LEDDraw, Tick, vars, nbVars, byhVars, IInv, Stream

-----------------------------------------------------------------------------
(* Control is preserved as long as the shell does not stop.                *)

LEMMA StillIdle == [Next]_vars /\ shell' = "idle" => shell = "idle"
<1> SUFFICES ASSUME [Next]_vars, shell' = "idle" PROVE shell = "idle"
  OBVIOUS
<1>1. CASE Boot
  BY <1>1 DEF Boot, RunEnviroment, InitAndStart
<1>2. CASE Rerun
  BY <1>2 DEF Rerun
<1> QED
  BY <1>1, <1>2, Steps
  DEF NBInit, NBRelease, NBTake, NBRecv, NBUpload, BYHTake, BYHHumiture,
      BYHNoise, BYHPM, BYHPMDelayed, BYHSend, BYHReleaseOne, BYHReleaseTwo,
      BYHSecond, LEDStart, LEDPoll, LEDRecv, LEDDraw, Tick, vars, sysVars

\* Every run of Enviroment() that does not end in the assertion leaves the
\* threads alone, or starts them.
LEMMA RunCases ==
  ASSUME IInv, Boot \/ Rerun, shell' = "idle"
  PROVE  \/ UNCHANGED <<iot_mb, led_mb, mb_inited, nbVars, byhVars, ledVars>>
         \/ /\ nb_pc = "none" /\ byh_pc = "none" /\ led_pc = "none"
            /\ iot_mb' = <<>> /\ led_mb' = <<>> /\ mb_inited'
            /\ nb_pc' \in {"none", "init"} /\ nb_left' = InitDelay
            /\ byh_pc' \in {"none", "take"} /\ led_pc' \in {"none", "start"}
            /\ UNCHANGED <<nb_got, byh_delay, secs, byh_sent, batch, led_k, labels>>
<1>1. shell = "idle"
  BY DEF Boot, Rerun, RunEnviroment, InitAndStart
<1>2. Booted
  BY <1>1 DEF IInv, Control
<1> QED
  BY <1>1, <1>2 DEF Boot, Rerun, RunEnviroment, InitAndStart, Booted

\* Who a release of sem_one resumes, and who may find its value positive.
LEMMA ResumeOne ==
  ASSUME IInv, shell = "idle", sem_one # NULL
  PROVE  /\ Resumes(sem_one, "BYH") <=> byh_pc = "wait"
         /\ Resumes(sem_one, "NB") <=> (nb_pc = "wait" /\ byh_pc # "wait")
         /\ sem_one.value > 0 => byh_pc = "none" /\ nb_pc = "take"
  BY DEF IInv, Control, Tokens, Resumes

LEMMA CountsStep == IInv /\ [Next]_vars /\ shell' = "idle" => Counts'
<1> SUFFICES ASSUME IInv, [Next]_vars, shell' = "idle" PROVE Counts'
  OBVIOUS
<1>i. shell = "idle"
  BY StillIdle
<1>c. Counts /\ Timing
  BY <1>i DEF IInv, Control
<1>t. /\ iot_mb \in Seq(Mail) /\ nb_got \in Seq(Mail)
      /\ Len(iot_mb) \in Nat /\ Len(nb_got) \in Nat
  BY DEF IInv, TypeOK, MailType
<1>b. BYHType
  BY DEF IInv, TypeOK
<1> USE DEF BYHType
<1>1. CASE Boot \/ Rerun
  BY <1>1, <1>c, <1>t, <1>b, RunCases
  DEF Counts, BYHNotStarted, BYHMeasures, nbVars, byhVars
<1>2. CASE NBInit
  BY <1>2, <1>c, <1>t DEF NBInit, Counts, byhVars, BYHNotStarted, BYHMeasures
<1>3. CASE NBRelease
  <2>1. byh_pc' = byh_pc \/ (byh_pc = "wait" /\ byh_pc' = "humiture")
    BY <1>3, <1>i, ResumeOne DEF NBRelease, Resumes
  <2> QED
    BY <1>3, <1>c, <1>t, <2>1 DEF NBRelease, Counts, Timing, BYHNotStarted, BYHMeasures
<1>4. CASE NBTake
  <2>1. nb_pc' \in {"asserted", "wait"} \/ (byh_pc = "none" /\ nb_pc' = "recv")
    <3>1. CASE sem_one = NULL
      BY <1>4, <3>1 DEF NBTake
    <3>2. CASE sem_one # NULL
      BY <1>4, <1>i, <3>2, ResumeOne DEF NBTake
    <3> QED
      BY <3>1, <3>2
  <2> QED
    BY <1>4, <1>c, <1>t, <2>1 DEF NBTake, Counts, Timing, byhVars, BYHNotStarted, BYHMeasures
<1>5. CASE NBRecv
  <2>1. Len(iot_mb) > 0 /\ Len(iot_mb') = Len(iot_mb) - 1 /\ Len(nb_got') = Len(nb_got) + 1
    BY <1>5, <1>t, TailOfSeq, AppendToSeq DEF NBRecv
  <2>2. /\ nb_pc = "recv" /\ byh_pc' = byh_pc /\ byh_sent' = byh_sent
        /\ IF Len(nb_got') < 5 THEN nb_pc' = "recv" ELSE nb_pc' = "upload"
    BY <1>5 DEF NBRecv, byhVars
  <2> QED
    BY <1>c, <1>t, <1>b, <2>1, <2>2 DEF Counts, Timing, BYHNotStarted, BYHMeasures
<1>6. CASE NBUpload
  BY <1>6, <1>c, <1>t DEF NBUpload, Counts, byhVars, BYHNotStarted, BYHMeasures
<1>7. CASE BYHTake \/ BYHHumiture \/ BYHNoise \/ BYHPM \/ BYHPMDelayed
  BY <1>7, <1>c, <1>t
  DEF BYHTake, BYHHumiture, BYHNoise, BYHPM, BYHPMDelayed, Counts, Timing,
      nbVars, BYHNotStarted, BYHMeasures
<1>8. CASE BYHSend
  <2>1. Len(iot_mb') = IF byh_sent < 5 THEN byh_sent + 1 ELSE 5
    BY <1>8, <1>c, <1>t, <1>b DEF BYHSend, Post, MbSize, Counts
  <2> QED
    BY <1>8, <1>c, <1>t, <1>b, <2>1 DEF BYHSend, Counts, Timing, nbVars, BYHNotStarted, BYHMeasures
<1>9. CASE BYHReleaseOne
  <2>1. \/ byh_pc' = "asserted" /\ nb_pc' = nb_pc
        \/ byh_pc' = "release2" /\ nb_pc = "wait" /\ nb_pc' = "recv"
    BY <1>9, <1>i, <1>c, ResumeOne DEF BYHReleaseOne, Resumes, Timing, IInv, Control, Tokens
  <2> QED
    <3>1. /\ byh_pc = "release1" /\ iot_mb' = iot_mb /\ nb_got' = nb_got
          /\ nb_pc \in {"take", "wait", "asserted"}
      BY <1>9, <1>c DEF BYHReleaseOne, Timing
    <3>2. Len(iot_mb) = 5 /\ Len(nb_got) = 0
      BY <3>1, <1>c DEF Counts
    <3> QED
      BY <2>1, <3>1, <3>2 DEF Counts, BYHNotStarted, BYHMeasures
<1>10. CASE BYHReleaseTwo
  BY <1>10, <1>c, <1>t DEF BYHReleaseTwo, Counts, nbVars, BYHNotStarted, BYHMeasures
<1>11. CASE BYHSecond
  <2>1. byh_pc = "idle" /\ Elapsed > 0
    BY <1>11, <1>b DEF BYHSecond, Elapsed
  <2> QED
    BY <1>11, <1>c, <1>t, <1>b, <2>1
    DEF BYHSecond, Counts, Timing, nbVars, BYHNotStarted, BYHMeasures
<1>12. CASE LEDStart \/ LEDPoll \/ LEDRecv \/ LEDDraw \/ Tick \/ UNCHANGED vars
  BY <1>12, <1>c
  DEF LEDStart, LEDPoll, LEDRecv, LEDDraw, Tick, vars, nbVars, byhVars,
      Counts, BYHNotStarted, BYHMeasures
<1> QED
  BY <1>1, <1>2, <1>3, <1>4, <1>5, <1>6, <1>7, <1>8, <1>9, <1>10, <1>11, <1>12, Steps

LEMMA TokensStep == IInv /\ [Next]_vars /\ shell' = "idle" => Tokens'
<1> SUFFICES ASSUME IInv, [Next]_vars, shell' = "idle" PROVE Tokens'
  OBVIOUS
<1>i. shell = "idle"
  BY StillIdle
<1>c. Tokens /\ Timing /\ Booted
  BY <1>i DEF IInv, Control
<1>s. sem_one \in Sem \cup {NULL} /\ BYHType /\ NBType
  BY DEF IInv, TypeOK, SemType
<1>1. CASE Boot \/ Rerun
  <2>1. CASE UNCHANGED <<mb_inited, nbVars, byhVars>>
    <3>1. ~mb_inited \/ UNCHANGED sem_one \/ sem_one' = NULL
      BY <1>1, <1>i DEF Boot, Rerun, RunEnviroment, InitAndStart
    <3>2. sem_one' \in {NULL, NewSem}
      BY <1>1 DEF Boot, Rerun, RunEnviroment
    <3> QED
      BY <2>1, <3>1, <3>2, <1>c DEF Tokens, Booted, NewSem, nbVars, byhVars
  <2>2. CASE ~UNCHANGED <<mb_inited, nbVars, byhVars>>
    <3>1. sem_one' \in {NULL, NewSem}
      BY <1>1 DEF Boot, Rerun, RunEnviroment
    <3> QED
      BY <1>1, <2>2, <3>1, RunCases DEF Tokens, NewSem
  <2> QED
    BY <2>1, <2>2
<1>2. CASE NBRelease
  <2> SUFFICES ASSUME sem_one # NULL PROVE Tokens'
    BY <1>2 DEF NBRelease, Tokens
  <2>1. nb_pc = "start" /\ sem_one.value = 0 /\ sem_one \in Sem
    BY <1>2, <1>c, <1>s DEF NBRelease, Tokens, Sem
  <2>2. CASE byh_pc = "wait"
    <3>1. sem_one.waiters = <<"BYH">>
      BY <2>2, <1>c DEF Tokens
    <3>2. sem_one'.value = 0 /\ sem_one'.waiters = <<>>
      BY <1>2, <2>1, <3>1 DEF NBRelease, Release, Sem
    <3>3. byh_pc' = "humiture" /\ nb_pc' = "take"
      BY <1>2, <3>1 DEF NBRelease, Resumes
    <3> QED
      BY <3>2, <3>3 DEF Tokens
  <2>3. CASE byh_pc # "wait"
    <3>1. sem_one.waiters = <<>> /\ byh_pc = "none"
      BY <1>s, <2>1, <2>3, <1>c DEF Tokens, Timing, BYHNotStarted, BYHType
    <3>2. sem_one'.value = 1 /\ sem_one'.waiters = <<>>
      BY <1>2, <2>1, <3>1, SemWrapAssumption DEF NBRelease, Release, Sem
    <3>3. byh_pc' = "none" /\ nb_pc' = "take"
      BY <1>2, <3>1 DEF NBRelease, Resumes
    <3> QED
      BY <3>2, <3>3 DEF Tokens
  <2> QED
    BY <2>2, <2>3
<1>3. CASE NBTake
  <2> SUFFICES ASSUME sem_one # NULL PROVE Tokens'
    BY <1>3 DEF NBTake, Tokens
  <2>1. nb_pc = "take" /\ sem_one \in Sem /\ byh_pc' = byh_pc
    BY <1>3, <1>s DEF NBTake, byhVars
  <2>2. byh_pc \notin {"take", "wait"} /\ sem_one.waiters = <<>>
    BY <2>1, <1>c DEF Tokens
  <2>3. CASE sem_one.value > 0
    <3>1. sem_one.value = 1 /\ byh_pc = "none"
      BY <2>1, <2>3, <1>c DEF Tokens
    <3>2. sem_one'.value = 0 /\ sem_one'.waiters = <<>> /\ nb_pc' = "recv"
      BY <1>3, <2>1, <2>2, <3>1 DEF NBTake, Take, Sem
    <3> QED
      BY <2>1, <3>1, <3>2 DEF Tokens
  <2>4. CASE sem_one.value = 0
    <3>1. sem_one'.value = 0 /\ sem_one'.waiters = <<"NB">> /\ nb_pc' = "wait"
      BY <1>3, <2>1, <2>2, <2>4 DEF NBTake, Take, Sem
    <3> QED
      BY <2>1, <2>2, <3>1, <1>3, <1>c DEF NBTake, Tokens
  <2> QED
    BY <2>1, <2>3, <2>4 DEF Sem
<1>4. CASE BYHTake
  <2> SUFFICES ASSUME sem_one # NULL PROVE Tokens'
    BY <1>4 DEF BYHTake, Tokens
  <2>1. byh_pc = "take" /\ sem_one \in Sem /\ nb_pc' = nb_pc
    BY <1>4, <1>s DEF BYHTake, nbVars
  <2>2. sem_one.value = 0 /\ sem_one.waiters = <<>> /\ nb_pc \in {"none", "init", "start"}
    BY <2>1, <1>c DEF Tokens, Sem
  <2>3. sem_one'.value = 0 /\ sem_one'.waiters = <<"BYH">> /\ byh_pc' = "wait"
    BY <1>4, <2>1, <2>2 DEF BYHTake, Take, Sem
  <2> QED
    BY <2>1, <2>2, <2>3 DEF Tokens
<1>5. CASE BYHReleaseOne
  <2> SUFFICES ASSUME sem_one # NULL PROVE Tokens'
    BY <1>5 DEF BYHReleaseOne, Tokens
  <2>1. byh_pc = "release1" /\ sem_one \in Sem /\ nb_pc = "wait"
    BY <1>5, <1>s, <1>c DEF BYHReleaseOne, Tokens, Timing
  <2>2. sem_one.value = 0 /\ sem_one.waiters = <<"NB">>
    BY <2>1, <1>c DEF Tokens, Sem
  <2>3. sem_one'.value = 0 /\ sem_one'.waiters = <<>>
    BY <1>5, <2>1, <2>2 DEF BYHReleaseOne, Release, Sem
  <2>4. byh_pc' = "release2" /\ nb_pc' = "recv"
    BY <1>5, <2>2 DEF BYHReleaseOne, Resumes
  <2> QED
    BY <2>3, <2>4 DEF Tokens
<1>6. CASE NBInit \/ NBRecv \/ NBUpload
  BY <1>6, <1>c DEF NBInit, NBRecv, NBUpload, Tokens, semVars, byhVars
<1>7. CASE BYHHumiture \/ BYHNoise \/ BYHPM \/ BYHPMDelayed \/ BYHSend \/ BYHReleaseTwo \/ BYHSecond
  BY <1>7, <1>c
  DEF BYHHumiture, BYHNoise, BYHPM, BYHPMDelayed, BYHSend, BYHReleaseTwo,
      BYHSecond, Tokens, Timing, BYHNotStarted, semVars, nbVars
<1>8. CASE LEDStart \/ LEDPoll \/ LEDRecv \/ LEDDraw \/ Tick \/ UNCHANGED vars
  BY <1>8, <1>c DEF LEDStart, LEDPoll, LEDRecv, LEDDraw, Tick, vars, semVars, nbVars, byhVars, Tokens
<1> QED
  BY <1>1, <1>2, <1>3, <1>4, <1>5, <1>6, <1>7, <1>8, Steps

LEMMA BootedStep == IInv /\ [Next]_vars /\ shell' = "idle" => Booted'
<1> SUFFICES ASSUME IInv, [Next]_vars, shell' = "idle" PROVE Booted'
  OBVIOUS
<1>i. shell = "idle"
  BY StillIdle
<1>c. Booted /\ SysType
  BY <1>i DEF IInv, Control, TypeOK
<1>1. CASE Boot \/ Rerun
  <2>1. main' = "done"
    BY <1>1 DEF Boot, Rerun
  <2> QED
    BY <1>1, <1>c, <2>1, RunCases DEF Booted, nbVars, byhVars, ledVars
<1>2. CASE NBRelease \/ BYHReleaseOne
  BY <1>2, <1>i, <1>c, ResumeOne DEF NBRelease, BYHReleaseOne, Booted, sysVars, ledVars, Resumes
<1>3. CASE NBInit \/ NBTake \/ NBRecv \/ NBUpload
  BY <1>3, <1>c DEF NBInit, NBTake, NBRecv, NBUpload, sysVars, byhVars, ledVars, Booted
<1>4. CASE BYHTake \/ BYHHumiture \/ BYHNoise \/ BYHPM \/ BYHPMDelayed \/ BYHSend
           \/ BYHReleaseTwo \/ BYHSecond
  BY <1>4, <1>c
  DEF BYHTake, BYHHumiture, BYHNoise, BYHPM, BYHPMDelayed, BYHSend,
      BYHReleaseTwo, BYHSecond, sysVars, nbVars, ledVars, Booted
<1>5. CASE LEDStart \/ LEDPoll \/ LEDRecv \/ LEDDraw
  BY <1>5, <1>c DEF LEDStart, LEDPoll, LEDRecv, LEDDraw, sysVars, nbVars, byhVars, Booted
<1>6. CASE Tick \/ UNCHANGED vars
  BY <1>6, <1>c DEF Tick, vars, sysVars, nbVars, byhVars, ledVars, Booted
<1> QED
  BY <1>1, <1>2, <1>3, <1>4, <1>5, <1>6, Steps

LEMMA TimingStep == IInv /\ [Next]_vars /\ shell' = "idle" => Timing'
<1> SUFFICES ASSUME IInv, [Next]_vars, shell' = "idle" PROVE Timing'
  OBVIOUS
<1>i. shell = "idle"
  BY StillIdle
<1>c. Counts /\ Timing
  BY <1>i DEF IInv, Control
<1>s. BYHType /\ NBType
  BY DEF IInv, TypeOK
<1>n. UploadMax \in Nat /\ UploadMax < SamplePeriod /\ SamplePeriod \in Nat
  BY UploadMaxAssumption, SamplePeriodAssumption
<1> USE DEF BYHNotStarted, BYHMeasures
<1>1. CASE Boot \/ Rerun
  <2>1. CASE UNCHANGED <<nbVars, byhVars>>
    BY <2>1, <1>c DEF Timing, Elapsed, nbVars, byhVars
  <2>2. CASE ~UNCHANGED <<nbVars, byhVars>>
    <3>1. /\ nb_pc' \in {"none", "init"} /\ nb_left' = InitDelay
          /\ byh_pc = "none" /\ byh_pc' \in {"none", "take"} /\ secs' = secs
      BY <1>1, <2>2, RunCases
    <3> QED
      BY <3>1, <1>c DEF Timing
  <2> QED
    BY <2>1, <2>2
<1>2. CASE NBInit
  <2>1. byh_pc # "take"
    BY <1>2, <1>c, InitDelayAssumption DEF NBInit, Timing
  <2> QED
    BY <1>2, <1>c, <2>1 DEF NBInit, Timing, Elapsed, byhVars
<1>3. CASE NBRelease
  <2>1. CASE nb_pc' = "asserted"
    BY <1>3, <2>1, <1>c, ResumeOne, <1>i DEF NBRelease, Timing, Elapsed
  <2>2. CASE nb_pc' # "asserted"
    <3>1. /\ nb_pc = "start" /\ nb_pc' = "take" /\ secs' = secs
          /\ byh_pc' = IF byh_pc = "wait" THEN "humiture" ELSE byh_pc
      BY <1>3, <2>2, <1>i, ResumeOne DEF NBRelease, Resumes
    <3>2. byh_pc # "take" /\ byh_pc \in {"none", "wait", "asserted"}
      BY <3>1, <1>c, <1>s DEF Timing, BYHType
    <3> QED
      BY <3>1, <3>2, <1>c DEF Timing
  <2> QED
    BY <2>1, <2>2
<1>4. CASE NBTake
  <2>1. nb_pc = "take" /\ byh_pc' = byh_pc /\ secs' = secs /\ byh_delay' = byh_delay
    BY <1>4 DEF NBTake, byhVars
  <2>2. nb_pc' \in {"asserted", "wait"} \/ (byh_pc = "none" /\ nb_pc' = "recv")
    <3>1. CASE sem_one = NULL
      BY <1>4, <3>1 DEF NBTake
    <3>2. CASE sem_one # NULL
      BY <1>4, <1>i, <3>2, ResumeOne DEF NBTake
    <3> QED
      BY <3>1, <3>2
  <2>3. byh_pc \notin {"take", "wait"}
    BY <2>1, <1>c DEF Timing
  <2> QED
    BY <2>1, <2>2, <2>3, <1>c DEF Timing
<1>5. CASE NBRecv
  <2>1. /\ nb_pc = "recv" /\ nb_pc' \in {"recv", "upload"} /\ byh_pc' = byh_pc
        /\ secs' = secs /\ byh_delay' = byh_delay
        /\ nb_pc' = "upload" => nb_left' = UploadMax
    BY <1>5 DEF NBRecv, byhVars
  <2>2. byh_pc # "none"
    <3>1. Len(iot_mb) > 0
      BY <1>5, TailOfSeq DEF NBRecv, IInv, TypeOK, MailType
    <3> QED
      BY <3>1, <1>c DEF Counts
  <2>3. byh_pc \notin {"take", "wait"}
    BY <2>1, <1>c DEF Timing
  <2> QED
    BY <2>1, <2>2, <2>3, <1>c, <1>s, <1>n DEF Timing, Elapsed, BYHType
<1>6. CASE NBUpload
  <2>1. /\ nb_pc = "upload" /\ nb_pc' = "take" /\ byh_pc' = byh_pc
        /\ secs' = secs /\ byh_delay' = byh_delay
    BY <1>6 DEF NBUpload, byhVars
  <2> QED
    BY <2>1, <1>c, <1>s, <1>n DEF Timing, Elapsed, BYHType, NBType
<1>7. CASE BYHTake
  <2>1. /\ byh_pc = "take" /\ byh_pc' \in {"asserted", "wait", "humiture"}
        /\ nb_pc' = nb_pc /\ secs' = secs
    BY <1>7 DEF BYHTake, nbVars
  <2>2. byh_pc' # "humiture"
    BY <1>7, <2>1, <1>i, ResumeOne DEF BYHTake
  <2> QED
    BY <2>1, <2>2, <1>c DEF Timing
<1>8. CASE BYHHumiture \/ BYHNoise \/ BYHPM \/ BYHPMDelayed \/ BYHSend
  BY <1>8, <1>c, <1>s
  DEF BYHHumiture, BYHNoise, BYHPM, BYHPMDelayed, BYHSend, Timing, nbVars, BYHType
<1>9. CASE BYHReleaseOne
  <2>1. /\ byh_pc = "release1" /\ byh_pc' \in {"asserted", "release2"} /\ secs' = secs
        /\ nb_pc' \in {"recv", nb_pc}
    BY <1>9 DEF BYHReleaseOne
  <2>2. byh_pc' = "release2" => nb_pc' # "take"
    BY <2>1, <1>c DEF Timing
  <2> QED
    BY <2>1, <2>2, <1>c DEF Timing
<1>10. CASE BYHReleaseTwo
  <2>1. CASE byh_pc' = "asserted"
    BY <1>10, <2>1, <1>c DEF BYHReleaseTwo, Timing, nbVars
  <2>2. CASE byh_pc' # "asserted"
    <3>1. /\ byh_pc = "release2" /\ byh_pc' = "idle" /\ secs' = 0 /\ byh_delay' = 1
          /\ nb_pc' = nb_pc /\ nb_left' = nb_left
      BY <1>10, <2>2 DEF BYHReleaseTwo, nbVars
    <3> QED
      BY <3>1, <1>c, <1>n DEF Timing, Elapsed
  <2> QED
    BY <2>1, <2>2
<1>11. CASE BYHSecond
  <2>1. /\ byh_pc = "idle" /\ byh_delay = 0 /\ nb_pc' = nb_pc /\ nb_left' = nb_left
        /\ Elapsed = secs + 1
    BY <1>11, <1>s DEF BYHSecond, nbVars, Elapsed, BYHType
  <2>2. CASE SampleDue
    <3>1. Elapsed > UploadMax /\ byh_pc' = "humiture" /\ secs' = 0
      BY <1>11, <2>1, <2>2, <1>n DEF BYHSecond, SampleDue
    <3>2. nb_pc \notin {"take", "upload", "recv", "none", "init", "start"}
      BY <2>1, <3>1, <1>c, <1>s, <1>n DEF Timing, NBType, BYHType
    <3> QED
      BY <2>1, <3>1, <3>2, <1>s DEF Timing, NBType
  <2>3. CASE ~SampleDue
    <3>1. Elapsed' = Elapsed /\ byh_pc' = "idle"
      BY <1>11, <2>1, <2>3, <1>s DEF BYHSecond, Elapsed, BYHType
    <3> QED
      BY <2>1, <3>1, <1>c DEF Timing
  <2> QED
    BY <2>2, <2>3
<1>12. CASE Tick
  <2>1. /\ nb_pc' = nb_pc /\ byh_pc' = byh_pc /\ secs' = secs
        /\ nb_pc = "upload" => nb_left' = nb_left - 1
        /\ nb_pc \notin {"start", "take"} /\ byh_pc \notin {"take", "release2"}
        /\ nb_pc = "recv" => Len(iot_mb) = 0
        /\ byh_pc = "idle" => byh_delay = 1 /\ byh_delay' = 0
    BY <1>12, <1>i, <1>s
    DEF Tick, NBSettled, NBReady, BYHSettled, BYHReady, BYHDelaying, NBType, BYHType
  <2>2. byh_pc = "idle" => nb_pc # "recv"
    BY <2>1, <1>c DEF Counts
  <2>3. byh_pc = "idle" => Elapsed' = Elapsed + 1
    BY <2>1, <1>s DEF Elapsed, BYHType
  <2> QED
    BY <2>1, <2>2, <2>3, <1>c, <1>s, <1>n DEF Timing, NBType, BYHType, Elapsed
<1>13. CASE LEDStart \/ LEDPoll \/ LEDRecv \/ LEDDraw \/ UNCHANGED vars
  BY <1>13, <1>c DEF LEDStart, LEDPoll, LEDRecv, LEDDraw, vars, nbVars, byhVars, Timing, Elapsed
<1> QED
  BY <1>1, <1>2, <1>3, <1>4, <1>5, <1>6, <1>7, <1>8, <1>9, <1>10, <1>11, <1>12, <1>13, Steps

-----------------------------------------------------------------------------
(* The theorems.                                                           *)

LEMMA IInvInit == Init => IInv
<1> SUFFICES ASSUME Init PROVE IInv
  OBVIOUS
<1>1. TypeOK
  BY TypeInit
<1>2. Stream
  BY DEF Init, Stream
<1>3. Counts /\ Booted
  BY DEF Init, Counts, Booted
<1>4. Tokens /\ Timing
  BY DEF Init, Tokens, Timing, BYHNotStarted, BYHMeasures
<1> QED
  BY <1>1, <1>2, <1>3, <1>4 DEF IInv, Control

LEMMA IInvStep == IInv /\ [Next]_vars => IInv'
<1> SUFFICES ASSUME IInv, [Next]_vars PROVE IInv'
  OBVIOUS
<1>1. TypeOK'
  BY SemStep, MailStep, SysStep, NBTypeStep, BYHTypeStep, LEDTypeStep DEF IInv, TypeOK
<1>2. Stream'
  BY StreamStep
<1>3. shell' = "idle" => Control'
  BY CountsStep, TokensStep, TimingStep, BootedStep DEF Control
<1> QED
  BY <1>1, <1>2, <1>3 DEF IInv

\* The inductive invariant holds in every state of every behaviour.
THEOREM Invariance == Spec => []IInv
<1>1. Init => IInv
  BY IInvInit
<1>2. IInv /\ [Next]_vars => IInv'
  BY IInvStep
<1> QED
  BY <1>1, <1>2, PTL DEF Spec

\* Types: in particular no mailbox overruns its pool, and the counter of a
\* semaphore stays within its 16 bits.
THEOREM TypeCorrect == Spec => []TypeOK
<1>1. IInv => TypeOK
  BY DEF IInv
<1> QED
  BY <1>1, Invariance, PTL

\* The values NB_IOT formats are the fields of one batch, each in its place,
\* whatever allocation failed and however often the command was typed.
THEOREM UploadAlignedAlways == Spec => []UploadAligned
<1>1. IInv => UploadAligned
  <2> SUFFICES ASSUME IInv, NEW k \in 1..Len(nb_got)
               PROVE  nb_got[k] = [field |-> k, batch |-> nb_got[1].batch]
    BY DEF UploadAligned
  <2>1. Len(nb_got) \in Nat
    BY DEF IInv, TypeOK, MailType
  <2>2. 1 \in 1..Len(nb_got)
    BY <2>1
  <2>3. nb_got[1] = [field |-> 1, batch |-> batch]
    BY <2>2 DEF IInv, Stream
  <2> QED
    BY <2>3 DEF IInv, Stream
<1> QED
  BY <1>1, Invariance, PTL
=============================================================================
