------------------------ MODULE EnviromentPanelProofs ------------------------
(***************************************************************************)
(* Proofs about Enviroment.tla, continued: the path of a batch to the LED  *)
(* thread, the order of the uploads, and that the three threads implement  *)
(* Monitor; then what keeps the code from each of its assertions and       *)
(* early samples, where it is kept.  They rest on EnviromentProofs.        *)
(***************************************************************************)
EXTENDS EnviromentProofs

\* The receives LED has behind it in the present round.
Received == IF led_pc = "recv" THEN led_k ELSE 0

\* The labels received in this round, then the mails queued, are the fields of
\* the batch BYH_M sends, in order.
LEDStream ==
    /\ \A k \in 1..Received : labels[k] = [field |-> k, batch |-> batch]
    /\ \A k \in 1..Len(led_mb) : led_mb[k] = [field |-> Received + k, batch |-> batch]

\* How many mails are queued for LED.
LEDCounts ==
    /\ BYHNotStarted \/ BYHMeasures => Len(led_mb) = 0
    /\ byh_pc = "send" => Len(led_mb) = IF byh_sent <= 5 THEN 0 ELSE byh_sent - 5
    /\ byh_pc \in {"release1", "release2"} => Len(led_mb) = 5
    /\ byh_pc = "idle" =>
          Len(led_mb) = IF led_pc = "recv" THEN 5 - led_k
                        ELSE IF sem_two.value = 1 THEN 5 ELSE 0

\* When sem_two holds a token; LED takes it within two seconds.
LEDTokens ==
    /\ byh_pc = "idle" => sem_two # NULL
    /\ led_pc = "recv" => byh_pc = "idle" /\ Elapsed <= 1
    /\ sem_two # NULL =>
          /\ sem_two.waiters = <<>> /\ sem_two.value \in {0, 1}
          /\ sem_two.value = 1 => /\ byh_pc = "idle" /\ led_pc # "recv"
                                  /\ Elapsed <= 1
                                  /\ Elapsed = 1 => ~led_polled

LInv == LEDRuns => LEDStream /\ LEDCounts /\ LEDTokens

\* Nobody can type a command before main has run.
MainFirst == main = "boot" => shell = "idle"

LabelsInv == IInv /\ LInv /\ LabelsAligned /\ MainFirst

\* The batch the next upload must be of.
NextUpload == IF uploaded = NULL THEN Succ(0) ELSE Succ(uploaded)

\* The batch in progress is the next one to upload, or the one uploaded last.
OrderInv ==
    shell = "idle" =>
        /\ nb_pc = "upload" \/ (nb_pc = "recv" /\ byh_pc # "none") => batch = NextUpload
        /\ byh_pc \in {"d1", "d2", "d3", "send", "release1"} => batch = NextUpload
        /\ \/ BYHNotStarted \/ byh_pc = "humiture"
           \/ byh_pc \in {"release2", "idle"} /\ nb_pc \in {"take", "wait", "asserted"}
           => Succ(batch) = NextUpload
-----------------------------------------------------------------------------
(* The path to LED.                                                        *)

\* A run of Enviroment() after which LED runs leaves its path alone, or has
\* just created LED.
LEMMA RunPanel ==
  ASSUME IInv, Boot \/ Rerun, LEDRuns'
  PROVE  \/ LEDRuns /\ UNCHANGED <<led_mb, sem_two, nbVars, byhVars, ledVars>>
         \/ /\ led_pc' = "start" /\ byh_pc' \in {"none", "take"}
            /\ led_mb' = <<>> /\ sem_two' \in {NULL, NewSem}
<1>1. shell = "idle" /\ shell' = "idle"
  BY DEF LEDRuns, Boot, Rerun, RunEnviroment, InitAndStart
<1>2. Booted
  BY <1>1 DEF IInv, Control
<1>3. CASE mb_inited
  <2>1. UNCHANGED <<led_mb, sem_two, nbVars, byhVars, ledVars>>
    BY <1>1, <1>3 DEF Boot, Rerun, RunEnviroment, InitAndStart
  <2> QED
    BY <1>1, <2>1 DEF LEDRuns, nbVars, byhVars, ledVars
<1>4. CASE ~mb_inited
  <2>1. led_pc' # "none"
    BY DEF LEDRuns
  <2> QED
    BY <1>2, <1>4, <2>1 DEF Boot, Rerun, RunEnviroment, InitAndStart, Booted, ledVars
<1> QED
  BY <1>3, <1>4

\* Every other step after which LED runs is taken while it runs.
LEMMA RanBefore ==
  ASSUME IInv, [Next]_vars, ~Boot, ~Rerun, LEDRuns'
  PROVE  LEDRuns
<1>1. shell = "idle"
  BY StillIdle DEF LEDRuns
<1>2. led_pc \notin {"none", "asserted"}
  BY Steps
  DEF LEDRuns, NBInit, NBRelease, NBTake, NBRecv, NBUpload, BYHTake, BYHHumiture,
      BYHNoise, BYHPM, BYHPMDelayed, BYHSend, BYHReleaseOne, BYHReleaseTwo,
      BYHSecond, LEDStart, LEDPoll, LEDRecv, LEDDraw, Tick, vars, ledVars
<1>3. nb_pc # "asserted" /\ byh_pc # "asserted"
  <2>1. CASE NBRelease \/ BYHReleaseOne
    BY <1>1, <2>1, ResumeOne DEF LEDRuns, NBRelease, BYHReleaseOne, Resumes
  <2>2. CASE NBInit \/ NBTake \/ NBRecv \/ NBUpload
    BY <2>2 DEF LEDRuns, NBInit, NBTake, NBRecv, NBUpload, byhVars
  <2>3. CASE BYHTake \/ BYHHumiture \/ BYHNoise \/ BYHPM \/ BYHPMDelayed \/ BYHSend
             \/ BYHReleaseTwo \/ BYHSecond
    BY <2>3
    DEF LEDRuns, BYHTake, BYHHumiture, BYHNoise, BYHPM, BYHPMDelayed, BYHSend,
        BYHReleaseTwo, BYHSecond, nbVars
  <2>4. CASE LEDStart \/ LEDPoll \/ LEDRecv \/ LEDDraw \/ Tick \/ UNCHANGED vars
    BY <2>4
    DEF LEDRuns, LEDStart, LEDPoll, LEDRecv, LEDDraw, Tick, vars, nbVars, byhVars
  <2> QED
    BY <2>1, <2>2, <2>3, <2>4, Steps
<1> QED
  BY <1>1, <1>2, <1>3 DEF LEDRuns

\* When LED runs, nothing of priority 24 is ready.
LEMMA PanelCpu ==
  ASSUME Cpu25
  PROVE  /\ shell = "idle" /\ nb_pc # "asserted"
         /\ byh_pc \in {"d1", "d2", "d3", "idle"} => byh_delay # 0
         /\ byh_pc \notin {"take", "humiture", "noise", "pm", "send", "release1",
                          "release2", "asserted"}
  BY DEF Cpu25, Cpu24, NBReady, BYHReady, BYHDelaying

LEMMA LEDTypes ==
  ASSUME IInv
  PROVE  /\ led_mb \in Seq(Mail) /\ Len(led_mb) \in Nat /\ Len(led_mb) <= 5
         /\ BYHType /\ led_k \in 0..5 /\ (led_pc = "recv" => led_k < 5)
         /\ labels \in [Fields -> Mail \cup {NULL}]
         /\ led_pc \in {"none", "start", "poll", "recv", "draw", "asserted"}
         /\ sem_two \in Sem \cup {NULL}
         /\ (led_mb # <<>> <=> Len(led_mb) > 0)
  BY DEF IInv, TypeOK, MailType, LEDType, SemType, MbSize

LEMMA LEDStreamStep == IInv /\ LInv /\ [Next]_vars /\ LEDRuns' => LEDStream'
<1> SUFFICES ASSUME IInv, LInv, [Next]_vars, LEDRuns' PROVE LEDStream'
  OBVIOUS
<1>t. /\ led_mb \in Seq(Mail) /\ BYHType /\ led_k \in 0..5
      /\ labels \in [Fields -> Mail \cup {NULL}]
  BY LEDTypes
<1>1. CASE Boot \/ Rerun
  <2>1. CASE LEDRuns /\ UNCHANGED <<led_mb, sem_two, nbVars, byhVars, ledVars>>
    BY <2>1 DEF LInv, LEDStream, Received, byhVars, ledVars
  <2>2. CASE led_pc' = "start" /\ led_mb' = <<>>
    BY <2>2 DEF LEDStream, Received
  <2> QED
    BY <1>1, <2>1, <2>2, RunPanel
<1> SUFFICES ASSUME ~Boot, ~Rerun PROVE LEDStream'
  BY <1>1
<1>l. LEDStream /\ LEDCounts /\ LEDTokens
  BY RanBefore DEF LInv
<1>2. CASE BYHHumiture
  <2>1. led_mb' = led_mb /\ led_pc' = led_pc /\ byh_pc = "humiture"
    BY <1>2 DEF BYHHumiture, ledVars
  <2>2. Len(led_mb) = 0 /\ led_pc # "recv"
    BY <2>1, <1>l DEF LEDCounts, LEDTokens, BYHMeasures
  <2> QED
    BY <2>1, <2>2 DEF LEDStream, Received
<1>3. CASE BYHSend
  <2>1. /\ byh_pc = "send" /\ led_pc' = led_pc /\ led_k' = led_k
        /\ labels' = labels /\ batch' = batch /\ byh_sent < 10
    BY <1>3, RanBefore DEF BYHSend, ledVars, IInv, Control, Counts, LEDRuns
  <2>2. led_pc # "recv"
    BY <2>1, <1>l DEF LEDTokens
  <2>3. CASE byh_sent < 5
    BY <1>3, <1>l, <2>1, <2>3 DEF BYHSend, LEDStream, Received
  <2>4. CASE ~(byh_sent < 5)
    <3> DEFINE m == [field |-> byh_sent - 4, batch |-> batch]
    <3>1. Len(led_mb) = byh_sent - 5
      BY <1>l, <1>t, <2>1, <2>4 DEF LEDCounts, BYHType
    <3>2. m \in Mail
      BY <1>t, <2>1, <2>4 DEF BYHType, Mail, Fields
    <3>3. led_mb' = Append(led_mb, m)
      BY <1>3, <1>t, <2>1, <2>4, <3>1 DEF BYHSend, Post, MbSize, BYHType
    <3>4. Received = 0 /\ Received' = 0
      BY <2>1, <2>2 DEF Received
    <3> HIDE DEF m
    <3>5. \A k \in 1..Len(led_mb') : led_mb'[k] = [field |-> Received + k, batch |-> batch]
      <4>1. /\ Len(led_mb') = Len(led_mb) + 1 /\ Len(led_mb) \in Nat
            /\ \A k \in 1..Len(led_mb) : led_mb'[k] = led_mb[k]
            /\ led_mb'[Len(led_mb) + 1] = m
        BY <1>t, <3>2, <3>3, AppendToSeq
      <4>2. m = [field |-> Received + (Len(led_mb) + 1), batch |-> batch]
        BY <3>1, <3>4, <1>t DEF m, BYHType
      <4> SUFFICES ASSUME NEW k \in 1..Len(led_mb')
                   PROVE  led_mb'[k] = [field |-> Received + k, batch |-> batch]
        OBVIOUS
      <4>3. CASE k = Len(led_mb) + 1
        BY <4>1, <4>2, <4>3
      <4>4. CASE k \in 1..Len(led_mb)
        BY <4>1, <4>4, <1>l DEF LEDStream
      <4> QED
        BY <4>1, <4>3, <4>4
    <3> QED
      BY <2>1, <3>4, <3>5 DEF LEDStream
  <2> QED
    BY <2>3, <2>4
<1>4. CASE LEDPoll
  <2>1. led_mb' = led_mb /\ labels' = labels /\ batch' = batch
    BY <1>4 DEF LEDPoll, byhVars
  <2>2. Received = 0 /\ Received' = 0
    BY <1>4 DEF LEDPoll, Received
  <2> QED
    BY <2>1, <2>2, <1>l DEF LEDStream
<1>5. CASE LEDRecv
  <2>1. led_pc = "recv" /\ batch' = batch /\ led_k' = led_k + 1 /\ led_k < 5
    BY <1>5, LEDTypes DEF LEDRecv, byhVars
  <2>2. byh_pc = "idle" /\ Len(led_mb) = 5 - led_k /\ led_mb # <<>>
    BY <2>1, <1>l, <1>t, LEDTypes DEF LEDTokens, LEDCounts
  <2>3. Head(led_mb) = [field |-> led_k + 1, batch |-> batch]
    <3>1. Head(led_mb) = led_mb[1] /\ 1 \in 1..Len(led_mb)
      BY <2>2, <1>t, TailOfSeq
    <3> QED
      BY <2>1, <3>1, <1>l DEF LEDStream, Received
  <2>4. labels' = [labels EXCEPT ![led_k + 1] = Head(led_mb)] /\ led_mb' = Tail(led_mb)
    BY <1>5, <2>2 DEF LEDRecv
  <2>5. CASE led_pc' = "recv"
    <3>1. Received = led_k /\ Received' = led_k + 1
      BY <2>1, <2>5 DEF Received
    <3>2. \A k \in 1..(led_k + 1) : labels'[k] = [field |-> k, batch |-> batch]
      BY <2>1, <2>3, <2>4, <3>1, <1>l, <1>t DEF LEDStream, Fields
    <3>3. \A k \in 1..Len(led_mb') :
             led_mb'[k] = [field |-> led_k + 1 + k, batch |-> batch]
      <4> SUFFICES ASSUME NEW k \in 1..Len(led_mb')
                   PROVE  led_mb'[k] = [field |-> led_k + 1 + k, batch |-> batch]
        OBVIOUS
      <4>1. k + 1 \in 1..Len(led_mb) /\ led_mb'[k] = led_mb[k + 1]
        BY <2>2, <2>4, <1>t, TailOfSeq
      <4> QED
        BY <4>1, <3>1, <1>l, <1>t DEF LEDStream
    <3> QED
      BY <2>1, <3>1, <3>2, <3>3 DEF LEDStream
  <2>6. CASE led_pc' # "recv"
    <3>1. led_k = 4
      BY <1>5, <2>1, <2>6, <1>t DEF LEDRecv, LastRecv
    <3>2. Len(led_mb') = 0
      BY <2>2, <2>4, <3>1, <1>t, TailOfSeq
    <3> QED
      BY <2>6, <3>2 DEF LEDStream, Received
  <2> QED
    BY <2>5, <2>6
<1>6. CASE LEDStart \/ LEDDraw
  <2>1. Received = 0 /\ Received' = 0
    BY <1>6 DEF LEDStart, LEDDraw, Received
  <2> QED
    BY <1>6, <2>1, <1>l DEF LEDStart, LEDDraw, LEDStream, byhVars
<1>7. CASE Tick \/ UNCHANGED vars
  BY <1>7, <1>l DEF Tick, vars, byhVars, ledVars, LEDStream, Received
<1>8. CASE NBInit \/ NBRelease \/ NBTake \/ NBRecv \/ NBUpload
  BY <1>8, <1>l
  DEF NBInit, NBRelease, NBTake, NBRecv, NBUpload, byhVars, ledVars, LEDStream, Received
<1>9. CASE BYHTake \/ BYHNoise \/ BYHPM \/ BYHPMDelayed \/ BYHReleaseOne \/ BYHReleaseTwo \/ BYHSecond
  BY <1>9, <1>l
  DEF BYHTake, BYHNoise, BYHPM, BYHPMDelayed, BYHReleaseOne, BYHReleaseTwo,
      BYHSecond, ledVars, LEDStream, Received
<1> QED
  BY <1>2, <1>3, <1>4, <1>5, <1>6, <1>7, <1>8, <1>9, Steps

LEMMA LEDCountsStep == IInv /\ LInv /\ [Next]_vars /\ LEDRuns' => LEDCounts'
<1> SUFFICES ASSUME IInv, LInv, [Next]_vars, LEDRuns' PROVE LEDCounts'
  OBVIOUS
<1>t. led_mb \in Seq(Mail) /\ Len(led_mb) \in Nat /\ BYHType /\ led_k \in 0..5
  BY LEDTypes
<1> USE DEF BYHNotStarted, BYHMeasures
<1>1. CASE Boot \/ Rerun
  BY <1>1, RunPanel DEF LInv, LEDCounts, byhVars, ledVars
<1> SUFFICES ASSUME ~Boot, ~Rerun PROVE LEDCounts'
  BY <1>1
<1>l. LEDRuns /\ LEDCounts /\ LEDTokens
  BY RanBefore DEF LInv
<1>i. shell = "idle"
  BY <1>l DEF LEDRuns
<1>2. CASE NBRelease
  <2>1. /\ byh_pc' = byh_pc \/ (byh_pc = "wait" /\ byh_pc' = "humiture")
        /\ led_mb' = led_mb /\ led_pc' = led_pc /\ led_k' = led_k
        /\ sem_two' = sem_two /\ byh_sent' = byh_sent
    BY <1>2, <1>i, ResumeOne DEF NBRelease, Resumes, ledVars
  <2> QED
    BY <2>1, <1>l DEF LEDCounts
<1>3. CASE NBInit \/ NBTake \/ NBRecv \/ NBUpload
  BY <1>3, <1>l DEF NBInit, NBTake, NBRecv, NBUpload, LEDCounts, semVars, byhVars, ledVars
<1>4. CASE BYHTake \/ BYHHumiture \/ BYHNoise \/ BYHPM \/ BYHPMDelayed
  <2>1. led_mb' = led_mb /\ led_pc' = led_pc /\ led_k' = led_k /\ byh_sent' = byh_sent
    BY <1>4 DEF BYHTake, BYHHumiture, BYHNoise, BYHPM, BYHPMDelayed, ledVars
  <2>2. Len(led_mb) = 0 /\ byh_sent = 0
    BY <1>4, <1>i, <1>l
    DEF BYHTake, BYHHumiture, BYHNoise, BYHPM, BYHPMDelayed, LEDCounts, IInv, Control, Counts
  <2>3. byh_pc' \notin {"release1", "release2", "idle"}
    BY <1>4 DEF BYHTake, BYHHumiture, BYHNoise, BYHPM, BYHPMDelayed
  <2> QED
    BY <2>1, <2>2, <2>3 DEF LEDCounts
<1>5. CASE BYHSend
  <2>1. byh_pc = "send" /\ byh_sent < 10 /\ byh_sent' = byh_sent + 1
    BY <1>5, <1>i DEF BYHSend, IInv, Control, Counts
  <2>2. byh_pc' = IF byh_sent = 9 THEN "release1" ELSE "send"
    BY <1>5 DEF BYHSend
  <2>3. CASE byh_sent < 5
    <3>1. led_mb' = led_mb /\ Len(led_mb) = 0
      BY <1>5, <1>l, <2>1, <2>3, <1>t DEF BYHSend, LEDCounts, BYHType
    <3> QED
      BY <3>1, <2>1, <2>2, <2>3, <1>t DEF LEDCounts, BYHType
  <2>4. CASE ~(byh_sent < 5)
    <3>1. Len(led_mb) = byh_sent - 5
      BY <1>l, <2>1, <2>4, <1>t DEF LEDCounts, BYHType
    <3>2. Len(led_mb') = byh_sent - 4
      BY <1>5, <1>t, <2>1, <2>4, <3>1 DEF BYHSend, Post, MbSize, BYHType
    <3> QED
      BY <3>2, <2>1, <2>2, <2>4, <1>t DEF LEDCounts, BYHType
  <2> QED
    BY <2>3, <2>4
<1>6. CASE BYHReleaseOne
  <2>1. byh_pc' \in {"release2", "asserted"} /\ byh_pc = "release1" /\ led_mb' = led_mb
    BY <1>6 DEF BYHReleaseOne
  <2> QED
    BY <2>1, <1>l DEF LEDCounts
<1>7. CASE BYHReleaseTwo
  <2>1. sem_two # NULL
    BY <1>7 DEF BYHReleaseTwo, LEDRuns
  <2>2. /\ byh_pc = "release2" /\ byh_pc' = "idle" /\ led_mb' = led_mb
        /\ led_pc' = led_pc /\ sem_two' = Release(sem_two)
    BY <1>7, <2>1 DEF BYHReleaseTwo, ledVars
  <2>3. sem_two.value = 0 /\ sem_two.waiters = <<>> /\ led_pc # "recv" /\ sem_two \in Sem
    BY <2>1, <2>2, <1>l, LEDTypes DEF LEDTokens
  <2>4. sem_two'.value = 1
    BY <2>2, <2>3, SemWrapAssumption DEF Release, Sem
  <2> QED
    BY <2>2, <2>3, <2>4, <1>l DEF LEDCounts
<1>8. CASE BYHSecond
  <2>1. /\ byh_pc = "idle" /\ led_mb' = led_mb /\ led_pc' = led_pc /\ led_k' = led_k
        /\ sem_two' = sem_two /\ Elapsed = secs + 1
    BY <1>8, <1>t DEF BYHSecond, semVars, ledVars, Elapsed, BYHType
  <2>2. CASE SampleDue
    <3>1. Elapsed >= 2 /\ byh_pc' = "humiture"
      BY <1>8, <2>1, <2>2, SamplePeriodAssumption DEF BYHSecond, SampleDue
    <3>2. sem_two.value # 1 /\ led_pc # "recv"
      BY <2>1, <3>1, <1>l, <1>t DEF LEDTokens, BYHType
    <3>3. Len(led_mb) = 0
      BY <2>1, <3>2, <1>l DEF LEDCounts
    <3> QED
      BY <2>1, <3>1, <3>3 DEF LEDCounts
  <2>3. CASE ~SampleDue
    <3>1. byh_pc' = "idle"
      BY <1>8, <2>1, <2>3 DEF BYHSecond
    <3> QED
      BY <2>1, <3>1, <1>l DEF LEDCounts
  <2> QED
    BY <2>2, <2>3
<1>9. CASE LEDPoll
  <2>1. led_mb' = led_mb /\ byh_pc' = byh_pc /\ byh_sent' = byh_sent /\ led_pc = "poll"
    BY <1>9 DEF LEDPoll, byhVars
  <2>2. CASE sem_two # NULL /\ sem_two.value > 0
    <3>1. byh_pc = "idle" /\ Len(led_mb) = 5
      BY <2>1, <2>2, <1>l DEF LEDTokens, LEDCounts
    <3>2. led_pc' = "recv" /\ led_k' = 0
      BY <1>9, <2>2 DEF LEDPoll
    <3> QED
      BY <2>1, <3>1, <3>2 DEF LEDCounts
  <2>3. CASE ~(sem_two # NULL /\ sem_two.value > 0)
    <3>1. sem_two' = sem_two /\ led_pc' # "recv"
      BY <1>9, <2>3 DEF LEDPoll
    <3> QED
      BY <2>1, <3>1, <1>l DEF LEDCounts
  <2> QED
    BY <2>2, <2>3
<1>10. CASE LEDRecv
  <2>1. /\ led_pc = "recv" /\ led_k' = led_k + 1 /\ byh_pc' = byh_pc /\ sem_two' = sem_two
        /\ led_pc' = IF led_k + 1 = 5 THEN "draw" ELSE "recv"
    BY <1>10 DEF LEDRecv, LastRecv, semVars, byhVars
  <2>2. byh_pc = "idle" /\ Len(led_mb) = 5 - led_k /\ led_k < 5 /\ led_mb # <<>>
    BY <2>1, <1>l, <1>t, LEDTypes DEF LEDTokens, LEDCounts
  <2>3. Len(led_mb') = 5 - led_k'
    BY <1>10, <2>1, <2>2, <1>t, TailOfSeq DEF LEDRecv
  <2>4. sem_two.value # 1
    BY <2>1, <2>2, <1>l DEF LEDTokens
  <2> QED
    BY <2>1, <2>2, <2>3, <2>4, <1>t DEF LEDCounts
<1>11. CASE LEDStart \/ LEDDraw
  BY <1>11, <1>l DEF LEDStart, LEDDraw, LEDCounts, semVars, byhVars
<1>12. CASE Tick \/ UNCHANGED vars
  BY <1>12, <1>l DEF Tick, vars, semVars, byhVars, ledVars, LEDCounts
<1> QED
  BY <1>2, <1>3, <1>4, <1>5, <1>6, <1>7, <1>8, <1>9, <1>10, <1>11, <1>12, Steps

LEMMA LEDTokensStep == IInv /\ LInv /\ [Next]_vars /\ LEDRuns' => LEDTokens'
<1> SUFFICES ASSUME IInv, LInv, [Next]_vars, LEDRuns' PROVE LEDTokens'
  OBVIOUS
<1>t. BYHType /\ sem_two \in Sem \cup {NULL}
  BY LEDTypes
<1>1. CASE Boot \/ Rerun
  <2>1. CASE LEDRuns /\ UNCHANGED <<led_mb, sem_two, nbVars, byhVars, ledVars>>
    BY <2>1 DEF LInv, LEDTokens, Elapsed, byhVars, ledVars
  <2>2. CASE led_pc' = "start" /\ byh_pc' \in {"none", "take"} /\ sem_two' \in {NULL, NewSem}
    BY <2>2 DEF LEDTokens, NewSem
  <2> QED
    BY <1>1, <2>1, <2>2, RunPanel
<1> SUFFICES ASSUME ~Boot, ~Rerun PROVE LEDTokens'
  BY <1>1
<1>l. LEDRuns /\ LEDCounts /\ LEDTokens
  BY RanBefore DEF LInv
<1>i. shell = "idle"
  BY <1>l DEF LEDRuns
<1>2. CASE NBRelease
  <2>1. byh_pc' = byh_pc \/ (byh_pc = "wait" /\ byh_pc' = "humiture")
    BY <1>2, <1>i, ResumeOne DEF NBRelease, Resumes
  <2> QED
    BY <1>2, <2>1, <1>l DEF NBRelease, LEDTokens, Elapsed, ledVars
<1>3. CASE NBInit \/ NBTake \/ NBRecv \/ NBUpload
  BY <1>3, <1>l
  DEF NBInit, NBTake, NBRecv, NBUpload, LEDTokens, Elapsed, semVars, byhVars, ledVars
<1>4. CASE BYHTake \/ BYHHumiture \/ BYHNoise \/ BYHPM \/ BYHPMDelayed \/ BYHSend \/ BYHReleaseOne
  <2>1. byh_pc # "idle" /\ byh_pc' # "idle" /\ sem_two' = sem_two /\ led_pc' = led_pc
    BY <1>4
    DEF BYHTake, BYHHumiture, BYHNoise, BYHPM, BYHPMDelayed, BYHSend,
        BYHReleaseOne, semVars, ledVars
  <2> QED
    BY <2>1, <1>l DEF LEDTokens
<1>5. CASE BYHReleaseTwo
  <2>1. sem_two # NULL
    BY <1>5 DEF BYHReleaseTwo, LEDRuns
  <2>2. /\ byh_pc = "release2" /\ byh_pc' = "idle" /\ led_pc' = led_pc
        /\ sem_two' = Release(sem_two) /\ secs' = 0 /\ byh_delay' = 1
    BY <1>5, <2>1 DEF BYHReleaseTwo, ledVars
  <2>3. sem_two.value = 0 /\ sem_two.waiters = <<>> /\ led_pc # "recv" /\ sem_two \in Sem
    BY <2>1, <2>2, <1>l, <1>t DEF LEDTokens
  <2>4. sem_two'.value = 1 /\ sem_two'.waiters = <<>> /\ sem_two' \in Sem
    BY <2>2, <2>3, SemWrapAssumption, ReleaseType DEF Release, Sem
  <2>5. sem_two' # NULL
    BY <2>4, NullAssumption DEF Sem
  <2>6. Elapsed' = 0
    BY <2>2 DEF Elapsed
  <2> QED
    BY <2>2, <2>3, <2>4, <2>5, <2>6 DEF LEDTokens
<1>6. CASE BYHSecond
  <2>1. /\ byh_pc = "idle" /\ led_pc' = led_pc /\ led_polled' = led_polled
        /\ sem_two' = sem_two /\ Elapsed = secs + 1
    BY <1>6, <1>t DEF BYHSecond, semVars, ledVars, Elapsed, BYHType
  <2>2. CASE SampleDue
    <3>1. Elapsed >= 2 /\ byh_pc' = "humiture"
      BY <1>6, <2>1, <2>2, SamplePeriodAssumption DEF BYHSecond, SampleDue
    <3>2. (sem_two # NULL => sem_two.value # 1) /\ led_pc # "recv"
      BY <2>1, <3>1, <1>l, <1>t DEF LEDTokens, BYHType
    <3> QED
      BY <2>1, <3>1, <3>2, <1>l DEF LEDTokens
  <2>3. CASE ~SampleDue
    <3>1. Elapsed' = Elapsed /\ byh_pc' = "idle"
      BY <1>6, <2>1, <2>3, <1>t DEF BYHSecond, Elapsed, BYHType
    <3> QED
      BY <2>1, <3>1, <1>l DEF LEDTokens
  <2> QED
    BY <2>2, <2>3
<1>7. CASE LEDPoll
  <2>1. byh_pc' = byh_pc /\ led_pc = "poll" /\ Elapsed' = Elapsed
    BY <1>7 DEF LEDPoll, Elapsed, byhVars
  <2>2. CASE sem_two # NULL /\ sem_two.value > 0
    <3>1. byh_pc = "idle" /\ Elapsed <= 1 /\ sem_two.waiters = <<>> /\ sem_two.value = 1
      BY <2>1, <2>2, <1>l DEF LEDTokens
    <3>2. sem_two' = Take(sem_two, "LED") /\ sem_two \in Sem
      BY <1>7, <1>t, <2>2 DEF LEDPoll
    <3>3. sem_two'.value = 0 /\ sem_two'.waiters = <<>> /\ sem_two' \in Sem
      <4>1. sem_two' \in Sem
        BY <2>2, <3>2, TakeType
      <4>2. sem_two' = [sem_two EXCEPT !.value = 0]
        BY <3>1, <3>2 DEF Take
      <4> QED
        BY <3>1, <3>2, <4>1, <4>2 DEF Sem
    <3>4. sem_two' # NULL
      BY <3>3, NullAssumption DEF Sem
    <3> QED
      BY <2>1, <3>1, <3>3, <3>4 DEF LEDTokens
  <2>3. CASE ~(sem_two # NULL /\ sem_two.value > 0)
    <3>1. sem_two' = sem_two /\ led_pc' # "recv"
      BY <1>7, <2>3 DEF LEDPoll
    <3>2. sem_two # NULL => sem_two.value # 1
      BY <2>3
    <3> QED
      BY <2>1, <3>1, <3>2, <1>l DEF LEDTokens
  <2> QED
    BY <2>2, <2>3
<1>8. CASE LEDRecv
  <2>1. led_pc = "recv" /\ byh_pc' = byh_pc /\ sem_two' = sem_two /\ Elapsed' = Elapsed
    BY <1>8 DEF LEDRecv, Elapsed, semVars, byhVars
  <2> QED
    BY <2>1, <1>l DEF LEDTokens
<1>9. CASE LEDStart \/ LEDDraw
  <2>1. /\ led_pc # "recv" /\ led_pc' # "recv" /\ byh_pc' = byh_pc
        /\ sem_two' = sem_two /\ led_polled' = led_polled /\ Elapsed' = Elapsed
    BY <1>9 DEF LEDStart, LEDDraw, semVars, byhVars, Elapsed
  <2> QED
    BY <2>1, <1>l DEF LEDTokens
<1>10. CASE Tick
  <2>1. /\ led_pc' = led_pc /\ byh_pc' = byh_pc /\ sem_two' = sem_two /\ ~led_polled'
        /\ NBSettled /\ BYHSettled /\ LEDSettled /\ Cpu24
    BY <1>10, <1>i DEF Tick, semVars, Cpu24
  <2>2. Cpu25 /\ ~LEDReady /\ led_polled
    BY <2>1, <1>l DEF NBSettled, BYHSettled, LEDSettled, LEDRuns, Cpu25
  <2>3. led_pc # "recv"
    <3> SUFFICES ASSUME led_pc = "recv" PROVE FALSE
      OBVIOUS
    <3>1. Len(led_mb) = 5 - led_k /\ led_k < 5 /\ led_k \in 0..5
      BY <1>l, LEDTypes DEF LEDTokens, LEDCounts
    <3>2. led_mb # <<>>
      BY <3>1, LEDTypes
    <3> QED
      BY <2>2, <3>2 DEF LEDReady
  <2>4. byh_pc = "idle" => Elapsed' = Elapsed + 1
    BY <1>10, <2>2, <1>t, PanelCpu DEF Tick, Elapsed, BYHType
  <2>5. sem_two # NULL /\ sem_two.value = 1 => byh_pc = "idle" /\ Elapsed' = 1
    <3>1. sem_two # NULL /\ sem_two.value = 1 => byh_pc = "idle" /\ Elapsed <= 1 /\ Elapsed # 1
      BY <2>2, <1>l DEF LEDTokens
    <3>2. Elapsed \in Nat
      BY <1>t DEF Elapsed, BYHType
    <3> QED
      BY <2>4, <3>1, <3>2
  <2> QED
    BY <2>1, <2>3, <2>5, <1>l DEF LEDTokens
<1>11. CASE UNCHANGED vars
  BY <1>11, <1>l DEF vars, semVars, byhVars, ledVars, LEDTokens, Elapsed
<1> QED
  BY <1>2, <1>3, <1>4, <1>5, <1>6, <1>7, <1>8, <1>9, <1>10, <1>11, Steps

LEMMA LInvStep == IInv /\ LInv /\ [Next]_vars => LInv'
  BY LEDStreamStep, LEDCountsStep, LEDTokensStep DEF LInv

LEMMA LabelsStep == LabelsInv /\ [Next]_vars => LabelsAligned'
<1> SUFFICES ASSUME LabelsInv, [Next]_vars PROVE LabelsAligned'
  OBVIOUS
<1>1. CASE LEDRecv
  <2>1. led_pc = "recv" /\ Cpu25 /\ led_k < 5 /\ led_k \in 0..5 /\ batch \in BatchNo
    BY <1>1, LEDTypes DEF LEDRecv, LabelsInv, BYHType
  <2>2. LEDStream /\ LEDCounts /\ LEDTokens
    BY <2>1, PanelCpu DEF LabelsInv, LInv, LEDRuns
  <2>3. led_mb # <<>> /\ led_mb \in Seq(Mail) /\ labels \in [Fields -> Mail \cup {NULL}]
    BY <2>1, <2>2, LEDTypes DEF LabelsInv, LEDTokens, LEDCounts
  <2>4. Head(led_mb) = [field |-> led_k + 1, batch |-> batch]
    <3>1. Head(led_mb) = led_mb[1] /\ 1 \in 1..Len(led_mb)
      BY <2>3, TailOfSeq
    <3> QED
      BY <2>1, <2>2, <3>1 DEF LEDStream, Received
  <2>5. \A f \in 1..(led_k + 1) : labels'[f] = [field |-> f, batch |-> batch]
    BY <1>1, <2>1, <2>2, <2>3, <2>4 DEF LEDRecv, LEDStream, Received, Fields
  <2>6. led_pc' # "recv" => led_k + 1 = 5
    BY <1>1 DEF LEDRecv, LastRecv
  <2> QED
    BY <2>1, <2>5, <2>6 DEF LabelsAligned, Fields
<1>2. CASE LEDPoll
  BY <1>2 DEF LEDPoll, LabelsInv, LabelsAligned
<1>3. CASE ~LEDRecv /\ ~LEDPoll
  <2>1. labels' = labels /\ (led_pc = "recv" <=> led_pc' = "recv")
    <3>1. CASE Boot \/ Rerun
      <4>1. UNCHANGED ledVars \/ (labels' = labels /\ led_pc = "none" /\ led_pc' \in {"none", "start"})
        <5>1. CASE shell = "idle" /\ ~mb_inited
          BY <3>1, <5>1
          DEF Boot, Rerun, RunEnviroment, InitAndStart, LabelsInv, IInv, Control, Booted
        <5>2. CASE shell # "idle" \/ mb_inited
          <6>1. shell # "idle" => Boot
            BY <3>1 DEF Rerun
          <6>2. main = "boot" => shell = "idle"
            BY DEF LabelsInv, MainFirst
          <6> QED
            BY <3>1, <5>2, <6>1, <6>2 DEF Boot, Rerun, RunEnviroment, InitAndStart
        <5> QED
          BY <5>1, <5>2
      <4> QED
        BY <4>1 DEF ledVars
    <3>2. CASE ~Boot /\ ~Rerun
      BY <1>3, <3>2, Steps
      DEF NBInit, NBRelease, NBTake, NBRecv, NBUpload, BYHTake, BYHHumiture,
          BYHNoise, BYHPM, BYHPMDelayed, BYHSend, BYHReleaseOne, BYHReleaseTwo,
          BYHSecond, LEDStart, LEDDraw, Tick, vars, ledVars
    <3> QED
      BY <3>1, <3>2
  <2> QED
    BY <2>1 DEF LabelsInv, LabelsAligned
<1> QED
  BY <1>1, <1>2, <1>3

LEMMA MainFirstStep == MainFirst /\ [Next]_vars => MainFirst'
<1> SUFFICES ASSUME MainFirst, [Next]_vars PROVE MainFirst'
  OBVIOUS
<1>1. CASE Boot \/ Rerun
  BY <1>1 DEF Boot, Rerun, MainFirst
<1>2. CASE ~Boot /\ ~Rerun
  BY <1>2, Steps
  DEF NBInit, NBRelease, NBTake, NBRecv, NBUpload, BYHTake, BYHHumiture,
      BYHNoise, BYHPM, BYHPMDelayed, BYHSend, BYHReleaseOne, BYHReleaseTwo,
      BYHSecond, LEDStart, LEDPoll, LEDRecv, LEDDraw, Tick, vars, sysVars, MainFirst
<1> QED
  BY <1>1, <1>2

THEOREM PanelInvariance == Spec => []LabelsInv
<1>1. Init => LabelsInv
  <2> SUFFICES ASSUME Init PROVE LabelsInv
    OBVIOUS
  <2>1. LInv /\ LabelsAligned /\ MainFirst
    BY DEF Init, LInv, LEDRuns, LabelsAligned, MainFirst
  <2> QED
    BY <2>1, IInvInit DEF LabelsInv
<1>2. LabelsInv /\ [Next]_vars => LabelsInv'
  BY IInvStep, LInvStep, LabelsStep, MainFirstStep DEF LabelsInv
<1> QED
  BY <1>1, <1>2, PTL DEF Spec

\* Outside its receives, LED shows five labels of one batch, each beside its
\* own name.
THEOREM LabelsAlignedAlways == Spec => []LabelsAligned
<1>1. LabelsInv => LabelsAligned
  BY DEF LabelsInv
<1> QED
  BY <1>1, PanelInvariance, PTL

\* A spinning shell freezes the threads.
LEMMA Frozen ==
  ASSUME MainFirst, [Next]_vars, shell' # "idle"
  PROVE  /\ UNCHANGED <<nb_pc, byh_pc, nb_got, iot_mb>>
         /\ shell' = shell \/ shell' = "asserted"
<1>1. CASE Boot \/ Rerun
  <2>1. shell = "idle"
    BY <1>1 DEF Boot, Rerun, MainFirst
  <2> QED
    BY <1>1, <2>1 DEF Boot, Rerun, RunEnviroment, InitAndStart, nbVars, byhVars
<1>2. CASE Tick \/ UNCHANGED vars
  BY <1>2 DEF Tick, vars, sysVars, nbVars, byhVars
<1> QED
  BY <1>1, <1>2, Steps
  DEF NBInit, NBRelease, NBTake, NBRecv, NBUpload, BYHTake, BYHHumiture,
      BYHNoise, BYHPM, BYHPMDelayed, BYHSend, BYHReleaseOne, BYHReleaseTwo,
      BYHSecond, LEDStart, LEDPoll, LEDRecv, LEDDraw, Cpu24, Cpu25, sysVars

\* A token means a whole batch to the thread that took it.
THEOREM TokenMeansBatchAlways == Spec => []TokenMeansBatch
<1>1. LabelsInv /\ shell = "idle" => TokenMeansBatch
  <2> SUFFICES ASSUME LabelsInv, shell = "idle" PROVE TokenMeansBatch
    OBVIOUS
  <2> USE DEF LabelsInv
  <2>t. /\ Len(led_mb) \in Nat /\ led_k \in 0..5 /\ BYHType
        /\ Len(iot_mb) \in Nat /\ Len(nb_got) \in Nat
    BY LEDTypes DEF IInv, TypeOK, MailType
  <2>1. led_pc = "recv" /\ LEDAlive => led_k + Len(led_mb) = 5
    BY <2>t DEF LEDAlive, NodeAlive, LInv, LEDRuns, LEDTokens, LEDCounts
  <2>2. nb_pc = "recv" /\ byh_pc # "none" => Len(nb_got) + Len(iot_mb) = 5
    <3> SUFFICES ASSUME nb_pc = "recv", byh_pc # "none"
                 PROVE  Len(nb_got) + Len(iot_mb) = 5
      OBVIOUS
    <3>1. byh_pc \in {"release2", "idle", "asserted"}
      BY <2>t DEF IInv, Control, Timing, BYHNotStarted, BYHMeasures, BYHType
    <3> QED
      BY <2>t, <3>1 DEF IInv, Control, Counts
  <2> QED
    BY <2>1, <2>2 DEF TokenMeansBatch
<1>2. Init => TokenMeansBatch
  BY DEF Init, TokenMeansBatch
<1>3. LabelsInv /\ LabelsInv' /\ TokenMeansBatch /\ [Next]_vars => TokenMeansBatch'
  <2> SUFFICES ASSUME LabelsInv, LabelsInv', TokenMeansBatch, [Next]_vars PROVE TokenMeansBatch'
    OBVIOUS
  <2>1. CASE shell' = "idle"
    <3>1. (LabelsInv /\ shell = "idle" => TokenMeansBatch)'
      BY <1>1, PTL
    <3> QED
      BY <2>1, <3>1
  <2>2. CASE shell' # "idle"
    BY <2>2, Frozen DEF LabelsInv, TokenMeansBatch, LEDAlive, NodeAlive
  <2> QED
    BY <2>1, <2>2
<1> QED
  BY <1>2, <1>3, PanelInvariance, PTL DEF Spec

\* No mail is ever refused by a full mailbox whose reader lives.
THEOREM NoMailDroppedAlways == Spec => []NoMailDropped
<1>1. LabelsInv => NoMailDropped
  <2> SUFFICES ASSUME LabelsInv, byh_pc = "send" PROVE
                 /\ byh_sent < 5 /\ NodeAlive => Len(iot_mb) < MbSize
                 /\ byh_sent >= 5 /\ LEDAlive => Len(led_mb) < MbSize
    BY DEF NoMailDropped
  <2>b. byh_sent \in 0..10
    BY LEDTypes DEF LabelsInv, BYHType
  <2>1. byh_sent < 5 /\ NodeAlive => Len(iot_mb) < MbSize
    BY <2>b DEF NodeAlive, LabelsInv, IInv, Control, Counts, MbSize
  <2>2. byh_sent >= 5 /\ LEDAlive => Len(led_mb) < MbSize
    <3> SUFFICES ASSUME byh_sent >= 5, LEDAlive PROVE Len(led_mb) < MbSize
      OBVIOUS
    <3>1. byh_sent < 10 /\ LEDCounts
      BY DEF LEDAlive, NodeAlive, LabelsInv, LInv, LEDRuns, IInv, Control, Counts
    <3> QED
      BY <3>1, <2>b DEF LEDCounts, MbSize
  <2> QED
    BY <2>1, <2>2
<1> QED
  BY <1>1, PanelInvariance, PTL
-----------------------------------------------------------------------------
(* The order of the uploads.                                               *)

LEMMA OrderStep == IInv /\ MainFirst /\ OrderInv /\ [Next]_vars => OrderInv'
<1> SUFFICES ASSUME IInv, MainFirst, OrderInv, [Next]_vars, shell' = "idle"
             PROVE  OrderInv'
  BY DEF OrderInv
<1>i. shell = "idle"
  BY StillIdle
<1>c. Counts /\ Timing /\ Tokens
  BY <1>i DEF IInv, Control
<1>s. BYHType /\ NBType
  BY DEF IInv, TypeOK
<1> USE <1>i DEF BYHNotStarted, BYHMeasures
<1>1. CASE Boot \/ Rerun
  <2>1. /\ UNCHANGED <<uploaded, batch>>
        /\ \/ UNCHANGED <<nb_pc, byh_pc>>
           \/ byh_pc = "none" /\ nb_pc' \in {"none", "init"} /\ byh_pc' \in {"none", "take"}
    BY <1>1, RunCases DEF Boot, Rerun, RunEnviroment, InitAndStart, nbVars, byhVars
  <2> QED
    BY <2>1 DEF OrderInv, NextUpload
<1>2. CASE NBInit
  BY <1>2 DEF NBInit, OrderInv, NextUpload, byhVars
<1>3. CASE NBRelease
  <2>1. byh_pc' = byh_pc \/ (byh_pc = "wait" /\ byh_pc' = "humiture")
    BY <1>3, ResumeOne DEF NBRelease, Resumes
  <2>2. nb_pc = "start" /\ nb_pc' \in {"take", "asserted"} /\ uploaded' = uploaded /\ batch' = batch
    BY <1>3 DEF NBRelease
  <2>3. byh_pc \in {"none", "take", "wait", "asserted"}
    BY <2>2, <1>c, <1>s DEF Timing, BYHType
  <2> QED
    BY <2>1, <2>2, <2>3 DEF OrderInv, NextUpload
<1>4. CASE NBTake
  <2>1. nb_pc' \in {"asserted", "wait"} \/ (byh_pc = "none" /\ nb_pc' = "recv")
    <3>1. CASE sem_one = NULL
      BY <1>4, <3>1 DEF NBTake
    <3>2. CASE sem_one # NULL
      BY <1>4, <3>2, ResumeOne DEF NBTake
    <3> QED
      BY <3>1, <3>2
  <2>2. nb_pc = "take" /\ uploaded' = uploaded /\ batch' = batch /\ byh_pc' = byh_pc
    BY <1>4 DEF NBTake, byhVars
  <2> QED
    BY <2>1, <2>2 DEF OrderInv, NextUpload
<1>5. CASE NBRecv
  <2>1. /\ nb_pc = "recv" /\ nb_pc' \in {"recv", "upload"} /\ uploaded' = uploaded
        /\ batch' = batch /\ byh_pc' = byh_pc
    BY <1>5 DEF NBRecv, byhVars
  <2>2. byh_pc # "none"
    <3>1. Len(iot_mb) > 0
      BY <1>5, TailOfSeq DEF NBRecv, IInv, TypeOK, MailType
    <3> QED
      BY <3>1, <1>c DEF Counts
  <2> QED
    BY <2>1, <2>2 DEF OrderInv, NextUpload
<1>6. CASE NBUpload
  <2>1. nb_pc = "upload" /\ nb_pc' = "take" /\ batch' = batch /\ byh_pc' = byh_pc
    BY <1>6 DEF NBUpload, byhVars
  <2>2. 1 \in 1..Len(nb_got)
    BY <2>1, <1>c DEF Counts
  <2>3. nb_got[1] = [field |-> 1, batch |-> batch]
    BY <2>2 DEF IInv, Stream
  <2>4. uploaded' = batch
    BY <1>6, <2>3 DEF NBUpload
  <2>5. NextUpload' = Succ(batch)
    BY <2>4, <1>s, NullAssumption DEF NextUpload, BYHType, BatchNo
  <2>6. byh_pc \in {"release2", "idle", "asserted"}
    BY <2>1, <1>c, <1>s DEF Timing, BYHType
  <2> QED
    BY <2>1, <2>5, <2>6 DEF OrderInv, Succ
<1>7. CASE BYHTake
  <2>1. /\ byh_pc = "take" /\ byh_pc' \in {"asserted", "wait", "humiture"}
        /\ nb_pc' = nb_pc /\ uploaded' = uploaded /\ batch' = batch
    BY <1>7 DEF BYHTake, nbVars
  <2>2. nb_pc \notin {"recv", "upload"}
    BY <2>1, <1>c DEF Timing
  <2> QED
    BY <2>1, <2>2 DEF OrderInv, NextUpload
<1>8. CASE BYHHumiture
  <2>1. /\ byh_pc = "humiture" /\ byh_pc' = "d1" /\ batch' = Succ(batch)
        /\ nb_pc' = nb_pc /\ uploaded' = uploaded
    BY <1>8 DEF BYHHumiture, nbVars
  <2>2. nb_pc \notin {"recv", "upload"}
    BY <2>1, <1>c DEF Timing
  <2> QED
    BY <2>1, <2>2 DEF OrderInv, NextUpload
<1>9. CASE BYHNoise \/ BYHPM \/ BYHPMDelayed \/ BYHSend
  BY <1>9, <1>c DEF BYHNoise, BYHPM, BYHPMDelayed, BYHSend, OrderInv, NextUpload, nbVars, Timing
<1>10. CASE BYHReleaseOne
  <2>1. /\ byh_pc = "release1" /\ byh_pc' \in {"release2", "asserted"}
        /\ batch' = batch /\ uploaded' = uploaded /\ nb_pc' \in {nb_pc, "recv"}
    BY <1>10 DEF BYHReleaseOne
  <2>2. byh_pc' = "release2" => nb_pc' = "recv"
    BY <1>10, <2>1, <1>c, ResumeOne DEF BYHReleaseOne, Resumes, Timing, Tokens
  <2>3. nb_pc # "upload" /\ nb_pc # "recv"
    BY <2>1, <1>c DEF Timing
  <2> QED
    BY <2>1, <2>2, <2>3 DEF OrderInv, NextUpload
<1>11. CASE BYHReleaseTwo
  <2>1. /\ byh_pc = "release2" /\ byh_pc' \in {"idle", "asserted"} /\ nb_pc' = nb_pc
        /\ batch' = batch /\ uploaded' = uploaded
    BY <1>11 DEF BYHReleaseTwo, nbVars
  <2> QED
    BY <2>1 DEF OrderInv, NextUpload
<1>12. CASE BYHSecond
  <2>1. /\ byh_pc = "idle" /\ byh_pc' \in {"idle", "humiture"} /\ nb_pc' = nb_pc
        /\ batch' = batch /\ uploaded' = uploaded
    BY <1>12 DEF BYHSecond, nbVars
  <2>2. CASE byh_pc' = "idle"
    BY <2>1, <2>2 DEF OrderInv, NextUpload
  <2>3. CASE byh_pc' # "idle"
    <3>1. byh_delay = 0 /\ SampleDue
      BY <1>12, <2>3 DEF BYHSecond
    <3>2. Elapsed = SamplePeriod /\ Elapsed > UploadMax /\ Elapsed # 0
      BY <3>1, <1>s, UploadMaxAssumption, SamplePeriodAssumption DEF SampleDue, Elapsed, BYHType
    <3>3. nb_pc \in {"wait", "asserted"}
      BY <2>1, <3>2, <1>c, <1>s, UploadMaxAssumption, SamplePeriodAssumption DEF Timing, NBType
    <3> QED
      BY <2>1, <2>3, <3>3 DEF OrderInv, NextUpload
  <2> QED
    BY <2>2, <2>3
<1>13. CASE LEDStart \/ LEDPoll \/ LEDRecv \/ LEDDraw \/ Tick \/ UNCHANGED vars
  BY <1>13 DEF LEDStart, LEDPoll, LEDRecv, LEDDraw, Tick, vars, nbVars, byhVars, OrderInv, NextUpload
<1> QED
  BY <1>1, <1>2, <1>3, <1>4, <1>5, <1>6, <1>7, <1>8, <1>9, <1>10, <1>11, <1>12, <1>13, Steps

\* Every batch is uploaded, once and in order.
THEOREM UploadsInOrderAlways == Spec => UploadsInOrder
<1> DEFINE Ordered == uploaded' # uploaded =>
              uploaded' = IF uploaded = NULL THEN Succ(0) ELSE Succ(uploaded)
<1>1. Init => OrderInv
  BY DEF Init, OrderInv, NextUpload, BYHNotStarted
<1>2. LabelsInv /\ OrderInv /\ [Next]_vars => OrderInv'
  BY OrderStep DEF LabelsInv
<1>3. LabelsInv /\ OrderInv /\ [Next]_vars => [Ordered]_vars
  <2> SUFFICES ASSUME LabelsInv, OrderInv, [Next]_vars PROVE Ordered
    OBVIOUS
  <2>1. CASE NBUpload
    <3>1. shell = "idle" /\ nb_pc = "upload"
      BY <2>1 DEF NBUpload, Cpu24
    <3>2. 1 \in 1..Len(nb_got) /\ batch = NextUpload
      BY <3>1 DEF LabelsInv, IInv, Control, Counts, OrderInv
    <3>3. nb_got[1] = [field |-> 1, batch |-> batch]
      BY <3>2 DEF LabelsInv, IInv, Stream
    <3> QED
      BY <2>1, <3>2, <3>3 DEF NBUpload, NextUpload
  <2>2. CASE ~NBUpload
    <3>1. uploaded' = uploaded
      BY <2>2, Steps
      DEF Boot, Rerun, RunEnviroment, InitAndStart, NBInit, NBRelease, NBTake, NBRecv,
          BYHTake, BYHHumiture, BYHNoise, BYHPM, BYHPMDelayed, BYHSend, BYHReleaseOne,
          BYHReleaseTwo, BYHSecond, LEDStart, LEDPoll, LEDRecv, LEDDraw, Tick, vars, nbVars
    <3> QED
      BY <3>1
  <2> QED
    BY <2>1, <2>2
<1>4. Spec => [][Ordered]_vars
  BY <1>1, <1>2, <1>3, PanelInvariance, PTL DEF Spec
<1> QED
  BY <1>4 DEF UploadsInOrder
-----------------------------------------------------------------------------
(* What panel and cloud show of the same batch.                            *)

\* While BYH_M waits for the next batch and no token is left, the labels are
\* those of the batch it has sent.
Shown ==
    LEDRuns /\ byh_pc = "idle" /\ led_pc # "recv" /\ sem_two.value = 0
        => labels[1] = [field |-> 1, batch |-> batch]

LEMMA ShownStep == LabelsInv /\ Shown /\ [Next]_vars => Shown'
<1> SUFFICES ASSUME LabelsInv, Shown, [Next]_vars,
                    LEDRuns', byh_pc' = "idle", led_pc' # "recv", sem_two'.value = 0
             PROVE  labels'[1] = [field |-> 1, batch |-> batch']
  BY DEF Shown
<1> USE DEF LabelsInv
<1>1. CASE Boot \/ Rerun
  <2>1. LEDRuns /\ UNCHANGED <<led_mb, sem_two, nbVars, byhVars, ledVars>>
    BY <1>1, RunPanel
  <2> QED
    BY <2>1 DEF Shown, byhVars, ledVars
<1>2. CASE ~Boot /\ ~Rerun
  <2>1. LEDRuns /\ LEDStream /\ LEDTokens
    BY <1>2, RanBefore DEF LInv
  <2>2. CASE LEDRecv
    <3>1. led_pc = "recv" /\ Cpu25 /\ led_k < 5 /\ led_k \in 0..5
      BY <2>2, LEDTypes DEF LEDRecv
    <3>2. led_k = 4
      BY <2>2, <3>1 DEF LEDRecv, LastRecv
    <3>3. labels[1] = [field |-> 1, batch |-> batch]
      BY <2>1, <3>1, <3>2 DEF LEDStream, Received
    <3>4. labels'[1] = labels[1] /\ batch' = batch
      BY <2>2, <3>2, LEDTypes DEF LEDRecv, byhVars, Fields
    <3> QED
      BY <3>3, <3>4
  <2>3. CASE LEDPoll
    <3>1. led_pc = "poll" /\ byh_pc = "idle" /\ UNCHANGED <<labels, batch>>
      BY <2>3 DEF LEDPoll, byhVars
    <3>2. sem_two.value = 0
      BY <2>1, <2>3, <3>1 DEF LEDPoll, LEDTokens
    <3> QED
      BY <2>1, <3>1, <3>2 DEF Shown
  <2>4. CASE BYHReleaseTwo
    <3>1. sem_two # NULL /\ sem_two' = Release(sem_two)
      BY <2>4 DEF BYHReleaseTwo
    <3>2. byh_pc = "release2"
      BY <2>4 DEF BYHReleaseTwo
    <3>3. sem_two.waiters = <<>> /\ sem_two.value = 0
      BY <2>1, <3>1, <3>2 DEF LEDTokens
    <3>4. sem_two'.value # 0
      BY <3>1, <3>3, LEDTypes, SemWrapAssumption DEF Release, IInv, TypeOK, SemType, Sem
    <3> QED
      BY <3>4
  <2>5. CASE ~LEDRecv /\ ~LEDPoll /\ ~BYHReleaseTwo
    <3>1. byh_pc = "idle" /\ UNCHANGED <<batch, labels, sem_two>> /\ led_pc # "recv"
      BY <1>2, <2>5, Steps
      DEF NBInit, NBRelease, NBTake, NBRecv, NBUpload, BYHTake, BYHHumiture,
          BYHNoise, BYHPM, BYHPMDelayed, BYHSend, BYHReleaseOne, BYHSecond,
          LEDStart, LEDDraw, Tick, vars, semVars, byhVars, ledVars
    <3> QED
      BY <2>1, <3>1 DEF Shown
  <2> QED
    BY <2>2, <2>3, <2>4, <2>5
<1> QED
  BY <1>1, <1>2

LEMMA SuccInjective ==
  ASSUME NEW b \in BatchNo, NEW c \in BatchNo, Succ(b) = Succ(c)
  PROVE  b = c
  BY BatchesAssumption DEF BatchNo, Succ

\* Between two batches, cloud and panel show the same one.
THEOREM CloudMatchesLabelsAlways == Spec => []CloudMatchesLabels
<1>1. Init => OrderInv /\ Shown
  BY DEF Init, OrderInv, NextUpload, BYHNotStarted, Shown, LEDRuns
<1>2. LabelsInv /\ OrderInv /\ Shown /\ [Next]_vars => OrderInv' /\ Shown'
  BY OrderStep, ShownStep DEF LabelsInv
<1>3. LabelsInv /\ OrderInv /\ Shown => CloudMatchesLabels
  <2> SUFFICES ASSUME LabelsInv, OrderInv, Shown, nb_pc = "wait", byh_pc = "idle",
                      LEDAlive, led_pc = "poll", sem_two.value = 0, uploaded # NULL
               PROVE  labels[1] = [field |-> 1, batch |-> uploaded]
    BY DEF CloudMatchesLabels
  <2>1. labels[1] = [field |-> 1, batch |-> batch]
    BY DEF Shown, LEDRuns, LEDAlive, NodeAlive
  <2>2. Succ(batch) = Succ(uploaded)
    BY DEF OrderInv, NextUpload, LEDAlive, NodeAlive
  <2>3. batch \in BatchNo /\ uploaded \in BatchNo
    BY DEF LabelsInv, IInv, TypeOK, BYHType, NBType
  <2> QED
    BY <2>1, <2>2, <2>3, SuccInjective
<1> QED
  BY <1>1, <1>2, <1>3, PanelInvariance, PTL DEF Spec
-----------------------------------------------------------------------------
(* The monitor as a whole: the three threads implement Monitor.  Beyond    *)
(* the invariants above the mapping needs to know which batch LED is owed, *)
(* which page is up, and what nobody has touched yet.                      *)

\* LED is done with the present batch: BYH_M has not begun the next one, or
\* measures it next, or waits and LED has taken its token and five mails.
PanelServed ==
    \/ BYHNotStarted \/ byh_pc = "humiture"
    \/ byh_pc = "idle" /\ led_pc # "recv" /\ sem_two.value = 0

\* Either the labels are those of the present batch, or LED is owed exactly
\* one batch.
PanelOrder ==
    LEDRuns => IF PanelServed THEN Promised!UpToDate(LastShown)
               ELSE Promised!Awaits(LastShown)

\* Before the first batch.
Untouched ==
    /\ ~mb_inited => batch = 0 /\ uploaded = NULL
    /\ led_pc \in {"none", "start"} =>
          labels = NoLabels /\ panel = <<>> /\ led_i = 0

\* The page on the panel, given how far the loop of LED has counted.
PageUp ==
    led_pc \notin {"none", "start"} =>
        /\ led_i \in 0..(2 * PageHalf)
        /\ panel # <<>>
        /\ DOMAIN panel = IF led_i \in 1..PageHalf THEN PMFields ELSE WeatherFields

MInv == LabelsInv /\ OrderInv /\ PanelOrder /\ Untouched /\ PageUp

LEMMA SmallModulo ==
  ASSUME NEW n \in Nat \ {0}, NEW i \in 0..(n - 1)
  PROVE  i % n = i /\ (i + n) % n = i
  OBVIOUS

\* When the loop of LED draws.
LEMMA DrawTimes ==
  ASSUME NEW i \in 0..(2 * PageHalf)
  PROVE  /\ i % (2 * PageHalf) = 0 <=> i \in {0, 2 * PageHalf}
         /\ i % PageHalf = 0 <=> i \in {0, PageHalf, 2 * PageHalf}
<1>p. PageHalf \in Nat \ {0} /\ 2 * PageHalf \in Nat \ {0}
  BY PageHalfAssumption
<1>1. i % (2 * PageHalf) = 0 <=> i \in {0, 2 * PageHalf}
  <2> DEFINE n == 2 * PageHalf
  <2>n. n \in Nat \ {0} /\ i \in 0..n
    BY <1>p
  <2> HIDE DEF n
  <2>1. CASE i = n
    <3>1. (0 + n) % n = 0
      BY <2>n, SmallModulo
    <3> QED
      BY <2>1, <2>n, <3>1 DEF n
  <2>2. CASE i # n
    <3>1. i \in 0..(n - 1)
      BY <2>2, <2>n
    <3>2. i % n = i
      BY <2>n, <3>1, SmallModulo
    <3> QED
      BY <2>2, <3>2 DEF n
  <2> QED
    BY <2>1, <2>2
<1>2. i % PageHalf = 0 <=> i \in {0, PageHalf, 2 * PageHalf}
  <2> DEFINE n == PageHalf
  <2>n. n \in Nat \ {0} /\ i \in 0..(n + n)
    BY <1>p
  <2> HIDE DEF n
  <2>1. CASE i \in 0..(n - 1)
    <3>1. i % n = i
      BY <2>1, <2>n, SmallModulo
    <3>2. i % n = 0 <=> i \in {0, n, n + n}
      BY <2>1, <2>n, <3>1
    <3> QED
      BY <1>p, <3>2 DEF n
  <2>2. CASE i \in n..(n + n - 1)
    <3>1. i - n \in 0..(n - 1) /\ (i - n) + n = i
      BY <2>2, <2>n
    <3>2. ((i - n) + n) % n = i - n
      BY <2>n, <3>1, SmallModulo
    <3>3. i % n = i - n
      BY <3>1, <3>2
    <3>4. i % n = 0 <=> i \in {0, n, n + n}
      BY <2>2, <2>n, <3>3
    <3> QED
      BY <1>p, <3>4 DEF n
  <2>3. CASE i = n + n
    <3>1. (n + n) % n = 0
      BY <2>n
    <3> QED
      BY <1>p, <2>3, <3>1 DEF n
  <2> QED
    BY <2>n, <2>1, <2>2, <2>3
<1> QED
  BY <1>1, <1>2

\* LED starts to run in the run of Enviroment() that creates the threads.
LEMMA PanelStarts ==
  ASSUME LabelsInv, Boot \/ Rerun
  PROVE  /\ UNCHANGED <<batch, uploaded, labels, panel, led_i>>
         /\ LEDRuns' /\ ~LEDRuns =>
               ~mb_inited /\ led_pc' = "start" /\ byh_pc' \in {"none", "take"}
         /\ mb_inited => mb_inited' /\ UNCHANGED <<byh_pc, led_pc>>
         /\ mb_inited /\ LEDRuns' => UNCHANGED sem_two
         /\ ~mb_inited => /\ led_pc = "none" /\ led_pc' \in {"none", "start"}
                          /\ LEDRuns' => byh_pc' \in {"none", "take"}
<1>1. shell = "idle"
  BY DEF Boot, Rerun, LabelsInv, MainFirst
<1>2. Booted
  BY <1>1 DEF LabelsInv, IInv, Control
<1>3. UNCHANGED <<batch, uploaded, labels, panel, led_i>>
  BY DEF Boot, Rerun, RunEnviroment, InitAndStart, nbVars, byhVars, ledVars
<1>4. CASE mb_inited
  <2>1. UNCHANGED <<mb_inited, nb_pc, byh_pc, led_pc>>
    BY <1>4 DEF Boot, Rerun, RunEnviroment, InitAndStart, nbVars, byhVars, ledVars
  <2>2. shell' = "idle" => sem_two' = sem_two
    BY <1>4 DEF Boot, Rerun, RunEnviroment, InitAndStart
  <2> QED
    BY <1>1, <1>3, <1>4, <2>1, <2>2 DEF LEDRuns
<1>5. CASE ~mb_inited
  <2>1. /\ nb_pc = "none" /\ byh_pc = "none" /\ led_pc = "none"
    BY <1>2, <1>5 DEF Booted
  <2>2. led_pc' \in {"none", "start"} /\ byh_pc' \in {"none", "take"}
    BY <1>5, <2>1 DEF Boot, Rerun, RunEnviroment, InitAndStart, byhVars, ledVars
  <2> QED
    BY <1>3, <1>5, <2>1, <2>2 DEF LEDRuns
<1> QED
  BY <1>4, <1>5

LEMMA UntouchedStep == LabelsInv /\ Untouched /\ [Next]_vars => Untouched'
<1> SUFFICES ASSUME LabelsInv, Untouched, [Next]_vars PROVE Untouched'
  OBVIOUS
<1>1. CASE Boot \/ Rerun
  BY <1>1, PanelStarts DEF Untouched
<1>2. CASE ~Boot /\ ~Rerun
  <2>1. mb_inited' = mb_inited
    BY <1>2, Steps
    DEF NBInit, NBRelease, NBTake, NBRecv, NBUpload, BYHTake, BYHHumiture,
        BYHNoise, BYHPM, BYHPMDelayed, BYHSend, BYHReleaseOne, BYHReleaseTwo,
        BYHSecond, LEDStart, LEDPoll, LEDRecv, LEDDraw, Tick, vars, sysVars
  <2>2. ~mb_inited /\ shell = "idle" => nb_pc = "none" /\ byh_pc = "none"
    BY DEF LabelsInv, IInv, Control, Booted
  <2>3. ~mb_inited => batch' = batch /\ uploaded' = uploaded
    BY <1>2, <2>2, Steps
    DEF NBInit, NBRelease, NBTake, NBRecv, NBUpload, BYHTake, BYHHumiture,
        BYHNoise, BYHPM, BYHPMDelayed, BYHSend, BYHReleaseOne, BYHReleaseTwo,
        BYHSecond, LEDStart, LEDPoll, LEDRecv, LEDDraw, Tick, Cpu24, vars,
        nbVars, byhVars
  <2>4. led_pc' \in {"none", "start"} =>
           led_pc' = led_pc /\ UNCHANGED <<labels, panel, led_i>>
    BY <1>2, Steps
    DEF NBInit, NBRelease, NBTake, NBRecv, NBUpload, BYHTake, BYHHumiture,
        BYHNoise, BYHPM, BYHPMDelayed, BYHSend, BYHReleaseOne, BYHReleaseTwo,
        BYHSecond, LEDStart, LEDPoll, LEDRecv, LEDDraw, Tick, vars, ledVars
  <2> QED
    BY <2>1, <2>3, <2>4 DEF Untouched
<1> QED
  BY <1>1, <1>2

LEMMA PageUpStep == LabelsInv /\ Untouched /\ PageUp /\ [Next]_vars => PageUp'
<1> SUFFICES ASSUME LabelsInv, Untouched, PageUp, [Next]_vars PROVE PageUp'
  OBVIOUS
<1>p. PageHalf \in Nat \ {0} /\ led_i \in Nat
  BY PageHalfAssumption DEF LabelsInv, IInv, TypeOK, LEDType
<1> USE DEF WeatherFields, PMFields
<1>e. \A F : F # {} => \A g : DOMAIN g = F => g # <<>>
  OBVIOUS
<1>1. CASE Boot \/ Rerun
  BY <1>1, PanelStarts DEF PageUp
<1>2. CASE LEDStart
  <2>1. led_i' = 0 /\ panel' = [f \in WeatherFields |-> NULL] /\ led_pc' = "poll"
    BY <1>2 DEF LEDStart, Untouched
  <2>2. DOMAIN panel' = WeatherFields /\ panel' # <<>>
    BY <2>1
  <2> QED
    BY <1>p, <2>1, <2>2 DEF PageUp
<1>3. CASE LEDDraw
  <2>1. led_pc = "draw" /\ led_i' = NextI(led_i)
    BY <1>3 DEF LEDDraw
  <2>2. /\ led_i \in 0..(2 * PageHalf) /\ panel # <<>>
        /\ DOMAIN panel = IF led_i \in 1..PageHalf THEN PMFields ELSE WeatherFields
    BY <2>1 DEF PageUp
  <2>3. CASE led_i \in {0, 2 * PageHalf}
    <3>1. led_i' = 1 /\ panel' = [f \in PMFields |-> labels[f]]
      BY <1>3, <2>2, <2>3, DrawTimes DEF LEDDraw, NextI
    <3>2. DOMAIN panel' = PMFields /\ panel' # <<>>
      BY <3>1
    <3> QED
      BY <1>p, <3>1, <3>2 DEF PageUp
  <2>4. CASE led_i = PageHalf
    <3>1. led_i' = PageHalf + 1 /\ panel' = [f \in WeatherFields |-> labels[f]]
      <4>1. led_i \notin {0, 2 * PageHalf}
        BY <1>p, <2>4
      <4> QED
        BY <1>3, <2>2, <2>4, <4>1, DrawTimes DEF LEDDraw, NextI
    <3>2. DOMAIN panel' = WeatherFields /\ panel' # <<>>
      BY <3>1
    <3>3. led_i' \in 0..(2 * PageHalf) /\ led_i' \notin 1..PageHalf
      BY <1>p, <3>1
    <3> QED
      BY <3>2, <3>3 DEF PageUp
  <2>5. CASE led_i \notin {0, PageHalf, 2 * PageHalf}
    <3>1. led_i' = led_i + 1 /\ panel' = panel
      BY <1>3, <2>2, <2>5, DrawTimes DEF LEDDraw, NextI
    <3>2. led_i' \in 0..(2 * PageHalf)
      BY <1>p, <2>2, <2>5, <3>1
    <3>3. led_i' \in 1..PageHalf <=> led_i \in 1..PageHalf
      BY <1>p, <2>2, <2>5, <3>1
    <3> QED
      BY <2>2, <3>1, <3>2, <3>3 DEF PageUp
  <2> QED
    BY <2>3, <2>4, <2>5
<1>4. CASE ~Boot /\ ~Rerun /\ ~LEDStart /\ ~LEDDraw
  <2>1. /\ led_i' = led_i /\ panel' = panel
        /\ led_pc \in {"none", "start"} => led_pc' = led_pc
    BY <1>4, Steps
    DEF NBInit, NBRelease, NBTake, NBRecv, NBUpload, BYHTake, BYHHumiture,
        BYHNoise, BYHPM, BYHPMDelayed, BYHSend, BYHReleaseOne, BYHReleaseTwo,
        BYHSecond, LEDPoll, LEDRecv, Tick, vars, ledVars
  <2> QED
    BY <2>1 DEF PageUp
<1> QED
  BY <1>1, <1>2, <1>3, <1>4

\* A mail LED receives is the next field of the present batch.
LEMMA LastMail ==
  ASSUME LabelsInv, LEDRecv
  PROVE  /\ LEDRuns /\ LEDRuns' /\ led_pc = "recv" /\ byh_pc = "idle"
         /\ led_k' = led_k + 1 /\ UNCHANGED <<batch, byh_pc, sem_two, panel, uploaded>>
         /\ sem_two # NULL /\ sem_two.value = 0
         /\ IF led_k = 4
            THEN led_pc' = "draw" /\ labels'[5] = [field |-> 5, batch |-> batch]
            ELSE led_pc' = "recv" /\ labels'[5] = labels[5]
<1>1. LEDRuns /\ led_pc = "recv"
  BY PanelCpu DEF LEDRuns, LEDRecv
<1>2. /\ led_mb \in Seq(Mail) /\ led_k \in 0..4 /\ led_k < 5
      /\ labels \in [Fields -> Mail \cup {NULL}]
  BY <1>1, LEDTypes DEF LabelsInv
<1>3. LEDStream /\ LEDCounts /\ LEDTokens
  BY <1>1 DEF LabelsInv, LInv
<1>4. byh_pc = "idle" /\ sem_two # NULL /\ sem_two.value = 0 /\ led_mb # <<>>
  BY <1>1, <1>2, <1>3, LEDTypes DEF LabelsInv, LEDTokens, LEDCounts
<1>5. Head(led_mb) = [field |-> led_k + 1, batch |-> batch]
  <2>1. Head(led_mb) = led_mb[1] /\ 1 \in 1..Len(led_mb)
    BY <1>2, <1>4, TailOfSeq
  <2> QED
    BY <1>1, <1>3, <2>1 DEF LEDStream, Received
<1>6. labels' = [labels EXCEPT ![led_k + 1] = [field |-> led_k + 1, batch |-> batch]]
  BY <1>4, <1>5 DEF LEDRecv
<1>7. IF led_k = 4 THEN labels'[5] = [field |-> 5, batch |-> batch]
                   ELSE labels'[5] = labels[5]
  BY <1>2, <1>6 DEF Fields
<1>8. led_pc' = IF led_k = 4 THEN "draw" ELSE "recv"
  BY <1>2 DEF LEDRecv, LastRecv
<1>9. UNCHANGED <<batch, byh_pc, sem_two, panel, nb_pc, shell, uploaded>>
  BY DEF LEDRecv, semVars, byhVars, sysVars, nbVars
<1> QED
  BY <1>1, <1>4, <1>7, <1>8, <1>9 DEF LEDRuns, LEDRecv

LEMMA ShownOf ==
  ASSUME NEW b, b \in BatchNo
  PROVE  LET m == [field |-> 5, batch |-> b]
         IN  m # NULL /\ m.batch = b /\ b # NULL
  BY NullAssumption DEF BatchNo

LEMMA PanelOrderStep ==
  LabelsInv /\ Untouched /\ PanelOrder /\ [Next]_vars => PanelOrder'
<1> SUFFICES ASSUME LabelsInv, Untouched, PanelOrder, [Next]_vars, LEDRuns'
             PROVE  (IF PanelServed THEN Promised!UpToDate(LastShown)
                     ELSE Promised!Awaits(LastShown))'
  BY DEF PanelOrder
<1>t. IInv /\ LInv /\ BYHType
  BY DEF LabelsInv, IInv, TypeOK
<1> USE DEF Promised!UpToDate, Promised!Awaits, LastShown
<1>1. CASE (Boot \/ Rerun) /\ ~mb_inited
  <2>1. /\ batch' = 0 /\ labels' = NoLabels /\ byh_pc' \in {"none", "take"}
    BY <1>1, PanelStarts DEF Untouched
  <2>2. labels'[5] = NULL
    BY <2>1 DEF NoLabels, Fields
  <2> QED
    BY <2>1, <2>2 DEF PanelServed, BYHNotStarted
<1>2. CASE (Boot \/ Rerun) /\ mb_inited
  <2>1. LEDRuns
    BY <1>2, PanelStarts
  <2>2. /\ UNCHANGED <<batch, labels>> /\ UNCHANGED <<led_pc, byh_pc, sem_two>>
    BY <1>2, PanelStarts
  <2> QED
    BY <2>1, <2>2 DEF PanelOrder, PanelServed, BYHNotStarted
<1> SUFFICES ASSUME ~Boot, ~Rerun
             PROVE  (IF PanelServed THEN Promised!UpToDate(LastShown)
                     ELSE Promised!Awaits(LastShown))'
  BY <1>1, <1>2
<1>l. /\ LEDRuns /\ LEDStream /\ LEDCounts /\ LEDTokens
      /\ IF PanelServed THEN Promised!UpToDate(LastShown) ELSE Promised!Awaits(LastShown)
  BY <1>t, RanBefore DEF LInv, PanelOrder
<1>i. shell = "idle"
  BY <1>l DEF LEDRuns
<1> USE DEF BYHNotStarted
<1>3. CASE BYHHumiture
  <2>1. /\ byh_pc = "humiture" /\ byh_pc' = "d1" /\ batch' = Succ(batch) /\ labels' = labels
    BY <1>3 DEF BYHHumiture, ledVars
  <2>2. PanelServed /\ ~PanelServed'
    BY <2>1 DEF PanelServed
  <2> QED
    BY <1>l, <2>1, <2>2 DEF Succ, Promised!Following
<1>4. CASE BYHReleaseTwo
  <2>1. /\ sem_two # NULL /\ byh_pc = "release2" /\ byh_pc' = "idle"
        /\ sem_two' = Release(sem_two) /\ UNCHANGED <<batch, labels>>
    BY <1>4 DEF BYHReleaseTwo, LEDRuns, ledVars
  <2>2. sem_two.waiters = <<>> /\ sem_two.value = 0 /\ sem_two \in Sem
    BY <1>l, <1>t, <2>1, LEDTypes DEF LEDTokens
  <2>3. sem_two'.value = 1
    BY <2>1, <2>2, SemWrapAssumption DEF Release, Sem
  <2>4. ~PanelServed /\ ~PanelServed'
    BY <2>1, <2>3 DEF PanelServed
  <2> QED
    BY <1>l, <2>1, <2>4
<1>5. CASE BYHSecond
  <2>1. /\ byh_pc = "idle" /\ UNCHANGED <<batch, labels, sem_two, led_pc>>
        /\ Elapsed = secs + 1
    BY <1>5, <1>t DEF BYHSecond, semVars, ledVars, Elapsed, BYHType
  <2>2. CASE SampleDue
    <3>1. Elapsed >= 2 /\ byh_pc' = "humiture"
      BY <1>5, <2>1, <2>2, SamplePeriodAssumption DEF BYHSecond, SampleDue
    <3>2. sem_two # NULL /\ sem_two.value = 0 /\ led_pc # "recv"
      BY <2>1, <3>1, <1>l, <1>t DEF LEDTokens, BYHType
    <3>3. PanelServed /\ PanelServed'
      BY <2>1, <3>1, <3>2 DEF PanelServed
    <3> QED
      BY <1>l, <2>1, <3>3
  <2>3. CASE ~SampleDue
    <3>1. PanelServed' <=> PanelServed
      BY <1>5, <2>1, <2>3 DEF BYHSecond, PanelServed
    <3> QED
      BY <1>l, <2>1, <3>1
  <2> QED
    BY <2>2, <2>3
<1>6. CASE LEDPoll
  <2>1. led_pc = "poll" /\ UNCHANGED <<batch, labels, byh_pc>>
    BY <1>6 DEF LEDPoll, byhVars
  <2>2. CASE sem_two # NULL /\ sem_two.value > 0
    <3>1. led_pc' = "recv" /\ byh_pc = "idle" /\ sem_two.value = 1
      BY <1>6, <1>l, <2>2 DEF LEDPoll, LEDTokens
    <3>2. ~PanelServed /\ ~PanelServed'
      BY <2>1, <3>1 DEF PanelServed
    <3> QED
      BY <1>l, <2>1, <3>2
  <2>3. CASE ~(sem_two # NULL /\ sem_two.value > 0)
    <3>1. sem_two' = sem_two /\ led_pc' # "recv"
      BY <1>6, <2>3 DEF LEDPoll
    <3>2. PanelServed' <=> PanelServed
      BY <2>1, <3>1 DEF PanelServed
    <3> QED
      BY <1>l, <2>1, <3>2
  <2> QED
    BY <2>2, <2>3
<1>7. CASE LEDRecv
  <2>1. CASE led_k = 4
    <3>1. labels'[5] = [field |-> 5, batch |-> batch] /\ batch' = batch
      BY <1>7, <2>1, LastMail
    <3>2. PanelServed'
      BY <1>7, <2>1, LastMail DEF PanelServed
    <3>3. labels'[5] # NULL /\ labels'[5].batch = batch /\ batch # NULL
      BY <1>t, <3>1, ShownOf DEF BYHType
    <3> QED
      BY <3>1, <3>2, <3>3
  <2>2. CASE led_k # 4
    <3>1. labels'[5] = labels[5] /\ batch' = batch
      BY <1>7, <2>2, LastMail
    <3>2. ~PanelServed /\ ~PanelServed'
      BY <1>7, <2>2, LastMail DEF PanelServed
    <3> QED
      BY <1>l, <3>1, <3>2
  <2> QED
    BY <2>1, <2>2
<1>8. CASE NBRelease
  <2>1. /\ byh_pc' = byh_pc \/ (byh_pc = "wait" /\ byh_pc' = "humiture")
        /\ UNCHANGED <<batch, labels, sem_two, led_pc>>
    BY <1>8, <1>t, <1>i, ResumeOne DEF NBRelease, Resumes, ledVars
  <2>2. PanelServed' <=> PanelServed
    BY <2>1 DEF PanelServed
  <2> QED
    BY <1>l, <2>1, <2>2
<1>9. CASE BYHTake \/ BYHNoise \/ BYHPM \/ BYHPMDelayed \/ BYHSend \/ BYHReleaseOne
  <2>1. UNCHANGED <<batch, labels, sem_two, led_pc>>
    BY <1>9 DEF BYHTake, BYHNoise, BYHPM, BYHPMDelayed, BYHSend, BYHReleaseOne, semVars, ledVars
  <2>2. PanelServed' <=> PanelServed
    BY <1>9, <2>1
    DEF BYHTake, BYHNoise, BYHPM, BYHPMDelayed, BYHSend, BYHReleaseOne, PanelServed, LEDRuns
  <2> QED
    BY <1>l, <2>1, <2>2
<1>10. CASE NBInit \/ NBTake \/ NBRecv \/ NBUpload \/ LEDStart \/ LEDDraw \/ Tick
            \/ UNCHANGED vars
  <2>1. UNCHANGED <<batch, labels, sem_two, byh_pc>> /\ (led_pc' = "recv" <=> led_pc = "recv")
    BY <1>10
    DEF NBInit, NBTake, NBRecv, NBUpload, LEDStart, LEDDraw, Tick, vars, semVars,
        byhVars, ledVars
  <2>2. PanelServed' <=> PanelServed
    BY <2>1 DEF PanelServed
  <2> QED
    BY <1>l, <2>1, <2>2
<1> QED
  BY <1>3, <1>4, <1>5, <1>6, <1>7, <1>8, <1>9, <1>10, Steps

\* A step that leaves the batches, the labels and the page alone is a stutter
\* of Monitor, or starts or stops its panel.
LEMMA PanelOnOrOff ==
  ASSUME MInv, [Next]_vars, UNCHANGED <<batch, uploaded, LastShown, panel>>
  PROVE  [Promised!Next]_(Promised!monitorVars)
<1> USE DEF Promised!Next, Promised!monitorVars
<1>1. CASE LEDRuns' /\ ~LEDRuns
  <2>1. Boot \/ Rerun
    BY <1>1, RanBefore DEF MInv, LabelsInv
  <2>2. ~mb_inited /\ led_pc = "none"
    BY <1>1, <2>1, PanelStarts DEF MInv
  <2>3. batch = 0 /\ uploaded = NULL /\ labels = NoLabels /\ panel = <<>>
    BY <2>2 DEF MInv, Untouched
  <2>4. LastShown = NULL
    BY <2>3 DEF LastShown, NoLabels, Fields
  <2> QED
    BY <1>1, <2>3, <2>4 DEF Promised!Start
<1>2. CASE LEDRuns /\ ~LEDRuns'
  BY <1>2 DEF Promised!Stop, LEDRuns
<1>3. CASE LEDRuns' = LEDRuns
  BY <1>3
<1> QED
  BY <1>1, <1>2, <1>3 DEF LEDRuns

\* What LED draws is the page Monitor draws.
LEMMA DrawnPage ==
  ASSUME MInv, NEW F, F \in {WeatherFields, PMFields}, led_pc = "draw"
  PROVE  [f \in F |-> labels[f]]
         = [f \in F |-> IF LastShown = NULL THEN NULL
                        ELSE [field |-> f, batch |-> LastShown]]
<1>f. F \subseteq Fields /\ 5 \in Fields
  BY DEF WeatherFields, PMFields, Fields
<1>1. CASE labels = NoLabels
  <2>1. LastShown = NULL /\ \A f \in F : labels[f] = NULL
    BY <1>f, <1>1 DEF LastShown, NoLabels
  <2> QED
    BY <2>1
<1>2. CASE labels # NoLabels
  <2>1. PICK b \in BatchNo : \A f \in Fields : labels[f] = [field |-> f, batch |-> b]
    BY <1>2 DEF MInv, LabelsInv, LabelsAligned
  <2>2. LastShown = b /\ b # NULL
    BY <1>f, <2>1, ShownOf DEF LastShown
  <2> QED
    BY <1>f, <2>1, <2>2
<1> QED
  BY <1>1, <1>2

LEMMA MonitorInit == Init => Promised!Init
<1> SUFFICES ASSUME Init PROVE Promised!Init
  OBVIOUS
<1>1. LastShown = NULL
  BY DEF Init, LastShown, NoLabels, Fields
<1>2. LEDRuns = FALSE
  BY DEF Init, LEDRuns
<1> QED
  BY <1>1, <1>2 DEF Init, Promised!Init

\* Every step of the threads is a step of Monitor or a stutter.
LEMMA MonitorStep == MInv /\ [Next]_vars => [Promised!Next]_(Promised!monitorVars)
<1> SUFFICES ASSUME MInv, [Next]_vars PROVE [Promised!Next]_(Promised!monitorVars)
  OBVIOUS
<1>l. LabelsInv /\ IInv
  BY DEF MInv, LabelsInv
<1>t. /\ batch \in BatchNo /\ uploaded \in BatchNo \cup {NULL} /\ 0 \in BatchNo
      /\ LET x == IF uploaded = NULL THEN 0 ELSE uploaded
         IN  x \in BatchNo /\ NextUpload = Succ(x)
  BY <1>l, BatchesAssumption DEF IInv, TypeOK, BYHType, NBType, BatchNo, NextUpload
<1> USE DEF Promised!Next, Promised!monitorVars
<1>1. CASE BYHHumiture
  <2>1. /\ shell = "idle" /\ byh_pc = "humiture" /\ byh_pc' = "d1" /\ batch' = Succ(batch)
        /\ UNCHANGED <<uploaded, labels, panel, led_pc, nb_pc, shell>>
    BY <1>1 DEF BYHHumiture, Cpu24, nbVars, ledVars, sysVars
  <2>2. LastShown' = LastShown /\ LEDRuns' = LEDRuns
    BY <2>1 DEF LastShown, LEDRuns
  <2>3. Promised!UpToDate(uploaded)
    <3>1. Succ(batch) = NextUpload
      BY <2>1 DEF MInv, OrderInv
    <3> QED
      BY <1>t, <3>1, SuccInjective DEF Promised!UpToDate
  <2>4. LEDRuns => Promised!UpToDate(LastShown)
    BY <2>1 DEF MInv, PanelOrder, PanelServed
  <2>5. Promised!Measure
    BY <2>1, <2>2, <2>3, <2>4 DEF Promised!Measure, Promised!Following, Succ
  <2> QED
    BY <2>5
<1>2. CASE NBUpload
  <2>1. /\ shell = "idle" /\ nb_pc = "upload" /\ nb_pc' = "take"
        /\ UNCHANGED <<batch, labels, panel, led_pc, byh_pc, shell>>
    BY <1>2 DEF NBUpload, Cpu24, byhVars, ledVars, sysVars
  <2>2. LastShown' = LastShown /\ LEDRuns' = LEDRuns
    BY <2>1 DEF LastShown, LEDRuns
  <2>3. uploaded' = batch
    <3>1. 1 \in 1..Len(nb_got)
      BY <1>l, <2>1 DEF IInv, Control, Counts
    <3>2. nb_got[1] = [field |-> 1, batch |-> batch]
      BY <1>l, <3>1 DEF IInv, Stream
    <3> QED
      BY <1>2, <3>2 DEF NBUpload
  <2>4. Promised!Awaits(uploaded)
    <3>1. batch = NextUpload
      BY <2>1 DEF MInv, OrderInv
    <3> QED
      BY <1>t, <3>1 DEF Promised!Awaits, Promised!Following, Succ
  <2>5. Promised!Upload
    BY <2>1, <2>2, <2>3, <2>4 DEF Promised!Upload
  <2> QED
    BY <2>5
<1>3. CASE LEDRecv
  <2>1. /\ UNCHANGED <<batch, uploaded, panel>> /\ LEDRuns /\ LEDRuns'
        /\ led_pc = "recv" /\ byh_pc = "idle"
    BY <1>l, <1>3, LastMail
  <2>2. CASE led_k = 4
    <3>1. labels'[5] = [field |-> 5, batch |-> batch]
      BY <1>l, <1>3, <2>2, LastMail
    <3>2. LastShown' = batch
      BY <1>t, <3>1, ShownOf DEF LastShown
    <3>3. Promised!Awaits(LastShown)
      BY <2>1 DEF MInv, PanelOrder, PanelServed, BYHNotStarted
    <3>4. Promised!Show
      BY <2>1, <3>2, <3>3 DEF Promised!Show
    <3> QED
      BY <3>4
  <2>3. CASE led_k # 4
    <3>1. LastShown' = LastShown
      BY <1>l, <1>3, <2>3, LastMail DEF LastShown
    <3> QED
      BY <2>1, <3>1, PanelOnOrOff
  <2> QED
    BY <2>2, <2>3
<1>4. CASE LEDStart
  <2>1. /\ led_pc = "start" /\ led_pc' = "poll" /\ Cpu25
        /\ UNCHANGED <<batch, uploaded, labels, byh_pc, nb_pc, shell>>
        /\ panel' = [f \in WeatherFields |-> NULL]
    BY <1>4 DEF LEDStart, byhVars, nbVars, sysVars
  <2>2. LEDRuns /\ LEDRuns' /\ LastShown' = LastShown
    BY <2>1, PanelCpu DEF LEDRuns, LastShown
  <2>3. LastShown = NULL /\ panel = <<>>
    BY <2>1 DEF MInv, Untouched, LastShown, NoLabels, Fields
  <2>4. Promised!Draw
    BY <2>1, <2>2, <2>3
    DEF Promised!Draw, Promised!Turn, Promised!WeatherFields, WeatherFields
  <2> QED
    BY <2>4
<1>5. CASE LEDDraw
  <2>1. /\ led_pc = "draw" /\ led_pc' = "poll" /\ Cpu25
        /\ UNCHANGED <<batch, uploaded, labels, byh_pc, nb_pc, shell>>
    BY <1>5 DEF LEDDraw, byhVars, nbVars, sysVars
  <2>2. LEDRuns /\ LEDRuns' /\ LastShown' = LastShown
    BY <2>1, PanelCpu DEF LEDRuns, LastShown
  <2>3. /\ led_i \in 0..(2 * PageHalf) /\ panel # <<>>
        /\ DOMAIN panel = IF led_i \in 1..PageHalf THEN PMFields ELSE WeatherFields
    BY <2>1 DEF MInv, PageUp
  <2>p. PageHalf \in Nat \ {0}
    BY PageHalfAssumption
  <2>d. PMFields # WeatherFields
    BY DEF PMFields, WeatherFields
  <2>4. CASE led_i \in {0, 2 * PageHalf}
    <3>1. panel' = [f \in PMFields |-> labels[f]]
      BY <1>5, <2>3, <2>4, DrawTimes DEF LEDDraw
    <3>2. DOMAIN panel = WeatherFields
      BY <2>3, <2>4, <2>p
    <3>3. Promised!Turn = PMFields
      BY <2>3, <3>2
      DEF Promised!Turn, Promised!WeatherFields, Promised!PMFields, WeatherFields, PMFields
    <3>4. panel' = [f \in PMFields |-> IF LastShown = NULL THEN NULL
                                       ELSE [field |-> f, batch |-> LastShown]]
      BY <2>1, <3>1, DrawnPage
    <3>5. Promised!Draw
      BY <2>1, <2>2, <3>3, <3>4 DEF Promised!Draw
    <3> QED
      BY <3>5
  <2>5. CASE led_i = PageHalf
    <3>1. panel' = [f \in WeatherFields |-> labels[f]]
      <4>1. led_i \notin {0, 2 * PageHalf}
        BY <2>p, <2>5
      <4> QED
        BY <1>5, <2>3, <2>5, <4>1, DrawTimes DEF LEDDraw
    <3>2. DOMAIN panel = PMFields
      BY <2>3, <2>5, <2>p
    <3>3. Promised!Turn = WeatherFields
      BY <2>d, <3>2 DEF Promised!Turn, Promised!WeatherFields, WeatherFields
    <3>4. panel' = [f \in WeatherFields |-> IF LastShown = NULL THEN NULL
                                            ELSE [field |-> f, batch |-> LastShown]]
      BY <2>1, <3>1, DrawnPage
    <3>5. Promised!Draw
      BY <2>1, <2>2, <3>3, <3>4 DEF Promised!Draw
    <3> QED
      BY <3>5
  <2>6. CASE led_i \notin {0, PageHalf, 2 * PageHalf}
    <3>1. panel' = panel
      BY <1>5, <2>3, <2>6, DrawTimes DEF LEDDraw
    <3> QED
      BY <2>1, <2>2, <3>1, PanelOnOrOff
  <2> QED
    BY <2>4, <2>5, <2>6
<1>6. CASE Boot \/ Rerun
  <2>1. UNCHANGED <<batch, uploaded, labels, panel>>
    BY <1>l, <1>6, PanelStarts
  <2> QED
    BY <2>1, PanelOnOrOff DEF LastShown
<1>7. CASE ~Boot /\ ~Rerun /\ ~BYHHumiture /\ ~NBUpload /\ ~LEDRecv /\ ~LEDStart /\ ~LEDDraw
  <2>1. UNCHANGED <<batch, uploaded, labels, panel>>
    BY <1>7, Steps
    DEF NBInit, NBRelease, NBTake, NBRecv, BYHTake, BYHNoise, BYHPM, BYHPMDelayed,
        BYHSend, BYHReleaseOne, BYHReleaseTwo, BYHSecond, LEDPoll, Tick, vars,
        nbVars, byhVars, ledVars
  <2> QED
    BY <2>1, PanelOnOrOff DEF LastShown
<1> QED
  BY <1>1, <1>2, <1>3, <1>4, <1>5, <1>6, <1>7

\* The three threads implement the monitor: whatever allocation failed and
\* however often the command was typed, no consumer misses or repeats a batch
\* or is still owed one when the next is measured, the pages take turns, and a
\* page never mixes two batches.
THEOREM ImplementsMonitorAlways == Spec => ImplementsMonitor
<1>1. Init => Promised!Init
  BY MonitorInit
<1>2. Init => OrderInv /\ PanelOrder /\ Untouched /\ PageUp
  BY DEF Init, OrderInv, NextUpload, BYHNotStarted, PanelOrder, LEDRuns, Untouched, PageUp
<1>3. LabelsInv /\ OrderInv /\ PanelOrder /\ Untouched /\ PageUp /\ [Next]_vars
         => OrderInv' /\ PanelOrder' /\ Untouched' /\ PageUp'
  BY OrderStep, PanelOrderStep, UntouchedStep, PageUpStep DEF LabelsInv
<1>4. LabelsInv /\ OrderInv /\ PanelOrder /\ Untouched /\ PageUp /\ [Next]_vars
         => [Promised!Next]_(Promised!monitorVars)
  BY MonitorStep DEF MInv
<1>5. Spec => Promised!Spec
  BY <1>1, <1>2, <1>3, <1>4, PanelInvariance, PTL DEF Spec, Promised!Spec
<1> QED
  BY <1>5 DEF ImplementsMonitor
-----------------------------------------------------------------------------
(* When the assertions and the comments of the source hold.  Runs refute   *)
(* them in general; these theorems say what is enough.                     *)

\* Once the mailboxes are registered, both semaphores exist.
SemsCreated == mb_inited => sem_one # NULL /\ sem_two # NULL

LEMMA SemsNotNull ==
  ASSUME IInv, sem_one # NULL, sem_two # NULL
  PROVE  /\ Release(sem_one) # NULL /\ Release(sem_two) # NULL
         /\ Take(sem_one, "NB") # NULL /\ Take(sem_one, "BYH") # NULL
         /\ sem_two.value > 0 => Take(sem_two, "LED") # NULL
  <1>1. sem_one \in Sem /\ sem_two \in Sem
    BY DEF IInv, TypeOK, SemType
  <1>2. NULL \notin Sem
    BY NullAssumption DEF Sem
  <1> QED
    BY <1>1, <1>2, ReleaseType, TakeType

LEMMA SemsCreatedStep ==
  ASSUME "sem_two" \notin MayFail, MayRerun => "sem_one" \notin MayFail,
         LabelsInv, SemsCreated, SemaphoresExist, [Next]_vars
  PROVE  SemsCreated' /\ SemaphoresExist'
<1>i. IInv
  BY DEF LabelsInv
<1>1. CASE Boot \/ Rerun
  <2>1. shell = "idle" /\ Booted
    BY <1>1, <1>i DEF Boot, Rerun, LabelsInv, MainFirst, IInv, Control
  <2>n. NewSem # NULL
    <3>1. NewSem \in Sem /\ NULL \notin Sem
      BY NullAssumption, SemWrapAssumption DEF NewSem, Sem
    <3> QED
      BY <3>1
  <2>2. PICK failed \in SUBSET MayFail :
           IF "sem_one" \in failed
           THEN UNCHANGED <<mb_inited, nb_pc, byh_pc, led_pc>>
           ELSE /\ sem_one' = NewSem /\ sem_two' = NewSem
                /\ nb_pc' \in {nb_pc, "none", "init"}
                /\ byh_pc' \in {byh_pc, "none", "take"}
                /\ led_pc' \in {led_pc, "none", "start"}
    BY <1>1 DEF Boot, Rerun, RunEnviroment, InitAndStart, nbVars, byhVars, ledVars
  <2>3. CASE "sem_one" \in failed
    <3>1. Boot
      BY <1>1, <2>2, <2>3 DEF Rerun
    <3>2. ~mb_inited
      BY <2>1, <3>1 DEF Boot, Booted
    <3> QED
      BY <2>2, <2>3, <3>2 DEF SemsCreated, SemaphoresExist
  <2>4. CASE "sem_one" \notin failed
    BY <2>2, <2>4, <2>n DEF SemsCreated, SemaphoresExist
  <2> QED
    BY <2>3, <2>4
<1>2. CASE ~Boot /\ ~Rerun
  <2>1. mb_inited' = mb_inited
    BY <1>2, Steps
    DEF NBInit, NBRelease, NBTake, NBRecv, NBUpload, BYHTake, BYHHumiture,
        BYHNoise, BYHPM, BYHPMDelayed, BYHSend, BYHReleaseOne, BYHReleaseTwo,
        BYHSecond, LEDStart, LEDPoll, LEDRecv, LEDDraw, Tick, vars, sysVars
  <2>2. CASE ~mb_inited
    <3>1. shell = "idle" => nb_pc = "none" /\ byh_pc = "none" /\ led_pc = "none"
      BY <1>i, <2>2 DEF IInv, Control, Booted
    <3>2. UNCHANGED <<nb_pc, byh_pc, led_pc>>
      BY <1>2, <3>1, Steps
      DEF NBInit, NBRelease, NBTake, NBRecv, NBUpload, BYHTake, BYHHumiture,
          BYHNoise, BYHPM, BYHPMDelayed, BYHSend, BYHReleaseOne, BYHReleaseTwo,
          BYHSecond, LEDStart, LEDPoll, LEDRecv, LEDDraw, Tick, Cpu24, Cpu25,
          vars, nbVars, byhVars, ledVars
    <3> QED
      BY <2>1, <2>2, <3>2 DEF SemsCreated, SemaphoresExist
  <2>3. CASE mb_inited
    <3>1. sem_one # NULL /\ sem_two # NULL
      BY <2>3 DEF SemsCreated
    <3>2. sem_one' # NULL /\ sem_two' # NULL
      BY <1>2, <1>i, <3>1, SemsNotNull, Steps
      DEF NBInit, NBRelease, NBTake, NBRecv, NBUpload, BYHTake, BYHHumiture,
          BYHNoise, BYHPM, BYHPMDelayed, BYHSend, BYHReleaseOne, BYHReleaseTwo,
          BYHSecond, LEDStart, LEDPoll, LEDRecv, LEDDraw, Tick, vars, semVars
    <3>3. /\ nb_pc' # "asserted" /\ byh_pc' # "asserted" /\ led_pc' # "asserted"
      BY <1>2, <3>1, Steps
      DEF NBInit, NBRelease, NBTake, NBRecv, NBUpload, BYHTake, BYHHumiture,
          BYHNoise, BYHPM, BYHPMDelayed, BYHSend, BYHReleaseOne, BYHReleaseTwo,
          BYHSecond, LEDStart, LEDPoll, LEDRecv, LEDDraw, Tick, vars, nbVars,
          byhVars, ledVars, SemaphoresExist
    <3> QED
      BY <3>2, <3>3 DEF SemsCreated, SemaphoresExist
  <2> QED
    BY <2>2, <2>3
<1> QED
  BY <1>1, <1>2

\* RT_ASSERT(sem != RT_NULL) never fails when the creation of sem_two succeeds
\* and, should the command be typed again, that of sem_one too.  The test of
\* sem_one and not of sem_two after the second rt_sem_create covers neither.
THEOREM SemaphoresExistIfCreated ==
  ASSUME "sem_two" \notin MayFail, MayRerun => "sem_one" \notin MayFail
  PROVE  Spec => []SemaphoresExist
<1>1. Init => SemsCreated /\ SemaphoresExist
  BY DEF Init, SemsCreated, SemaphoresExist
<1>2. LabelsInv /\ SemsCreated /\ SemaphoresExist /\ [Next]_vars
         => SemsCreated' /\ SemaphoresExist'
  BY SemsCreatedStep
<1> QED
  BY <1>1, <1>2, PanelInvariance, PTL DEF Spec

\* NB_IOT exists only beside BYH_M.
SamplerExists == byh_pc = "none" => nb_pc = "none"

\* NB_IOT has a finished acquisition past its rt_sem_take, as its comment says,
\* when the creation of BYH_M succeeds: its own start token then went to BYH_M.
THEOREM TakeWaitsForSampleIfSampled ==
  ASSUME "BYH_M" \notin MayFail
  PROVE  Spec => []TakeWaitsForSample
<1>1. Init => SamplerExists
  BY DEF Init, SamplerExists
<1>2. LabelsInv /\ SamplerExists /\ [Next]_vars => SamplerExists'
  <2> SUFFICES ASSUME LabelsInv, SamplerExists, [Next]_vars PROVE SamplerExists'
    OBVIOUS
  <2>1. CASE Boot \/ Rerun
    BY <2>1 DEF Boot, Rerun, RunEnviroment, InitAndStart, nbVars, byhVars, SamplerExists
  <2>2. CASE ~Boot /\ ~Rerun
    <3>1. nb_pc = "none" => nb_pc' = "none" \/ BYHReleaseOne
      BY <2>2, Steps
      DEF NBInit, NBRelease, NBTake, NBRecv, NBUpload, BYHTake, BYHHumiture,
          BYHNoise, BYHPM, BYHPMDelayed, BYHSend, BYHReleaseTwo,
          BYHSecond, LEDStart, LEDPoll, LEDRecv, LEDDraw, Tick, vars, nbVars
    <3>2. byh_pc' = "none" => byh_pc = "none"
      BY <2>2, Steps
      DEF NBInit, NBRelease, NBTake, NBRecv, NBUpload, BYHTake, BYHHumiture,
          BYHNoise, BYHPM, BYHPMDelayed, BYHSend, BYHReleaseOne, BYHReleaseTwo,
          BYHSecond, LEDStart, LEDPoll, LEDRecv, LEDDraw, Tick, vars, byhVars
    <3> QED
      BY <3>1, <3>2 DEF SamplerExists, BYHReleaseOne
  <2> QED
    BY <2>1, <2>2
<1>3. SamplerExists /\ TokenMeansBatch => TakeWaitsForSample
  BY DEF SamplerExists, TokenMeansBatch, TakeWaitsForSample
<1> QED
  BY <1>1, <1>2, <1>3, PanelInvariance, TokenMeansBatchAlways, PTL DEF Spec
=============================================================================
