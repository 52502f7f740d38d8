----------------------------- MODULE NB_IOTProofs -----------------------------
(***************************************************************************)
(* Proofs about NB_IOT: its types, that an old batch is sent again only    *)
(* after two failures, and that a clean round uploads its own batch and    *)
(* leaves no instance open, for any number of instances, tries and levels. *)
(***************************************************************************)
EXTENDS NB_IOT, TLAPS

Commands == {"content", "header", "send"}

\* What a round has of the modem before it sends: the instance it created or
\* filled holds no old batch.
RoundInv ==
    /\ pc = "create" => ~created /\ ~filled
    /\ pc = "content" => ~filled
    /\ pc \in Commands \cup {"create"} => posted = Nothing
    /\ pc \in Commands /\ example \in Instances /\ (created \/ filled) =>
            inst[example].content # "old"
    /\ OldOnlyAfterTwoFailures

\* Where the open instances come from, as long as nothing has failed.
LeakInv ==
    /\ pc \in Initialising => Open = {}
    /\ pc \notin {"wait", "stopped"} => pending = {}
    /\ pending \subseteq {example}
    /\ ~faulted => /\ Open \subseteq before \cup {example}
                   /\ pc = "create" => Open \subseteq before
                   /\ pc = "wait" /\ pending = {} => example \notin Open

IInv == TypeOK /\ RoundInv /\ LeakInv

\* Closing or filling an instance keeps the type of the modem's table.
LEMMA InstanceType ==
    ASSUME TypeOK, NEW i \in Instances
    PROVE  /\ inst \in [Instances -> Instance]
           /\ [inst EXCEPT ![i] = Closed] \in [Instances -> Instance]
           /\ [inst EXCEPT ![i] = Fresh] \in [Instances -> Instance]
           /\ [inst EXCEPT ![i].content = "this"] \in [Instances -> Instance]
           /\ [inst EXCEPT ![i].header = TRUE] \in [Instances -> Instance]
<1>1. Closed \in Instance /\ Fresh \in Instance
  BY DEF Closed, Fresh, Instance, Contents
<1>2. inst \in [Instances -> Instance]
  BY DEF TypeOK
<1>3. inst[i] \in Instance
  BY <1>2
<1>4. [inst[i] EXCEPT !.content = "this"] \in Instance
  BY <1>3 DEF Instance, Contents
<1>5. [inst[i] EXCEPT !.header = TRUE] \in Instance
  BY <1>3 DEF Instance
<1> QED
  BY <1>1, <1>2, <1>4, <1>5

\* The initial state satisfies the invariant.
LEMMA InitInvariant == Init => IInv
<1> SUFFICES ASSUME Init PROVE IInv
  OBVIOUS
<1> USE DEF Init
<1>1. TypeOK
  <2>1. inst \in [Instances -> Instance]
    BY DEF Closed, Instance, Contents
  <2>2. tries \in 0..(Tries - 1)
    BY TriesAssumption
  <2>3. posted \in Post
    BY DEF Nothing, Post, Contents
  <2>4. pc \in Initialising /\ flag \in {0, 1} /\ signal \in 0..31 \cup {99}
    BY DEF Initialising
  <2>5. registered \in BOOLEAN /\ calm \in BOOLEAN /\ created \in BOOLEAN
        /\ filled \in BOOLEAN /\ faulted \in BOOLEAN
    OBVIOUS
  <2> QED
    BY <2>1, <2>2, <2>3, <2>4, <2>5, Zenon DEF TypeOK
<1>2. RoundInv
  BY DEF RoundInv, OldOnlyAfterTwoFailures, Nothing, Commands
<1>3. LeakInv
  BY DEF LeakInv, Open, Closed, Initialising
<1> QED
  BY <1>1, <1>2, <1>3 DEF IInv

\* NB_IOT_Init keeps the invariant: it opens no instance.
LEMMA InitialisingStep ==
    ASSUME IInv, Boot \/ Connect \/ GetCIMI \/ GetSignal \/ ConsultNet
    PROVE  IInv'
<1> USE DEF IInv, device, modem, round
<1>1. tries' \in 0..(Tries - 1) /\ flag' \in {0, 1}
  BY TriesAssumption DEF TypeOK, Boot, Connect, GetCIMI, GetSignal, ConsultNet,
                         TryOnce, TriesOver
<1>2. signal' \in 0..31 \cup {99}
  BY LevelAssumption DEF TypeOK, Boot, Connect, GetCIMI, GetSignal, ConsultNet
<1>3. pc \in Initialising /\ pc' \in Initialising \cup {"wait"}
  BY DEF Boot, Connect, GetCIMI, GetSignal, ConsultNet, TryOnce, Initialising
<1>4. UNCHANGED <<example, modem, round>>
  BY DEF Boot, Connect, GetCIMI, GetSignal, ConsultNet
<1>5. TypeOK'
  BY <1>1, <1>2, <1>3, <1>4 DEF TypeOK
<1>6. RoundInv'
  BY <1>3, <1>4 DEF RoundInv, OldOnlyAfterTwoFailures, Initialising, Commands
<1>7. LeakInv'
  BY <1>3, <1>4 DEF LeakInv, Open, Initialising
<1> QED
  BY <1>5, <1>6, <1>7

\* A new round keeps it: what the modem holds is of an earlier round.
LEMMA TakeStep ==
    ASSUME IInv, Take
    PROVE  IInv'
<1> USE DEF IInv, device
<1>1. \A i \in Instances : inst'[i] \in Instance /\ inst'[i].open = inst[i].open
  <2> TAKE i \in Instances
  <2>1. inst[i] \in Instance
    BY DEF TypeOK
  <2>2. CASE inst[i].content = "this"
    <3>1. inst'[i] = [inst[i] EXCEPT !.content = "old"]
      BY <2>2 DEF Take
    <3> QED
      BY <2>1, <3>1 DEF Instance, Contents
  <2>3. CASE inst[i].content # "this"
    <3>1. inst'[i] = inst[i]
      BY <2>3 DEF Take
    <3> QED
      BY <2>1, <3>1
  <2> QED
    BY <2>2, <2>3
<1>2. inst' \in [Instances -> Instance]
  <2>1. inst' = [i \in Instances |-> inst'[i]]
    BY DEF Take
  <2> QED
    BY <1>1, <2>1
<1>3. Open' = Open
  BY <1>1 DEF Open
<1>4. TypeOK'
  <2>1. posted' \in Post
    BY DEF Take, Nothing, Post, Contents
  <2>2. Open \subseteq Instances
    BY DEF Open
  <2> QED
    BY <1>2, <2>1, <2>2 DEF TypeOK, Take
<1>5. RoundInv'
  BY DEF RoundInv, OldOnlyAfterTwoFailures, Take, Nothing, Commands
<1>6. LeakInv'
  BY <1>3 DEF LeakInv, Take, Initialising
<1> QED
  BY <1>4, <1>5, <1>6

\* CREATE opens at most one instance, which holds nothing yet.
LEMMA CreateStep ==
    ASSUME IInv, HTTPCreate
    PROVE  IInv'
<1> USE DEF IInv, device
<1>1. pc = "create" /\ pc' = "content"
      /\ UNCHANGED <<tries, flag, signal, registered, pending, calm, before, filled, posted>>
  BY DEF HTTPCreate
<1>2. \/ inst' = inst
      \/ \E i \in Instances \ Open : inst' = [inst EXCEPT ![i] = Fresh]
  BY DEF HTTPCreate, CreateAnswered, CreateFails, Opened
<1>3. example' \in Instances \cup {NoInstance}
  BY DEF HTTPCreate, CreateAnswered, CreateFails, ExampleKept, ExampleRead, TypeOK
<1>b. created' \in BOOLEAN /\ faulted' \in BOOLEAN
  <2>1. created' = TRUE \/ created' = created
    BY DEF HTTPCreate, CreateAnswered, CreateFails
  <2>2. faulted' = TRUE \/ faulted' = faulted
    BY DEF HTTPCreate, CreateAnswered, CreateFails
  <2> QED
    BY <2>1, <2>2 DEF TypeOK
<1>4. inst' \in [Instances -> Instance]
  <2>1. TypeOK /\ inst \in [Instances -> Instance]
    BY DEF TypeOK
  <2> QED
    BY <1>2, <2>1, InstanceType
<1>5. TypeOK'
  BY <1>1, <1>3, <1>b, <1>4 DEF TypeOK
<1>6. created' => example' \in Instances /\ inst'[example'] = Fresh
  <2> SUFFICES ASSUME created' PROVE example' \in Instances /\ inst'[example'] = Fresh
    OBVIOUS
  <2>1. ~created
    BY <1>1 DEF RoundInv
  <2>2. PICK i \in Instances \ Open :
          inst' = [inst EXCEPT ![i] = Fresh] /\ example' = i
    BY <2>1 DEF HTTPCreate, CreateAnswered, CreateFails, Opened, ExampleRead
  <2> QED
    BY <2>2 DEF TypeOK
<1>7. RoundInv'
  BY <1>1, <1>6 DEF RoundInv, OldOnlyAfterTwoFailures, Commands, Fresh, Nothing
<1>8. ~faulted' => ~faulted /\ Open' \subseteq before \cup {example'}
  <2> SUFFICES ASSUME ~faulted' PROVE ~faulted /\ Open' \subseteq before \cup {example'}
    OBVIOUS
  <2>1. CreateAnswered
    BY DEF HTTPCreate, CreateFails
  <2>2. ~faulted /\ Open \subseteq before
    BY <1>1, <2>1 DEF CreateAnswered, LeakInv
  <2>3. Open' \subseteq Open \cup {example'}
    <3>1. CASE inst' = inst
      BY <3>1 DEF Open
    <3>2. CASE \E i \in Instances \ Open : Opened(i) /\ example' = ExampleRead(i)
      <4>1. PICK i \in Instances \ Open :
              inst' = [inst EXCEPT ![i] = Fresh] /\ example' = i
        BY <3>2 DEF Opened, ExampleRead
      <4>2. \A j \in Instances : j # i => inst'[j] = inst[j]
        BY <4>1 DEF TypeOK
      <4> QED
        BY <4>1, <4>2 DEF Open
    <3> QED
      BY <2>1, <3>1, <3>2 DEF CreateAnswered
  <2> QED
    BY <2>2, <2>3
<1>9. LeakInv'
  BY <1>1, <1>8 DEF LeakInv, Initialising
<1> QED
  BY <1>5, <1>7, <1>9

\* CONTENT and HEADER write to an open instance, or nowhere.
LEMMA ContentStep ==
    ASSUME IInv, HTTPContent
    PROVE  IInv'
<1> USE DEF IInv, device
<1>1. pc = "content" /\ pc' = "header"
      /\ UNCHANGED <<tries, flag, signal, example, registered, pending, calm,
                     before, created, posted>>
  BY DEF HTTPContent
<1>2. \/ inst' = inst /\ filled' = filled
      \/ /\ example \in Instances
         /\ inst' = [inst EXCEPT ![example].content = "this"]
  BY DEF HTTPContent, Reaches, Open
<1>3. filled' \in BOOLEAN /\ faulted' \in BOOLEAN /\ (~faulted' => ~faulted)
  BY DEF HTTPContent, TypeOK
<1>t. inst' \in [Instances -> Instance]
  <2>1. TypeOK /\ inst \in [Instances -> Instance]
    BY DEF TypeOK
  <2> QED
    BY <1>2, <2>1, InstanceType
<1>4. TypeOK'
  BY <1>1, <1>3, <1>t DEF TypeOK
<1>5. \A i \in Instances : inst[i] \in Instance
  BY DEF TypeOK
<1>6. Open' = Open
  BY <1>2, <1>5 DEF Open, TypeOK, Instance
<1>7. RoundInv'
  <2>1. CASE inst' = inst /\ filled' = filled
    BY <1>1, <2>1 DEF RoundInv, OldOnlyAfterTwoFailures, Commands
  <2>2. CASE /\ example \in Instances
             /\ inst' = [inst EXCEPT ![example].content = "this"]
    <3>1. inst'[example'].content = "this"
      BY <1>1, <1>5, <2>2 DEF TypeOK, Instance
    <3> QED
      BY <1>1, <3>1 DEF RoundInv, OldOnlyAfterTwoFailures, Commands, Nothing
  <2> QED
    BY <1>2, <2>1, <2>2
<1>8. LeakInv'
  BY <1>1, <1>3, <1>6 DEF LeakInv, Initialising
<1> QED
  BY <1>4, <1>7, <1>8

LEMMA HeaderStep ==
    ASSUME IInv, HTTPHeader
    PROVE  IInv'
<1> USE DEF IInv, device
<1>1. pc = "header" /\ pc' = "send"
      /\ UNCHANGED <<tries, flag, signal, example, registered, pending, calm,
                     before, created, filled, posted>>
  BY DEF HTTPHeader
<1>2. \/ inst' = inst
      \/ /\ example \in Instances
         /\ inst' = [inst EXCEPT ![example].header = TRUE]
  BY DEF HTTPHeader, Reaches, Open
<1>3. faulted' \in BOOLEAN /\ (~faulted' => ~faulted)
  BY DEF HTTPHeader, TypeOK
<1>t. inst' \in [Instances -> Instance]
  <2>1. TypeOK /\ inst \in [Instances -> Instance]
    BY DEF TypeOK
  <2> QED
    BY <1>2, <2>1, InstanceType
<1>4. TypeOK'
  BY <1>1, <1>3, <1>t DEF TypeOK
<1>5. \A i \in Instances : inst[i] \in Instance
  BY DEF TypeOK
<1>6. \A i \in Instances :
        inst'[i].open = inst[i].open /\ inst'[i].content = inst[i].content
  BY <1>2, <1>5 DEF TypeOK, Instance
<1>7. Open' = Open
  BY <1>6 DEF Open
<1>8. RoundInv'
  BY <1>1, <1>6 DEF RoundInv, OldOnlyAfterTwoFailures, Commands, Nothing
<1>9. LeakInv'
  BY <1>1, <1>3, <1>7 DEF LeakInv, Initialising
<1> QED
  BY <1>4, <1>8, <1>9

\* SEND sends what its instance holds; a clean one is answered for.
LEMMA SendStep ==
    ASSUME IInv, HTTPSend
    PROVE  IInv'
<1> USE DEF IInv, device
<1>1. pc = "send" /\ pc' = "wait"
      /\ UNCHANGED <<tries, flag, signal, example, registered, inst, calm,
                     before, created, filled>>
  BY DEF HTTPSend
<1>2. CASE Reaches /\ faulted' = faulted /\ pending' = pending \cup {example}
           /\ posted' = [content |-> inst[example].content, header |-> inst[example].header]
  <2>1. example \in Instances /\ inst[example] \in Instance
    BY <1>2 DEF Reaches, Open, TypeOK
  <2>2. posted' \in Post /\ posted'.content = inst[example].content
    BY <1>2, <2>1 DEF Post, Instance
  <2>3. TypeOK'
    BY <1>1, <1>2, <2>1, <2>2 DEF TypeOK
  <2>4. RoundInv'
    BY <1>1, <2>1, <2>2 DEF RoundInv, OldOnlyAfterTwoFailures, Commands
  <2>5. LeakInv'
    BY <1>1, <1>2 DEF LeakInv, Initialising, Open
  <2> QED
    BY <2>3, <2>4, <2>5
<1>3. CASE UNCHANGED <<posted, pending>> /\ faulted' \in BOOLEAN
           /\ (~faulted' => ~faulted /\ ~Reaches)
  <2>1. TypeOK'
    BY <1>1, <1>3 DEF TypeOK
  <2>2. RoundInv'
    BY <1>1, <1>3 DEF RoundInv, OldOnlyAfterTwoFailures, Commands, Nothing
  <2>3. LeakInv'
    BY <1>1, <1>3 DEF LeakInv, Initialising, Open, Reaches
  <2> QED
    BY <2>1, <2>2, <2>3
<1> QED
  BY <1>2, <1>3 DEF HTTPSend, TypeOK

\* A part of the answer closes at most the instance of this round; when the
\* parser stops over it, the round counts as failed.
LEMMA AnswerStep ==
    ASSUME IInv, NEW i \in Instances, NEW more \in {0, 1}, HTTPNMIC(i, more)
    PROVE  IInv'
<1> USE DEF IInv, device
<1>1. i \in pending /\ i = example /\ pc = "wait"
  BY DEF HTTPNMIC, LeakInv
<1>2. UNCHANGED <<tries, flag, signal, example, registered, calm, before, created,
                  filled, posted>>
  BY DEF HTTPNMIC
<1>p. \/ pc' = "wait" /\ faulted' = faulted
      \/ pc' = "wait" /\ faulted' = TRUE
      \/ pc' = "stopped" /\ faulted' = TRUE
  BY <1>1, Zenon DEF HTTPNMIC
<1>3. inst' = inst \/ inst' = [inst EXCEPT ![i] = Closed]
  BY DEF HTTPNMIC, Closing
<1>4. faulted' \in BOOLEAN /\ (~faulted' => ~faulted) /\ pending' \subseteq pending
  <2>1. pending' \subseteq pending
    BY DEF HTTPNMIC
  <2> QED
    BY <1>p, <2>1 DEF TypeOK
<1>t. inst' \in [Instances -> Instance]
  <2>1. TypeOK /\ inst \in [Instances -> Instance]
    BY DEF TypeOK
  <2> QED
    BY <1>3, <2>1, InstanceType
<1>5. TypeOK'
  BY <1>2, <1>p, <1>4, <1>t DEF TypeOK
<1>6. Open' \subseteq Open
  BY <1>3 DEF Open, Closed, TypeOK
<1>7. RoundInv'
  BY <1>1, <1>2, <1>p DEF RoundInv, OldOnlyAfterTwoFailures, Commands
<1>8. ~faulted' /\ pending' = {} => example \notin Open'
  <2> SUFFICES ASSUME ~faulted', pending' = {} PROVE example \notin Open'
    OBVIOUS
  <2>1. more = 0
    BY <1>1 DEF HTTPNMIC
  <2>2. inst' = [inst EXCEPT ![i] = Closed]
    BY <2>1 DEF HTTPNMIC, CloseRequested, Closing
  <2> QED
    BY <1>1, <2>2 DEF Open, Closed, TypeOK
<1>9. LeakInv'
  BY <1>1, <1>2, <1>p, <1>4, <1>6, <1>8 DEF LeakInv, Initialising
<1> QED
  BY <1>5, <1>7, <1>9

\* The modem on its own: a restart empties it and counts as a failure.
LEMMA ModemStep ==
    ASSUME IInv, Modem
    PROVE  IInv'
<1> USE DEF IInv, device, round
<1>1. CASE Restarts
  <2>1. inst' \in [Instances -> Instance] /\ Open' = {}
    BY <1>1 DEF Restarts, Closed, Instance, Contents, Open
  <2>2. \A i \in Instances : inst'[i].content = "none"
    BY <1>1 DEF Restarts, Closed
  <2>3. TypeOK'
    BY <1>1, <2>1 DEF TypeOK, Restarts
  <2>4. RoundInv'
    BY <1>1, <2>2 DEF RoundInv, OldOnlyAfterTwoFailures, Commands, Restarts
  <2>5. LeakInv'
    BY <1>1, <2>1 DEF LeakInv, Restarts
  <2> QED
    BY <2>3, <2>4, <2>5
<1>2. CASE Registers \/ BecomesCalm
  <2>1. UNCHANGED <<pc, device, example, inst, pending, round>>
        /\ registered' \in BOOLEAN /\ calm' \in BOOLEAN
    BY <1>2 DEF Registers, BecomesCalm, TypeOK
  <2>2. TypeOK'
    BY <2>1 DEF TypeOK
  <2>3. RoundInv' /\ LeakInv'
    BY <2>1 DEF RoundInv, LeakInv, OldOnlyAfterTwoFailures, Commands, Open
  <2> QED
    BY <2>2, <2>3
<1> QED
  BY <1>1, <1>2 DEF Modem

\* Every step keeps the invariant.
LEMMA NextInvariant == IInv /\ [Next]_vars => IInv'
<1> SUFFICES ASSUME IInv, [Next]_vars PROVE IInv'
  OBVIOUS
<1>1. CASE Thread
  BY <1>1, InitialisingStep, TakeStep, CreateStep, ContentStep, HeaderStep, SendStep
  DEF Thread
<1>2. CASE \E i \in Instances, more \in {0, 1} : HTTPNMIC(i, more)
  BY <1>2, AnswerStep
<1>3. CASE Modem
  BY <1>3, ModemStep
<1>4. CASE Asserted \/ UNCHANGED vars
  BY <1>4 DEF Asserted, IInv, TypeOK, RoundInv, LeakInv, OldOnlyAfterTwoFailures, Open,
              Commands, vars, device, modem, round
<1> QED
  BY <1>1, <1>2, <1>3, <1>4 DEF Next

\* The invariant holds in every state.
THEOREM Invariance == Spec => []IInv
<1>1. Init => IInv
  BY InitInvariant
<1>2. IInv /\ [Next]_vars => IInv'
  BY NextInvariant
<1> QED
  BY <1>1, <1>2, PTL DEF Spec

\* Type correctness of NB_IOT.
THEOREM TypeCorrect == Spec => []TypeOK
<1>1. IInv => TypeOK
  BY DEF IInv
<1> QED
  BY <1>1, Invariance, PTL

\* NB_IOT_HTTPSEND sends an old batch again only after two failed commands.
THEOREM OldBatchNeedsTwoFailures == Spec => []OldOnlyAfterTwoFailures
<1>1. IInv => OldOnlyAfterTwoFailures
  BY DEF IInv, RoundInv
<1> QED
  BY <1>1, Invariance, PTL

\* A round without a failure leaves no HTTP instance open.
THEOREM NoLeakWithoutFailure == Spec => []CleanRoundCloses
<1>1. IInv => CleanRoundCloses
  BY DEF IInv, LeakInv, CleanRoundCloses
<1> QED
  BY <1>1, Invariance, PTL
-----------------------------------------------------------------------------
(* What a clean round uploads.                                             *)

\* As long as nothing has failed, HTTP_EXAMPLE is the number of an open
\* instance, and each command has left its part there.
UploadInv ==
    /\ pc \in Initialising => example = NoInstance
    /\ ~faulted /\ example # NoInstance =>
          /\ pc \in Commands => example \in Open
          /\ pc \in {"header", "send"} => inst[example].content = "this"
          /\ pc = "send" => inst[example].header = TRUE
          /\ pc = "wait" => posted = [content |-> "this", header |-> TRUE]

\* CREATE, answered, leaves the number of an open instance: the new one, or
\* the old number when all are open.
LEMMA CreateUpload ==
    ASSUME IInv, HTTPCreate
    PROVE  UploadInv'
<1>1. pc' = "content"
  BY DEF HTTPCreate
<1>2. ~faulted' /\ example' # NoInstance => example' \in Open'
  <2> SUFFICES ASSUME ~faulted', example' # NoInstance PROVE example' \in Open'
    OBVIOUS
  <2>1. CreateAnswered
    BY DEF HTTPCreate, CreateFails
  <2>2. CASE \E i \in Instances \ Open : Opened(i) /\ example' = ExampleRead(i)
    BY <2>2 DEF Opened, ExampleRead, Fresh, Open, IInv, TypeOK
  <2>3. CASE Open = Instances /\ example' = ExampleKept /\ inst' = inst
    BY <2>3 DEF ExampleKept, Open, IInv, TypeOK
  <2> QED
    BY <2>1, <2>2, <2>3 DEF CreateAnswered
<1> QED
  BY <1>1, <1>2 DEF UploadInv, Initialising

LEMMA UploadStep == IInv /\ UploadInv /\ [Next]_vars => UploadInv'
<1> SUFFICES ASSUME IInv, UploadInv, [Next]_vars PROVE UploadInv'
  OBVIOUS
<1>t. \A i \in Instances : inst[i] \in Instance
  BY DEF IInv, TypeOK
<1>o. Open \subseteq Instances
  BY DEF Open
<1>1. CASE Boot \/ Connect \/ GetCIMI \/ GetSignal \/ ConsultNet
  <2>1. /\ pc \in Initialising /\ pc' \in Initialising \cup {"wait"}
        /\ example' = example
    BY <1>1 DEF Boot, Connect, GetCIMI, GetSignal, ConsultNet, TryOnce, Initialising
  <2>2. example' = NoInstance
    BY <2>1 DEF UploadInv
  <2> QED
    BY <2>1, <2>2 DEF UploadInv
<1>2. CASE Take
  BY <1>2 DEF Take, UploadInv, Initialising, Commands
<1>3. CASE HTTPCreate
  BY <1>3, CreateUpload
<1>4. CASE HTTPContent
  <2>1. pc = "content" /\ pc' = "header" /\ example' = example
    BY <1>4 DEF HTTPContent
  <2>2. ~faulted' /\ example # NoInstance =>
           example \in Open' /\ inst'[example].content = "this"
    <3> SUFFICES ASSUME ~faulted', example # NoInstance
                 PROVE  example \in Open' /\ inst'[example].content = "this"
      OBVIOUS
    <3>1. ~faulted
      BY <1>4 DEF HTTPContent
    <3>2. example \in Open
      BY <2>1, <3>1 DEF UploadInv, Commands
    <3>3. inst' = [inst EXCEPT ![example].content = "this"]
      BY <1>4, <3>2 DEF HTTPContent, Reaches
    <3>4. inst'[example] = [inst[example] EXCEPT !.content = "this"]
      BY <1>o, <3>2, <3>3 DEF IInv, TypeOK
    <3>5. inst'[example].open = inst[example].open /\ inst'[example].content = "this"
      BY <1>t, <1>o, <3>2, <3>4 DEF Instance
    <3> QED
      BY <1>o, <3>2, <3>5 DEF Open
  <2> QED
    BY <2>1, <2>2 DEF UploadInv, Initialising
<1>5. CASE HTTPHeader
  <2>1. pc = "header" /\ pc' = "send" /\ example' = example
    BY <1>5 DEF HTTPHeader
  <2>2. ~faulted' /\ example # NoInstance =>
           /\ example \in Open' /\ inst'[example].content = "this"
           /\ inst'[example].header = TRUE
    <3> SUFFICES ASSUME ~faulted', example # NoInstance
                 PROVE  /\ example \in Open' /\ inst'[example].content = "this"
                        /\ inst'[example].header = TRUE
      OBVIOUS
    <3>1. ~faulted
      BY <1>5 DEF HTTPHeader
    <3>2. example \in Open /\ inst[example].content = "this"
      BY <2>1, <3>1 DEF UploadInv, Commands
    <3>3. inst' = [inst EXCEPT ![example].header = TRUE]
      BY <1>5, <3>2 DEF HTTPHeader, Reaches
    <3>4. inst'[example] = [inst[example] EXCEPT !.header = TRUE]
      BY <1>o, <3>2, <3>3 DEF IInv, TypeOK
    <3>5. /\ inst'[example].open = inst[example].open
          /\ inst'[example].content = "this" /\ inst'[example].header = TRUE
      BY <1>t, <1>o, <3>2, <3>4 DEF Instance
    <3> QED
      BY <1>o, <3>2, <3>5 DEF Open
  <2> QED
    BY <2>1, <2>2 DEF UploadInv, Initialising
<1>6. CASE HTTPSend
  <2>1. pc = "send" /\ pc' = "wait" /\ example' = example
    BY <1>6 DEF HTTPSend
  <2>2. ~faulted' /\ example # NoInstance =>
           posted' = [content |-> "this", header |-> TRUE]
    <3> SUFFICES ASSUME ~faulted', example # NoInstance
                 PROVE  posted' = [content |-> "this", header |-> TRUE]
      OBVIOUS
    <3>1. ~faulted
      BY <1>6 DEF HTTPSend
    <3>2. /\ Reaches /\ inst[example].content = "this" /\ inst[example].header = TRUE
      BY <2>1, <3>1 DEF UploadInv, Commands, Reaches
    <3> QED
      BY <1>6, <3>2 DEF HTTPSend
  <2> QED
    BY <2>1, <2>2 DEF UploadInv, Initialising, Commands
<1>7. CASE \E i \in Instances, more \in {0, 1} : HTTPNMIC(i, more)
  <2>1. PICK i \in Instances, more \in {0, 1} : HTTPNMIC(i, more)
    BY <1>7
  <2>2. pc = "wait" /\ UNCHANGED <<example, posted>>
    BY <2>1 DEF HTTPNMIC, IInv, LeakInv
  <2>3. \/ pc' = "wait" /\ faulted' = faulted
        \/ pc' = "wait" /\ faulted' = TRUE
        \/ pc' = "stopped" /\ faulted' = TRUE
    BY <2>1, <2>2, Zenon DEF HTTPNMIC
  <2> QED
    BY <2>2, <2>3 DEF UploadInv, Initialising, Commands
<1>8. CASE Restarts
  BY <1>8 DEF Restarts, UploadInv
<1>9. CASE Registers \/ BecomesCalm \/ Asserted \/ UNCHANGED vars
  <2>1. UNCHANGED <<pc, example, inst, faulted, posted>>
    BY <1>9 DEF Registers, BecomesCalm, Asserted, vars, modem, round
  <2> QED
    BY <2>1 DEF UploadInv, Open
<1> QED
  BY <1>1, <1>2, <1>3, <1>4, <1>5, <1>6, <1>7, <1>8, <1>9 DEF Next, Thread, Modem

\* A round in which nothing failed uploads its own batch with its header, for
\* any number of instances and however many of them earlier failures left open.
THEOREM CleanRoundUploadsAlways == Spec => []CleanRoundUploads
<1>1. Init => UploadInv
  BY DEF Init, UploadInv
<1>2. IInv /\ UploadInv /\ [Next]_vars => UploadInv'
  BY UploadStep
<1>3. UploadInv => CleanRoundUploads
  BY DEF UploadInv, CleanRoundUploads
<1> QED
  BY <1>1, <1>2, <1>3, Invariance, PTL DEF Spec
=============================================================================
