------------------------------- MODULE Monitor -------------------------------
(***************************************************************************)
(* What the environment monitor promises, without threads, semaphores,     *)
(* mailboxes or seconds: batches are measured one after the other; each    *)
(* one reaches the cloud, and the panel if it is on, once and before the   *)
(* next is measured; a page of the panel shows values of one batch, and    *)
(* the weather page and the PM page take turns.                            *)
(***************************************************************************)
EXTENDS Naturals

CONSTANTS
    NULL,      \* no batch yet, and the value drawn for it
    Batches    \* batch numbers are counted modulo Batches

VARIABLES
    batch,     \* the batch measured last; 0 before the first
    cloud,     \* the batch uploaded last
    shown,     \* the batch the panel was given last
    page,      \* the page drawn last
    display    \* whether the panel is being served

monitorVars == <<batch, cloud, shown, page, display>>

WeatherFields == 1..3
PMFields      == 4..5

Following(b) == IF b = Batches - 1 THEN 0 ELSE b + 1

\* A consumer that was given batch b last has the present batch, or has still
\* to be given it.
UpToDate(b) == batch = IF b = NULL THEN 0 ELSE b
Awaits(b)   == batch = Following(IF b = NULL THEN 0 ELSE b)

Init ==
    /\ batch = 0 /\ cloud = NULL /\ shown = NULL
    /\ page = <<>> /\ display = FALSE

Start ==
    /\ ~display /\ batch = 0 /\ cloud = NULL /\ shown = NULL /\ page = <<>>
    /\ display' = TRUE
    /\ UNCHANGED <<batch, cloud, shown, page>>

\* A thread spins in a failed assertion, and the panel stays as it is.
Stop ==
    /\ display
    /\ display' = FALSE
    /\ UNCHANGED <<batch, cloud, shown, page>>

\* Nobody is owed a batch when the next one is measured.
Measure ==
    /\ UpToDate(cloud)
    /\ display => UpToDate(shown)
    /\ batch' = Following(batch)
    /\ UNCHANGED <<cloud, shown, page, display>>

Upload ==
    /\ Awaits(cloud)
    /\ cloud' = batch
    /\ UNCHANGED <<batch, shown, page, display>>

Show ==
    /\ display /\ Awaits(shown)
    /\ shown' = batch
    /\ UNCHANGED <<batch, cloud, page, display>>

\* The pages take turns, the weather page first.
Turn == IF page # <<>> /\ DOMAIN page = WeatherFields THEN PMFields ELSE WeatherFields

Draw ==
    /\ display
    /\ page' = [f \in Turn |-> IF shown = NULL THEN NULL
                               ELSE [field |-> f, batch |-> shown]]
    /\ UNCHANGED <<batch, cloud, shown, display>>

Next == Start \/ Stop \/ Measure \/ Upload \/ Show \/ Draw

Spec == Init /\ [][Next]_monitorVars
=============================================================================
