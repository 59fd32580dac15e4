-------------------------------- MODULE Daemon --------------------------------
(***************************************************************************)
(* serve of cmd/pullpilot/main.go: the schedule, the webhook and the start *)
(* each trigger cycles, a mutex lets one run at a time, and after a signal *)
(* serve waits for the mutex, for thirty seconds at most.  A cycle is Run  *)
(* of internal/engine/engine.go as far as ctx is concerned: looking and    *)
(* pulling end with it, a recreate does not.                               *)
(***************************************************************************)
EXTENDS Integers

CONSTANTS
    Triggers,       \* "startup", "schedule" and "webhook"
    None,           \* no cycle
    ShutdownWait,   \* the 30 s serve waits for a cycle
    MaxUpdates,     \* bound: updates due in one cycle
    MaxWaiting      \* bound: cycles of one trigger waiting, or in their jitter

VARIABLES
    life,       \* "down", "boot" (serve up to its scheduler) or "up"
    cancelled,  \* ctx is done: SIGTERM or SIGINT has come
    jitter,     \* scheduled cycles sleeping their jitter
    waiting,    \* [Triggers -> cycles waiting for the mutex]
    cycle,      \* the trigger of the cycle that holds the mutex, or None
    phase,      \* where that cycle is
    left,       \* the updates it has still to make
    patience,   \* how much longer serve waits for the mutex, or NoWait
    \* history
    late,       \* recreates begun since the signal
    cold        \* whether the cycle began after the signal

vars == <<life, cancelled, jitter, waiting, cycle, phase, left, patience, late, cold>>

NoWait == -1
Nobody == [t \in Triggers |-> 0]

TypeOK ==
    /\ life \in {"down", "boot", "up"}
    /\ cancelled \in BOOLEAN
    /\ jitter \in 0..MaxWaiting
    /\ waiting \in [Triggers -> 0..MaxWaiting]
    /\ cycle \in Triggers \cup {None}
    /\ phase \in {"none", "look", "act", "pulled", "recreate"}
    /\ left \in 0..MaxUpdates
    /\ patience \in 0..ShutdownWait \cup {NoWait}
    /\ late \in 0..2 /\ cold \in BOOLEAN

-----------------------------------------------------------------------------
(* serve.                                                                  *)

\* The process starts (restart: unless-stopped).
Start ==
    /\ life = "down" /\ life' = "boot"
    /\ UNCHANGED <<cancelled, jitter, waiting, cycle, phase, left, patience, late, cold>>

Queue(t) == waiting[t] < MaxWaiting /\ waiting' = [waiting EXCEPT ![t] = @ + 1]

\* The scheduler starts, and a first cycle with it.
Ready ==
    /\ life = "boot" /\ life' = "up"
    /\ Queue("startup")
    /\ UNCHANGED <<cancelled, jitter, cycle, phase, left, patience, late, cold>>

\* The schedule's next moment comes; every firing has a goroutine of its own.
CronFires ==
    /\ life = "up" /\ jitter < MaxWaiting /\ jitter' = jitter + 1
    /\ UNCHANGED <<life, cancelled, waiting, cycle, phase, left, patience, late, cold>>

\* A scheduled cycle has slept its jitter, or is dropped because ctx is done.
JitterEnds ==
    /\ jitter > 0 /\ jitter' = jitter - 1
    /\ \/ Queue("schedule")
       \/ cancelled /\ UNCHANGED waiting
    /\ UNCHANGED <<life, cancelled, cycle, phase, left, patience, late, cold>>

\* The client's timer triggers a cycle.
WebhookTriggers ==
    /\ Queue("webhook")
    /\ UNCHANGED <<life, cancelled, jitter, cycle, phase, left, patience, late, cold>>

Signal ==
    /\ life # "down" /\ ~cancelled /\ cancelled' = TRUE
    /\ UNCHANGED <<life, jitter, waiting, cycle, phase, left, patience, late, cold>>

\* serve sees ctx done and sets about waiting for the mutex.
BeginShutdown ==
    /\ life = "up" /\ cancelled /\ patience = NoWait /\ patience' = ShutdownWait
    /\ UNCHANGED <<life, cancelled, jitter, waiting, cycle, phase, left, late, cold>>

-----------------------------------------------------------------------------
(* runCycle and Run.                                                       *)

Free == cycle = None

Begin(t) ==
    /\ Free /\ waiting[t] > 0
    /\ waiting' = [waiting EXCEPT ![t] = @ - 1]
    /\ cycle' = t /\ phase' = "look" /\ cold' = cancelled
    /\ UNCHANGED <<life, cancelled, jitter, left, patience, late>>

\* buildPlan finds some updates due; Docker and the registries are asked with
\* ctx, so that nothing is found any more once it is done.
Look ==
    /\ phase = "look" /\ phase' = "act"
    /\ left' \in IF cancelled THEN {0} ELSE 0..MaxUpdates
    /\ UNCHANGED <<life, cancelled, jitter, waiting, cycle, patience, late, cold>>

\* Slip: an image is pulled whether or not ctx is done.
PullsDetached == TRUE

\* pull is given ctx.
Pulls == ~cancelled

\* The image is pulled, or it is not and the next update's turn comes.
Pull ==
    /\ phase = "act" /\ left > 0 /\ left' = left - 1
    /\ \/ Pulls /\ phase' = "pulled"
       \/ UNCHANGED phase
    /\ UNCHANGED <<life, cancelled, jitter, waiting, cycle, patience, late, cold>>

\* The recreate begins; from here on ctx is not looked at.
Recreate ==
    /\ phase = "pulled" /\ phase' = "recreate"
    /\ late' = IF cancelled /\ late < 2 THEN late + 1 ELSE late
    /\ UNCHANGED <<life, cancelled, jitter, waiting, cycle, left, patience, cold>>

Recreated ==
    /\ phase = "recreate" /\ phase' = "act"
    /\ UNCHANGED <<life, cancelled, jitter, waiting, cycle, left, patience, late, cold>>

End ==
    /\ phase = "act" /\ left = 0
    /\ cycle' = None /\ phase' = "none" /\ cold' = FALSE
    /\ UNCHANGED <<life, cancelled, jitter, waiting, left, patience, late>>

-----------------------------------------------------------------------------
\* The process is gone, and with it everything but what it has done.
Gone ==
    /\ life' = "down" /\ cancelled' = FALSE /\ jitter' = 0 /\ waiting' = Nobody
    /\ cycle' = None /\ phase' = "none" /\ left' = 0 /\ patience' = NoWait
    /\ late' = 0 /\ cold' = FALSE

\* Slip: serve waits for the mutex however long it takes.
WaitsOn == patience # NoWait /\ Free

\* serve has the mutex, or has waited for long enough.
MayLeave == (patience # NoWait /\ Free) \/ patience = 0

Leave == MayLeave /\ Gone

\* Killed, or crashed.
Crash == life # "down" /\ Gone

\* Time passes; a wait that is over ends first.
Tick ==
    /\ patience = 0 => ~MayLeave
    /\ patience' = IF patience \in {NoWait, 0} THEN patience ELSE patience - 1
    /\ UNCHANGED <<life, cancelled, jitter, waiting, cycle, phase, left, late, cold>>

Init ==
    /\ life = "down" /\ cancelled = FALSE /\ jitter = 0 /\ waiting = Nobody
    /\ cycle = None /\ phase = "none" /\ left = 0 /\ patience = NoWait
    /\ late = 0 /\ cold = FALSE

Next ==
    \/ Start \/ Ready \/ CronFires \/ JitterEnds \/ WebhookTriggers \/ Signal \/ BeginShutdown
    \/ (\E t \in Triggers : Begin(t)) \/ Look \/ Pull \/ Recreate \/ Recreated \/ End
    \/ Leave \/ Crash \/ Tick

Spec == Init /\ [][Next]_vars

-----------------------------------------------------------------------------
\* Once a signal has come at most one more recreate begins, the one whose image
\* had just been pulled, and none at all in a cycle that had been waiting.
AtMostOneMore == late <= 1 /\ (cold => phase # "recreate")

\* A daemon that is told to stop stops, whatever it is in the middle of.
ShutsDown == cancelled ~> life = "down"
=============================================================================
