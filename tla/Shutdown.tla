------------------------------- MODULE Shutdown -------------------------------
(***************************************************************************)
(* A daemon that updates containers and is told to stop: Daemon, whose     *)
(* recreates take the time HealthGate gives them.  serve waits for half a  *)
(* minute; a recreate it has begun goes on for as long as its own deadline *)
(* allows, whatever has become of ctx, or until the process is gone.       *)
(***************************************************************************)
EXTENDS Integers

CONSTANTS
    Triggers, None, ShutdownWait, MaxUpdates, MaxWaiting,   \* see Daemon
    Timeouts, Graces, Overhead, Slack, MinBudget, MaxRestarts,  \* see HealthGate
    MaxSignals      \* bound: signals and crashes

ASSUME TriggersAssumption ==
    Triggers = {"startup", "schedule", "webhook"} /\ None \notin Triggers
ASSUME TimesAssumption ==
    /\ ShutdownWait \in Nat \ {0}
    /\ Timeouts \subseteq Nat /\ Graces \subseteq Nat
    /\ {Overhead, Slack, MinBudget} \subseteq Nat
ASSUME BoundAssumption == {MaxUpdates, MaxWaiting, MaxRestarts, MaxSignals} \subseteq Nat

VARIABLES
    life, cancelled, jitter, waiting, cycle, phase, left, patience, late, cold,
    stage, timeout, grace, checked, spent, watched, polled, base, outcome,
    health, up, restarts, fell, blind,
    signals

Main == INSTANCE Daemon
Gate == INSTANCE HealthGate

main == <<life, cancelled, jitter, waiting, cycle, phase, left, patience, late, cold>>
gate == <<stage, timeout, grace, checked, spent, watched, polled, base, outcome,
          health, up, restarts, fell, blind>>
vars == <<main, gate, signals>>

TypeOK == Main!TypeOK /\ Gate!TypeOK /\ signals \in 0..MaxSignals

OneMore == signals < MaxSignals /\ signals' = signals + 1

-----------------------------------------------------------------------------
\* The daemon on its own; the webhook's triggers are PokePath's.
Boots         == (Main!Start \/ Main!Ready) /\ UNCHANGED <<gate, signals>>
Schedules     == (Main!CronFires \/ Main!JitterEnds) /\ UNCHANGED <<gate, signals>>
BeginShutdown == Main!BeginShutdown /\ UNCHANGED <<gate, signals>>
Cycles ==
    /\ (\E t \in Triggers : Main!Begin(t)) \/ Main!Look \/ Main!Pull \/ Main!End
    /\ UNCHANGED <<gate, signals>>

Signal == Main!Signal /\ UNCHANGED gate /\ OneMore

\* A recreate begins and ends with its clock.
Recreate  == Main!Recreate /\ Gate!Begin /\ UNCHANGED signals
Recreated == stage = "done" /\ Main!Recreated /\ Gate!End /\ UNCHANGED signals

Proceeds ==
    /\ Gate!Watch \/ Gate!Fail \/ Gate!Look \/ Gate!Cut
    /\ UNCHANGED <<main, signals>>

\* Docker does not answer the gate, which nothing obliges it to do.
Misses == Gate!LookFails /\ UNCHANGED <<main, signals>>

Behaves ==
    /\ Gate!Report \/ Gate!Exit \/ Gate!Restart
    /\ UNCHANGED <<main, signals>>

Leave == Main!Leave /\ Gate!End /\ UNCHANGED signals
Crash == Main!Crash /\ Gate!End /\ OneMore

\* Time passes for both; without a recreate nothing is due but serve's wait.
Tick ==
    /\ Main!Tick
    /\ Gate!Tick \/ (stage = "idle" /\ UNCHANGED gate)
    /\ UNCHANGED signals

-----------------------------------------------------------------------------
Init == Main!Init /\ Gate!Init /\ signals = 0

Next ==
    \/ Boots \/ Schedules \/ BeginShutdown \/ Cycles \/ Signal
    \/ Recreate \/ Recreated \/ Proceeds \/ Misses \/ Behaves \/ Leave \/ Crash \/ Tick

Spec == Init /\ [][Next]_vars

\* Goroutines run, Docker answers, and time passes.
FairSpec ==
    Spec /\ WF_vars(Boots) /\ WF_vars(BeginShutdown) /\ WF_vars(Cycles \/ Recreate \/ Recreated)
         /\ WF_vars(Proceeds) /\ WF_vars(Leave) /\ WF_vars(Tick)

-----------------------------------------------------------------------------
\* What a signal can still set off (see Daemon).
AtMostOneMore == Main!AtMostOneMore

\* A daemon told to stop stops (see Daemon), in the middle of a gate as well.
ShutsDown == Main!ShutsDown

\* The gate's verdicts (see HealthGate), with a daemon that may be stopped or
\* die while it watches.
PassMeansWell == Gate!PassMeansWell
BadMeansSick  == Gate!BadMeansSick
NotCutShort   == Gate!NotCutShort
=============================================================================
