---------------------------- MODULE ShutdownProofs ----------------------------
(***************************************************************************)
(* Theorems about Shutdown, for any timeouts, graces, waits and bounds:    *)
(* what a signal can still set off, and what the health gate's verdicts    *)
(* mean under the one deadline of a recreate.                              *)
(***************************************************************************)
EXTENDS Shutdown, TLAPS

\* The assumptions on the constants, one by one.
LEMMA Sizes ==
  /\ Triggers = {"startup", "schedule", "webhook"} /\ None \notin Triggers
  /\ ShutdownWait \in Nat \ {0} /\ Timeouts \subseteq Nat /\ Graces \subseteq Nat
  /\ Overhead \in Nat /\ Slack \in Nat /\ MinBudget \in Nat
  /\ MaxUpdates \in Nat /\ MaxWaiting \in Nat /\ MaxRestarts \in Nat /\ MaxSignals \in Nat
BY TriggersAssumption, TimesAssumption, BoundAssumption

USE Sizes

-----------------------------------------------------------------------------
(* Each step is one of the daemon and one of the gate.                     *)

DaemonSteps ==
    \/ Main!Start \/ Main!Ready \/ Main!CronFires \/ Main!JitterEnds \/ Main!Signal
    \/ Main!BeginShutdown \/ (\E t \in Triggers : Main!Begin(t)) \/ Main!Look \/ Main!Pull
    \/ Main!Recreate \/ Main!Recreated \/ Main!End \/ Main!Gone \/ Main!Tick
    \/ UNCHANGED main

GateSteps ==
    \/ Gate!Begin \/ Gate!Watch \/ Gate!Fail \/ Gate!End \/ Gate!Look \/ Gate!LookFails
    \/ Gate!Cut
    \/ Gate!Report \/ Gate!Exit \/ Gate!Restart \/ Gate!Tick
    \/ UNCHANGED gate

LEMMA StepSplits ==
  ASSUME [Next]_vars
  PROVE  DaemonSteps /\ GateSteps
<1>1. CASE Boots \/ Schedules \/ BeginShutdown \/ Cycles \/ Signal
  BY <1>1 DEF Boots, Schedules, BeginShutdown, Cycles, Signal, DaemonSteps, GateSteps
<1>2. CASE Recreate \/ Recreated \/ Proceeds \/ Misses \/ Behaves
  BY <1>2 DEF Recreate, Recreated, Proceeds, Misses, Behaves, DaemonSteps, GateSteps
<1>3. CASE Leave \/ Crash \/ Tick
  BY <1>3 DEF Leave, Crash, Tick, Main!Leave, Main!Crash, DaemonSteps, GateSteps
<1>4. CASE UNCHANGED vars
  BY <1>4 DEF vars, DaemonSteps, GateSteps
<1> QED BY <1>1, <1>2, <1>3, <1>4 DEF Next

-----------------------------------------------------------------------------
(* The daemon.                                                             *)

\* Main!TypeOK in parts, of one kind of value each.
DaemonFlags  == cancelled \in BOOLEAN /\ cold \in BOOLEAN
DaemonPlaces == /\ life \in {"down", "boot", "up"}
                /\ cycle \in Triggers \cup {None}
                /\ phase \in {"none", "look", "act", "pulled", "recreate"}
DaemonCounts == /\ jitter \in 0..MaxWaiting
                /\ left \in 0..MaxUpdates
                /\ patience \in 0..ShutdownWait \cup {-1}
                /\ late \in 0..2
DaemonQueues == waiting \in [Triggers -> 0..MaxWaiting]

LEMMA DaemonParts ==
  Main!TypeOK <=> DaemonFlags /\ DaemonPlaces /\ DaemonCounts /\ DaemonQueues
BY Zenon DEF Main!TypeOK, Main!NoWait, DaemonFlags, DaemonPlaces, DaemonCounts, DaemonQueues

LEMMA DaemonTypeInit == Main!Init => Main!TypeOK
<1> SUFFICES ASSUME Main!Init PROVE Main!TypeOK
  OBVIOUS
<1>1. DaemonFlags
  BY DEF Main!Init, DaemonFlags
<1>2. DaemonPlaces
  BY DEF Main!Init, DaemonPlaces
<1>3. DaemonCounts
  BY DEF Main!Init, DaemonCounts, Main!NoWait
<1>4. DaemonQueues
  BY DEF Main!Init, DaemonQueues, Main!Nobody
<1> QED BY <1>1, <1>2, <1>3, <1>4, DaemonParts

LEMMA DaemonTypeStep ==
  ASSUME Main!TypeOK, DaemonSteps
  PROVE  Main!TypeOK'
<1> DaemonFlags /\ DaemonPlaces /\ DaemonCounts /\ DaemonQueues
  BY DaemonParts
<1> USE DEF main
<1>1. DaemonFlags'
  <2>1. CASE Main!Start \/ Main!Ready \/ Main!CronFires \/ Main!JitterEnds \/ Main!Signal
             \/ Main!BeginShutdown \/ Main!Tick
    BY <2>1 DEF Main!Start, Main!Ready, Main!CronFires, Main!JitterEnds, Main!Signal,
       Main!BeginShutdown, Main!Tick, DaemonFlags
  <2>2. ASSUME NEW t \in Triggers, Main!Begin(t) PROVE DaemonFlags'
    BY <2>2 DEF Main!Begin, DaemonFlags
  <2>3. CASE Main!Look \/ Main!Pull \/ Main!Recreate \/ Main!Recreated \/ Main!End \/ Main!Gone
             \/ UNCHANGED main
    BY <2>3 DEF Main!Look, Main!Pull, Main!Recreate, Main!Recreated, Main!End, Main!Gone, DaemonFlags
  <2> QED BY <2>1, <2>2, <2>3 DEF DaemonSteps
<1>2. DaemonPlaces'
  <2>1. CASE Main!Start \/ Main!Ready \/ Main!CronFires \/ Main!JitterEnds \/ Main!Signal
             \/ Main!BeginShutdown \/ Main!Tick
    BY <2>1 DEF Main!Start, Main!Ready, Main!CronFires, Main!JitterEnds, Main!Signal,
       Main!BeginShutdown, Main!Tick, DaemonPlaces
  <2>2. ASSUME NEW t \in Triggers, Main!Begin(t) PROVE DaemonPlaces'
    BY <2>2 DEF Main!Begin, DaemonPlaces
  <2>3. CASE Main!Look \/ Main!Pull \/ Main!Recreate \/ Main!Recreated \/ Main!End \/ Main!Gone
             \/ UNCHANGED main
    BY <2>3 DEF Main!Look, Main!Pull, Main!Recreate, Main!Recreated, Main!End, Main!Gone, DaemonPlaces
  <2> QED BY <2>1, <2>2, <2>3 DEF DaemonSteps
<1>3. DaemonCounts'
  <2> USE DEF DaemonCounts, Main!NoWait
  <2>1. CASE Main!Start \/ Main!Ready \/ Main!Signal \/ Main!BeginShutdown \/ Main!Tick
    BY <2>1 DEF Main!Start, Main!Ready, Main!Signal, Main!BeginShutdown, Main!Tick
  <2>2. CASE Main!CronFires \/ Main!JitterEnds
    BY <2>2 DEF Main!CronFires, Main!JitterEnds
  <2>3. ASSUME NEW t \in Triggers, Main!Begin(t) PROVE DaemonCounts'
    BY <2>3 DEF Main!Begin
  <2>4. CASE Main!Look
    BY <2>4 DEF Main!Look
  <2>5. CASE Main!Pull \/ Main!Recreate
    BY <2>5 DEF Main!Pull, Main!Recreate
  <2>6. CASE Main!Recreated \/ Main!End \/ Main!Gone \/ UNCHANGED main
    BY <2>6 DEF Main!Recreated, Main!End, Main!Gone
  <2> QED BY <2>1, <2>2, <2>3, <2>4, <2>5, <2>6 DEF DaemonSteps
<1>4. DaemonQueues'
  <2> USE DEF DaemonQueues
  <2>1. ASSUME NEW t \in Triggers, Main!Queue(t) PROVE DaemonQueues'
    BY <2>1 DEF Main!Queue
  <2>2. ASSUME NEW t \in Triggers, Main!Begin(t) PROVE DaemonQueues'
    BY <2>2 DEF Main!Begin
  <2>3. CASE Main!Ready \/ Main!JitterEnds
    BY <2>1, <2>3 DEF Main!Ready, Main!JitterEnds
  <2>4. CASE Main!Start \/ Main!CronFires \/ Main!Signal \/ Main!BeginShutdown \/ Main!Tick
    BY <2>4 DEF Main!Start, Main!CronFires, Main!Signal, Main!BeginShutdown, Main!Tick
  <2>5. CASE Main!Look \/ Main!Pull \/ Main!Recreate \/ Main!Recreated \/ Main!End
             \/ UNCHANGED main
    BY <2>5 DEF Main!Look, Main!Pull, Main!Recreate, Main!Recreated, Main!End
  <2>6. CASE Main!Gone
    BY <2>6 DEF Main!Gone, Main!Nobody
  <2> QED BY <2>2, <2>3, <2>4, <2>5, <2>6 DEF DaemonSteps
<1>5. Main!TypeOK' <=> DaemonFlags' /\ DaemonPlaces' /\ DaemonCounts' /\ DaemonQueues'
  BY Zenon DEF Main!TypeOK, Main!NoWait, DaemonFlags, DaemonPlaces, DaemonCounts, DaemonQueues
<1> QED BY <1>1, <1>2, <1>3, <1>4, <1>5

\* A late recreate is the last, since nothing is pulled after the signal; and a
\* cycle that began after it pulls nothing at all.
LateInv ==
    /\ late \in {0, 1}
    /\ late = 1 => cancelled /\ phase # "pulled"
    /\ cold => cancelled /\ phase \notin {"pulled", "recreate"}

LEMMA LateStep ==
  ASSUME LateInv, DaemonSteps
  PROVE  LateInv'
<1> USE DEF LateInv, main
<1>1. CASE Main!Start \/ Main!Ready \/ Main!CronFires \/ Main!JitterEnds \/ Main!Signal
           \/ Main!BeginShutdown \/ Main!Tick \/ UNCHANGED main
  BY <1>1 DEF Main!Start, Main!Ready, Main!CronFires, Main!JitterEnds, Main!Signal,
     Main!BeginShutdown, Main!Tick
<1>2. ASSUME NEW t \in Triggers, Main!Begin(t) PROVE LateInv'
  BY <1>2 DEF Main!Begin
<1>3. CASE Main!Look \/ Main!Recreated \/ Main!End
  BY <1>3 DEF Main!Look, Main!Recreated, Main!End
<1>4. CASE Main!Pull
  BY <1>4 DEF Main!Pull, Main!Pulls
<1>5. CASE Main!Recreate
  BY <1>5 DEF Main!Recreate
<1>6. CASE Main!Gone
  BY <1>6 DEF Main!Gone
<1> QED BY <1>1, <1>2, <1>3, <1>4, <1>5, <1>6 DEF DaemonSteps

LEMMA LateAlways == Spec => []LateInv
<1>1. Init => LateInv
  BY DEF Init, Main!Init, LateInv
<1>2. LateInv /\ [Next]_vars => LateInv'
  BY StepSplits, LateStep
<1> QED BY <1>1, <1>2, PTL DEF Spec

\* After a signal at most one more container is recreated, the one whose image
\* had been pulled by then, and none by a cycle that had been waiting.
THEOREM OneMoreAtMost == Spec => []AtMostOneMore
<1>1. LateInv => AtMostOneMore
  BY DEF LateInv, AtMostOneMore, Main!AtMostOneMore
<1> QED BY <1>1, LateAlways, PTL

-----------------------------------------------------------------------------
(* The gate.                                                               *)

\* How the gate's clocks hang together: what the setup leaves of the deadline
\* is the gate's, which looks at every unit and a last time past the timeout.
ClockInv ==
    /\ stage \in {"idle", "setup"} => watched = 0 /\ ~polled
    /\ stage = "setup" => spent <= grace + Overhead
    /\ stage = "gate" => /\ watched <= spent /\ spent <= grace + Overhead + watched
                         /\ watched <= timeout + 1
                         /\ polled => watched <= timeout
    /\ outcome = "cut" => /\ Gate!Budget(timeout) <= grace + Overhead + timeout + 1

\* How an exit shows: the container is down, or its restart count has grown
\* past the first one the gate has seen.
FallInv ==
    /\ stage \in {"idle", "setup"} => fell = {} /\ up /\ restarts = 0 /\ base = -1
    /\ base <= restarts
    /\ "late" \in fell => base # -1 /\ (~up \/ restarts > base)
    /\ ~up \/ restarts > 0 => fell # {}

VerdictInv ==
    /\ stage # "done" => outcome = "none"
    /\ Gate!PassMeansWell /\ Gate!BadMeansSick
    /\ stage # "done" => ~blind

GateInv == Gate!TypeOK /\ ClockInv /\ FallInv /\ VerdictInv

LEMMA BudgetIsNat ==
  ASSUME NEW t \in Nat
  PROVE  Gate!Budget(t) \in Nat /\ t + Slack <= Gate!Budget(t) /\ MinBudget <= Gate!Budget(t)
BY DEF Gate!Budget

\* Gate!TypeOK in parts, of one kind of value each.
GateFlags  == checked \in BOOLEAN /\ polled \in BOOLEAN /\ up \in BOOLEAN /\ blind \in BOOLEAN
GatePlaces == /\ stage \in {"idle", "setup", "gate", "done"}
              /\ outcome \in {"none", "passed", "bad", "cut", "failed"}
              /\ health \in {"starting", "healthy", "unhealthy"}
              /\ fell \subseteq {"early", "late"}
GateCounts == /\ timeout \in Timeouts /\ grace \in Graces
              /\ spent \in 0..Gate!Budget(timeout)
              /\ watched \in 0..Gate!Budget(timeout)
              /\ base \in 0..MaxRestarts \cup {-1}
              /\ restarts \in 0..MaxRestarts

LEMMA GateParts == Gate!TypeOK <=> GateFlags /\ GatePlaces /\ GateCounts
BY Zenon DEF Gate!TypeOK, Gate!Unset, GateFlags, GatePlaces, GateCounts

LEMMA GateTypeStep ==
  ASSUME GateInv, GateSteps
  PROVE  Gate!TypeOK'
<1> USE DEF Gate!settings, Gate!container
<1>0. GateFlags /\ GatePlaces /\ GateCounts
  BY GateParts DEF GateInv
<1>1. GateFlags'
  <2> USE <1>0 DEF GateFlags
  <2>1. CASE Gate!Begin \/ Gate!End \/ Gate!Watch \/ Gate!Fail
    BY <2>1 DEF Gate!Begin, Gate!End, Gate!Afresh, Gate!Watch, Gate!Fail
  <2>2. CASE Gate!Look \/ Gate!LookFails \/ Gate!Cut \/ UNCHANGED gate
    BY <2>2 DEF Gate!Look, Gate!LookFails, Gate!Cut, gate
  <2>3. CASE Gate!Report \/ Gate!Exit \/ Gate!Restart \/ Gate!Tick
    BY <2>3 DEF Gate!Report, Gate!Exit, Gate!Restart, Gate!Tick
  <2> QED BY <2>1, <2>2, <2>3 DEF GateSteps
<1>2. GatePlaces'
  <2> USE <1>0 DEF GatePlaces
  <2>1. CASE Gate!Begin \/ Gate!End \/ Gate!Watch \/ Gate!Fail \/ Gate!LookFails \/ Gate!Cut
    BY <2>1 DEF Gate!Begin, Gate!End, Gate!Afresh, Gate!Watch, Gate!Fail, Gate!LookFails, Gate!Cut
  <2>2. CASE Gate!Look
    <3>1. Gate!Verdict(Gate!Base) \in {"none", "passed", "bad"}
      BY DEF Gate!Verdict
    <3> QED BY <2>2, <3>1 DEF Gate!Look
  <2>3. CASE Gate!Report \/ Gate!Exit \/ Gate!Restart
    BY <2>3 DEF Gate!Report, Gate!Exit, Gate!Restart, Gate!Falls
  <2>4. CASE Gate!Tick \/ UNCHANGED gate
    BY <2>4 DEF Gate!Tick, gate
  <2> QED BY <2>1, <2>2, <2>3, <2>4 DEF GateSteps
<1>3. GateCounts'
  <2> USE <1>0 DEF GateCounts
  <2>0. timeout \in Nat /\ grace \in Nat /\ Gate!Budget(timeout) \in Nat
    BY BudgetIsNat
  <2>1. ASSUME timeout' = timeout PROVE Gate!Budget(timeout)' = Gate!Budget(timeout)
    BY <2>1 DEF Gate!Budget
  <2>2. CASE Gate!Begin \/ Gate!End
    <3>1. timeout' \in Timeouts /\ grace' \in Graces
      BY <2>2 DEF Gate!Begin, Gate!End
    <3>2. Gate!Budget(timeout') \in Nat /\ Gate!Budget(timeout)' = Gate!Budget(timeout')
      BY <3>1, BudgetIsNat DEF Gate!Budget
    <3>3. spent' = 0 /\ watched' = 0 /\ base' = -1 /\ restarts' = 0
      BY <2>2 DEF Gate!Begin, Gate!End, Gate!Afresh, Gate!Unset
    <3> QED BY <3>1, <3>2, <3>3
  <2>3. CASE Gate!Watch \/ Gate!Fail \/ Gate!LookFails \/ Gate!Cut \/ UNCHANGED gate
    <3>1. UNCHANGED <<timeout, grace, spent, watched, base, restarts>>
      BY <2>3 DEF Gate!Watch, Gate!Fail, Gate!LookFails, Gate!Cut, gate
    <3> QED BY <2>1, <3>1
  <2>4. CASE Gate!Look
    <3>1. UNCHANGED <<timeout, grace, spent, watched, restarts>> /\ base' = Gate!Base
      BY <2>4 DEF Gate!Look
    <3>2. Gate!Base \in 0..MaxRestarts
      BY DEF Gate!Base, Gate!Unset
    <3> QED BY <2>1, <3>1, <3>2
  <2>5. CASE Gate!Report \/ Gate!Exit \/ Gate!Restart
    <3>1. /\ UNCHANGED <<timeout, grace, spent, watched, base>>
          /\ restarts' = restarts \/ (restarts < MaxRestarts /\ restarts' = restarts + 1)
      BY <2>5 DEF Gate!Report, Gate!Exit, Gate!Restart
    <3> QED BY <2>1, <3>1
  <2>6. CASE Gate!Tick
    <3>1. UNCHANGED <<timeout, grace, base, restarts>>
      BY <2>6 DEF Gate!Tick
    <3>2. spent' = spent + 1 /\ spent # Gate!Budget(timeout)
      BY <2>6 DEF Gate!Tick, Gate!Expired
    <3>3. watched' = watched \/ (stage = "gate" /\ watched' = watched + 1)
      BY <2>6 DEF Gate!Tick
    <3>4. stage = "gate" => watched <= spent
      BY DEF GateInv, ClockInv
    <3> QED BY <2>0, <2>1, <3>1, <3>2, <3>3, <3>4
  <2> QED BY <2>2, <2>3, <2>4, <2>5, <2>6 DEF GateSteps
<1>4. Gate!TypeOK' <=> GateFlags' /\ GatePlaces' /\ GateCounts'
  BY Zenon DEF Gate!TypeOK, Gate!Unset, GateFlags, GatePlaces, GateCounts
<1> QED BY <1>1, <1>2, <1>3, <1>4

LEMMA GateInit == Init => GateInv
<1> SUFFICES ASSUME Init PROVE GateInv
  OBVIOUS
<1>1. timeout \in Nat /\ grace \in Nat /\ Gate!Budget(timeout) \in Nat
  BY BudgetIsNat DEF Init, Gate!Init
<1>2. Gate!TypeOK
  <2>1. GateFlags
    BY DEF Init, Gate!Init, GateFlags
  <2>2. GatePlaces
    BY DEF Init, Gate!Init, GatePlaces
  <2>3. GateCounts
    BY <1>1 DEF Init, Gate!Init, GateCounts, Gate!Unset
  <2> QED BY <2>1, <2>2, <2>3, GateParts
<1>3. ClockInv /\ FallInv /\ VerdictInv
  BY <1>1 DEF Init, Gate!Init, ClockInv, FallInv, VerdictInv, Gate!PassMeansWell, Gate!BadMeansSick, Gate!Sick,
     Gate!Unset
<1> QED BY <1>2, <1>3 DEF GateInv

LEMMA GateStep ==
  ASSUME GateInv, GateSteps
  PROVE  GateInv'
<1> SUFFICES ClockInv' /\ FallInv' /\ VerdictInv'
  BY GateTypeStep DEF GateInv
<1> USE DEF GateInv, Gate!settings, Gate!container, Gate!Unset
<1>0. timeout \in Nat /\ grace \in Nat /\ Gate!Budget(timeout) \in Nat
      /\ spent \in Nat /\ watched \in Nat /\ restarts \in Nat
  BY BudgetIsNat DEF Gate!TypeOK
<1>1. CASE Gate!Begin
  <2>1. grace' \in Nat
    BY <1>1 DEF Gate!Begin
  <2>2. ClockInv'
    <3>1. stage' = "setup" /\ outcome' # "cut" /\ spent' = 0 /\ watched' = 0
      BY <1>1 DEF Gate!Begin, Gate!Afresh
    <3>2. ~polled'
      BY <1>1, Zenon DEF Gate!Begin, Gate!Afresh
    <3>3. spent' <= grace' + Overhead
      <4>1. \A g \in Nat : 0 <= g + Overhead
        OBVIOUS
      <4> QED BY <2>1, <3>1, <4>1
    <3> QED BY <3>1, <3>2, <3>3 DEF ClockInv
  <2>3. FallInv' /\ VerdictInv'
    BY <1>1 DEF Gate!Begin, Gate!Afresh, FallInv, VerdictInv, Gate!PassMeansWell, Gate!BadMeansSick, Gate!Sick
  <2> QED BY <2>2, <2>3
<1>2. CASE Gate!End
  BY <1>2 DEF Gate!End, Gate!Afresh, ClockInv, FallInv, VerdictInv,
     Gate!PassMeansWell, Gate!BadMeansSick, Gate!Sick
<1>3. CASE Gate!Watch \/ Gate!Fail
  <2>1. ClockInv'
    BY <1>0, <1>3 DEF Gate!Watch, Gate!Fail, ClockInv, VerdictInv
  <2>2. FallInv'
    BY <1>0, <1>3 DEF Gate!Watch, Gate!Fail, FallInv
  <2>3. VerdictInv'
    BY <1>3 DEF Gate!Watch, Gate!Fail, VerdictInv, Gate!PassMeansWell, Gate!BadMeansSick, Gate!Sick
  <2> QED BY <2>1, <2>2, <2>3
<1>4. CASE Gate!Look
  <2>1. Gate!Base \in 0..MaxRestarts /\ Gate!Base <= restarts
    BY DEF Gate!Base, Gate!TypeOK, FallInv
  <2>2. Gate!Verdict(Gate!Base) \in {"none", "passed", "bad"}
    BY DEF Gate!Verdict
  <2>3. ClockInv'
    <3>1. outcome' = "none" => watched <= timeout
      BY <1>0, <1>4 DEF Gate!Look, Gate!Verdict
    <3>2. outcome' # "cut"
      BY <1>4, <2>2 DEF Gate!Look
    <3> QED BY <1>4, <3>1, <3>2 DEF Gate!Look, ClockInv
  <2>4. FallInv'
    BY <1>0, <1>4, <2>1 DEF Gate!Look, Gate!Base, Gate!TypeOK, FallInv
  <2>5. outcome' = "passed" => IF checked THEN health = "healthy"
                                          ELSE up /\ "late" \notin fell /\ watched > timeout
    <3>1. "late" \in fell => ~up \/ restarts > Gate!Base
      BY DEF FallInv, Gate!Base
    <3> QED BY <1>4, <3>1 DEF Gate!Look, Gate!Verdict
  <2>6. outcome' = "bad" => fell # {} \/ (checked /\ (health = "unhealthy" \/ watched > timeout))
    <3>1. restarts > Gate!Base => restarts > 0
      BY <1>0, <2>1
    <3> QED BY <1>4, <3>1 DEF Gate!Look, Gate!Verdict, FallInv
  <2>7. VerdictInv'
    BY <1>4, <2>5, <2>6 DEF Gate!Look, VerdictInv, Gate!PassMeansWell, Gate!BadMeansSick, Gate!Sick
  <2> QED BY <2>3, <2>4, <2>7
<1>5. CASE Gate!Cut
  <2>1. Gate!Budget(timeout) <= grace + Overhead + timeout + 1
    BY <1>0, <1>5 DEF Gate!Cut, Gate!Expired, ClockInv
  <2>2. ClockInv' /\ FallInv'
    BY <1>5, <2>1 DEF Gate!Cut, ClockInv, FallInv, Gate!Budget
  <2>3. VerdictInv'
    BY <1>5 DEF Gate!Cut, VerdictInv, Gate!PassMeansWell, Gate!BadMeansSick, Gate!Sick
  <2> QED BY <2>2, <2>3
<1>6. CASE Gate!Report \/ Gate!Exit \/ Gate!Restart
  <2>1. ClockInv'
    BY <1>6 DEF Gate!Report, Gate!Exit, Gate!Restart, ClockInv, Gate!Budget
  <2>2. FallInv'
    BY <1>0, <1>6 DEF Gate!Report, Gate!Exit, Gate!Restart, Gate!Falls, Gate!TypeOK, FallInv
  <2>3. VerdictInv'
    BY <1>6 DEF Gate!Report, Gate!Exit, Gate!Restart, VerdictInv, Gate!PassMeansWell, Gate!BadMeansSick, Gate!Sick
  <2> QED BY <2>1, <2>2, <2>3
<1>7. CASE Gate!Tick
  <2>1. spent' = spent + 1 /\ stage' = stage /\ timeout' = timeout /\ grace' = grace
        /\ outcome' = outcome
    BY <1>7 DEF Gate!Tick
  <2>2. outcome # "cut"
    BY <1>7 DEF Gate!Tick, VerdictInv
  <2>3. ASSUME stage = "setup" PROVE ClockInv'
    <3>1. watched = 0 /\ ~polled
      BY <2>3 DEF ClockInv
    <3>2. watched' = 0 /\ ~polled'
      BY <1>7, <2>3, <3>1 DEF Gate!Tick
    <3>3. spent' <= grace' + Overhead
      BY <1>0, <1>7, <2>1, <2>3 DEF Gate!Tick
    <3>4. stage' = "setup" /\ outcome' # "cut"
      BY <2>1, <2>2, <2>3
    <3> QED BY <3>2, <3>3, <3>4 DEF ClockInv
  <2>4. ASSUME stage = "gate" PROVE ClockInv'
    <3>1. watched' = watched + 1 /\ polled /\ ~polled'
      BY <1>7, <2>4 DEF Gate!Tick
    <3>2. watched <= spent /\ spent <= grace + Overhead + watched /\ watched <= timeout
      BY <2>4, <3>1 DEF ClockInv
    <3>3. watched' <= spent' /\ spent' <= grace' + Overhead + watched' /\ watched' <= timeout' + 1
      BY <1>0, <2>1, <3>1, <3>2
    <3>4. stage' = "gate" /\ outcome' # "cut"
      BY <2>1, <2>2, <2>4
    <3> QED BY <3>1, <3>3, <3>4 DEF ClockInv
  <2>5. ClockInv'
    BY <1>7, <2>3, <2>4 DEF Gate!Tick
  <2>6. FallInv' /\ VerdictInv'
    BY <1>7 DEF Gate!Tick, FallInv, VerdictInv, Gate!PassMeansWell, Gate!BadMeansSick, Gate!Sick
  <2> QED BY <2>5, <2>6
<1>8. CASE UNCHANGED gate
  BY <1>8 DEF gate, Gate!Budget, ClockInv, FallInv, VerdictInv, Gate!PassMeansWell,
     Gate!BadMeansSick, Gate!Sick
<1>9. CASE Gate!LookFails
  <2>1. ClockInv' /\ FallInv'
    BY <1>9 DEF Gate!LookFails, ClockInv, FallInv, Gate!Budget
  <2>2. blind' /\ outcome' = "bad" /\ stage' = "done"
    BY <1>9 DEF Gate!LookFails
  <2> QED BY <2>1, <2>2 DEF VerdictInv, Gate!PassMeansWell, Gate!BadMeansSick, Gate!Sick
<1> QED BY <1>1, <1>2, <1>3, <1>4, <1>5, <1>6, <1>7, <1>8, <1>9 DEF GateSteps

LEMMA GateAlways == Spec => []GateInv
<1>1. GateInv /\ [Next]_vars => GateInv'
  BY StepSplits, GateStep
<1> QED BY <1>1, GateInit, PTL DEF Spec

\* A container that passes is well.
THEOREM PassedIsWell == Spec => []PassMeansWell
<1>1. GateInv => PassMeansWell
  BY DEF GateInv, VerdictInv, PassMeansWell
<1> QED BY <1>1, GateAlways, PTL

\* A digest is only blamed for what its container did, or because Docker did not
\* answer the gate.
THEOREM BlamedIsSick == Spec => []BadMeansSick
<1>1. GateInv => BadMeansSick
  BY DEF GateInv, VerdictInv, BadMeansSick
<1> QED BY <1>1, GateAlways, PTL

\* The deadline ends a gate only when the grace has used up the slack.
THEOREM DeadlineIsAmple == Spec => []NotCutShort
<1>1. ASSUME GateInv PROVE NotCutShort
  <2>1. timeout \in Nat /\ grace \in Nat
    BY <1>1 DEF GateInv, Gate!TypeOK
  <2>2. Gate!Budget(timeout) \in Nat /\ timeout + Slack <= Gate!Budget(timeout)
        /\ MinBudget <= Gate!Budget(timeout)
    BY <2>1, BudgetIsNat
  <2> QED BY <1>1, <2>1, <2>2 DEF GateInv, ClockInv, NotCutShort, Gate!NotCutShort
<1> QED BY <1>1, GateAlways, PTL

\* Type correctness.
THEOREM WellTyped == Spec => []TypeOK
<1> DEFINE Inv == Main!TypeOK /\ signals \in 0..MaxSignals
<1>1. Init => Inv
  BY DaemonTypeInit DEF Init
<1>2. ASSUME Inv, [Next]_vars PROVE Inv'
  <2>1. signals' \in 0..MaxSignals
    BY <1>2 DEF Next, vars, Boots, Schedules, BeginShutdown, Cycles, Signal, Recreate, Recreated,
       Proceeds, Misses, Behaves, Leave, Crash, Tick, OneMore
  <2> QED BY <1>2, <2>1, StepSplits, DaemonTypeStep
<1>3. Inv /\ GateInv => TypeOK
  BY DEF GateInv, TypeOK
<1> QED BY <1>1, <1>2, <1>3, GateAlways, PTL DEF Spec
=============================================================================
