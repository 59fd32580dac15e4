------------------------------ MODULE HealthGate ------------------------------
(***************************************************************************)
(* The clock of a recreate: apply of internal/engine/engine.go from the    *)
(* moment the image is there, and healthGate.  The whole recreate has one  *)
(* deadline (opCtx), sized by the health timeout; stopping the old         *)
(* container and creating the new one use up a part of it before the gate  *)
(* begins to watch.  The new container does what containers do: it turns   *)
(* healthy or unhealthy, exits, or exits and is restarted by Docker.       *)
(*                                                                         *)
(* A unit of time is the two seconds between two polls.                    *)
(***************************************************************************)
EXTENDS Integers

CONSTANTS
    Timeouts,       \* io.pullpilot.health-timeout, or 90 s
    Graces,         \* io.pullpilot.stop-timeout, or Docker's 10 s
    Overhead,       \* bound: what Docker takes for stop, rename, create,
                    \* attach and start on top of the grace
    Slack,          \* the 2 min on top of the health timeout
    MinBudget,      \* the 5 min a recreate may always take
    MaxRestarts     \* bound: restarts of the new container

VARIABLES
    stage,      \* "idle", "setup" (stop to start), "gate" or "done"
    timeout, grace,     \* the settings of this container
    checked,    \* whether the new container has a healthcheck
    spent,      \* time since opCtx was made
    watched,    \* time since the gate began
    polled,     \* the gate has looked and waits for the ticker
    base,       \* startRestarts, or Unset
    outcome,    \* "none", "passed", "bad", "cut" (opCtx) or "failed" (before)
    \* the new container
    health,     \* "starting", "healthy" or "unhealthy"
    up,         \* State.Running
    restarts,   \* RestartCount
    \* history
    fell,       \* when it has exited: "early", before the gate first looked, "late"
    blind       \* an inspect of the gate has got no answer

settings  == <<timeout, grace, checked>>
container == <<health, up, restarts>>
vars == <<stage, settings, spent, watched, polled, base, outcome, container, fell, blind>>

Unset == -1

\* Slip: the health timeout is not allowed for.
FlatBudget(t) == MinBudget

\* opTimeout.
Budget(t) == IF t + Slack < MinBudget THEN MinBudget ELSE t + Slack

TypeOK ==
    /\ stage \in {"idle", "setup", "gate", "done"}
    /\ timeout \in Timeouts /\ grace \in Graces /\ checked \in BOOLEAN
    /\ spent \in 0..Budget(timeout)
    /\ watched \in 0..Budget(timeout)
    /\ polled \in BOOLEAN
    /\ base \in 0..MaxRestarts \cup {Unset}
    /\ outcome \in {"none", "passed", "bad", "cut", "failed"}
    /\ health \in {"starting", "healthy", "unhealthy"}
    /\ up \in BOOLEAN /\ restarts \in 0..MaxRestarts
    /\ fell \subseteq {"early", "late"} /\ blind \in BOOLEAN

Expired == spent = Budget(timeout)

-----------------------------------------------------------------------------
(* apply.                                                                  *)

\* A container nobody watches yet.
Afresh ==
    /\ spent' = 0 /\ outcome' = "none"
    /\ watched' = 0 /\ polled' = FALSE /\ base' = Unset /\ fell' = {} /\ blind' = FALSE
    /\ health' = "starting" /\ up' = TRUE /\ restarts' = 0

\* The image has been pulled: opCtx is made, the old container is told to stop.
Begin ==
    /\ stage = "idle" /\ stage' = "setup"
    /\ timeout' \in Timeouts /\ grace' \in Graces /\ checked' \in BOOLEAN
    /\ Afresh

\* The new container has been started and healthGate is called.
Watch ==
    /\ stage = "setup" /\ stage' = "gate"
    /\ UNCHANGED <<settings, spent, watched, polled, base, outcome, container, fell, blind>>

\* A call before the gate fails, of itself or because opCtx is over.
Fail ==
    /\ stage = "setup" /\ stage' = "done" /\ outcome' = "failed"
    /\ UNCHANGED <<settings, spent, watched, polled, base, container, fell, blind>>

\* apply returns, after bookkeeping or a rollback (see Recreate); or the
\* process is gone, and nobody watches any more.
End ==
    /\ stage' = "idle" /\ Afresh /\ checked' = FALSE
    /\ UNCHANGED <<timeout, grace>>

-----------------------------------------------------------------------------
(* healthGate.                                                             *)

\* Slip: every look is taken for the first.
BaseReset == restarts

\* The restart count at the first look.
Base == IF base = Unset THEN restarts ELSE base

\* Slip: the timeout ends a poll early.
VerdictHasty(b) ==
    IF checked
      THEN IF health = "healthy" THEN "passed"
           ELSE IF health = "unhealthy" \/ watched >= timeout THEN "bad" ELSE "none"
      ELSE IF ~up \/ restarts > b THEN "bad"
           ELSE IF watched >= timeout THEN "passed" ELSE "none"

\* Slip: without a healthcheck, a poll that finds the container up is enough
\* of an answer, and one that does not is none.
VerdictVague(b) == IF checked THEN health ELSE IF up THEN "passed" ELSE "none"

\* What one inspect says, counted from b restarts.
Verdict(b) ==
    IF checked
      THEN IF health = "healthy" THEN "passed"
           ELSE IF health = "unhealthy" \/ watched > timeout THEN "bad" ELSE "none"
      ELSE IF ~up \/ restarts > b THEN "bad"
           ELSE IF watched > timeout THEN "passed" ELSE "none"

\* The gate inspects the container; it may do so in opCtx's last moment.
Look ==
    /\ stage = "gate" /\ ~polled /\ polled' = TRUE
    /\ base' = Base
    /\ outcome' = Verdict(Base)
    /\ stage' = IF outcome' = "none" THEN "gate" ELSE "done"
    /\ UNCHANGED <<settings, spent, watched, container, fell, blind>>

\* An inspect fails, or answers without a State.  healthGate returns the error,
\* and apply takes any that is not ctx's for a verdict.
LookFails ==
    /\ stage = "gate" /\ ~polled
    /\ stage' = "done" /\ outcome' = "bad" /\ blind' = TRUE
    /\ UNCHANGED <<settings, spent, watched, polled, base, container, fell>>

\* opCtx's deadline, in the select or in an inspect: no verdict.
Cut ==
    /\ stage = "gate" /\ Expired
    /\ stage' = "done" /\ outcome' = "cut"
    /\ UNCHANGED <<settings, spent, watched, polled, base, container, fell, blind>>

-----------------------------------------------------------------------------
(* The container and the clock.                                            *)

\* Its healthcheck reports.
Report ==
    /\ stage = "gate" /\ checked /\ up
    /\ health' \in {"healthy", "unhealthy"}
    /\ UNCHANGED <<stage, settings, spent, watched, polled, base, outcome, up, restarts, fell, blind>>

Falls == fell' = fell \cup {IF base = Unset THEN "early" ELSE "late"}

\* It exits for good.
Exit ==
    /\ stage = "gate" /\ up /\ up' = FALSE
    /\ health' = "unhealthy" /\ Falls
    /\ UNCHANGED <<stage, settings, spent, watched, polled, base, outcome, restarts, blind>>

\* It exits and its restart policy starts it again, unseen between two polls.
Restart ==
    /\ stage = "gate" /\ up /\ restarts < MaxRestarts /\ restarts' = restarts + 1
    /\ health' = "starting" /\ Falls
    /\ UNCHANGED <<stage, settings, spent, watched, polled, base, outcome, up, blind>>

\* Time passes: the setup ends in time, a look takes none.
Tick ==
    /\ ~Expired /\ spent' = spent + 1
    /\ \/ stage = "setup" /\ spent < grace + Overhead /\ UNCHANGED <<watched, polled>>
       \/ stage = "gate" /\ polled /\ polled' = FALSE /\ watched' = watched + 1
    /\ UNCHANGED <<stage, settings, base, outcome, container, fell, blind>>

-----------------------------------------------------------------------------
Init ==
    /\ stage = "idle" /\ spent = 0 /\ outcome = "none"
    /\ timeout \in Timeouts /\ grace \in Graces /\ checked = FALSE
    /\ watched = 0 /\ polled = FALSE /\ base = Unset /\ fell = {} /\ blind = FALSE
    /\ health = "starting" /\ up = TRUE /\ restarts = 0

Next ==
    \/ Begin \/ Watch \/ Fail \/ (stage = "done" /\ End)
    \/ Look \/ LookFails \/ Cut \/ Report \/ Exit \/ Restart \/ Tick

Spec == Init /\ [][Next]_vars

-----------------------------------------------------------------------------
(* Properties.                                                             *)

\* A container that passes was healthy when last looked at or, without a
\* healthcheck, has not exited since the gate first looked, for longer than the
\* timeout: a restart between two polls does not go unnoticed.
PassMeansWell ==
    outcome = "passed" =>
        IF checked THEN health = "healthy" ELSE up /\ "late" \notin fell /\ watched > timeout

\* What a container can be blamed for: it has exited, is unhealthy, or was not
\* healthy in time.
Sick == fell # {} \/ (checked /\ (health = "unhealthy" \/ watched > timeout))

\* A verdict against the image, which marks its digest bad for good, has a cause
\* in the container.  One exception: Docker did not answer an inspect, which "a
\* digest that genuinely fails its health gate" does not speak of, but the code does.
BadMeansSick == outcome = "bad" /\ ~blind => Sick

\* "A long io.pullpilot.health-timeout can't be cut short": while grace and
\* Docker leave a poll of the slack, or of the least budget, opCtx never ends
\* the gate.  (A longer grace can: it is not allowed for in the budget.)
NotCutShort ==
    outcome = "cut" => /\ grace + Overhead + 1 >= Slack
                       /\ grace + Overhead + timeout + 1 >= MinBudget
=============================================================================
