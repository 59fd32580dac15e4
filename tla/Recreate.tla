------------------------------ MODULE Recreate ------------------------------
(***************************************************************************)
(* The recreate protocol of internal/engine/engine.go, one Docker API call *)
(* per step: Run, reconcileOrphans, discover, apply, healthGate, rollback. *)
(* The module follows ONE service.  A container of the service is named    *)
(* after it with some number of "_pp_old" suffixes, so a name is that      *)
(* number: 0 is the service's own name, Gone is no container at all.       *)
(*                                                                         *)
(* Docker is external: a call has the effect and the errors Docker defines *)
(* (CanStop, CanRename...), it may also fail for a reason of its own, or   *)
(* take effect while its answer is lost (Answer).  Which containers are    *)
(* due for an update is UpdateCycle's subject; here it is any subset.      *)
(***************************************************************************)
EXTENDS Integers

CONSTANTS
    Procs,          \* pullpilot processes sharing the Docker socket
    Ids,            \* container ids
    NoId,           \* newID = "" in rollback, and "no plan"
    MaxDepth,       \* bound: a container this deep in suffixes is not updated
    MaxFaults,      \* bound: Docker calls failing for a reason of their own
    MaxCrashes,     \* bound: process crashes and host reboots
    MayLose,        \* whether a failing call may have taken effect all the same
    MayExpire,      \* whether the recreate's deadline may pass
    RestartAlways   \* whether the service has restart policy "always"

ASSUME ProcsAssumption == Procs # {}
ASSUME IdsAssumption   == Ids # {} /\ NoId \notin Ids
ASSUME BoundAssumption == MaxDepth \in Nat /\ MaxFaults \in Nat /\ MaxCrashes \in Nat
ASSUME FlagAssumption  == {MayLose, MayExpire, RestartAlways} \subseteq BOOLEAN

VARIABLES
    \* Docker
    nameOf,     \* [Ids -> suffixes of the container's name, or Gone]
    run,        \* the running containers
    sick,       \* containers that crash or report unhealthy once started
    \* each pullpilot process
    pc,         \* the next Docker call
    snap,       \* reconcileOrphans: the names in the container list
    todo,       \* reconcileOrphans: "_pp_old" containers still to handle
    plans,      \* Run: plans still to apply
    cur,        \* the plan being applied (or the orphan being restored)
    new,        \* apply: created.ID
    expired,    \* apply: opCtx's deadline has passed
    journal,    \* apply: the state call made, "none", "bad" or "applied"
    \* history and environment
    proven,     \* containers that passed the health gate, or ran at first
    wanted,     \* whether the operator keeps the service running
    faults, crashes

docker == <<nameOf, run, sick>>
work   == <<snap, todo, plans, cur, new, expired, journal>>
mind   == <<pc, snap, todo, plans, cur, new, expired, journal>>
env    == <<wanted, faults, crashes>>
vars   == <<docker, mind, proven, env>>

Gone == -1
Live == {c \in Ids : nameOf[c] # Gone}

Plan   == [id : Ids \cup {NoId}, depth : Nat, running : BOOLEAN]
NoPlan == [id |-> NoId, depth |-> 0, running |-> FALSE]
NoSnap == [c \in Ids |-> Gone]

UndoPcs == {"undostop", "undoremove", "restore", "restartold"}
SwapPcs == {"create", "attach", "start", "gate", "commit"}
PCs == {"idle", "reconcile", "heal", "discover", "next", "stop", "rename", "down"}
         \cup SwapPcs \cup UndoPcs

TypeOK ==
    /\ nameOf \in [Ids -> Nat \cup {Gone}]
    /\ run \subseteq Ids /\ sick \subseteq Ids /\ proven \subseteq Ids
    /\ pc \in [Procs -> PCs]
    /\ snap \in [Procs -> [Ids -> Nat \cup {Gone}]]
    /\ todo \in [Procs -> SUBSET Ids]
    /\ plans \in [Procs -> SUBSET Plan]
    /\ cur \in [Procs -> Plan]
    /\ new \in [Procs -> Ids \cup {NoId}]
    /\ expired \in [Procs -> BOOLEAN]
    /\ journal \in [Procs -> {"none", "bad", "applied"}]
    /\ wanted \in BOOLEAN
    /\ faults \in 0..MaxFaults /\ crashes \in 0..MaxCrashes

-----------------------------------------------------------------------------
(* Docker's calls.                                                         *)

\* A call p makes that Docker would accept iff legal, returning an error iff
\* err and taking effect iff hit.  Past opCtx's deadline nothing is sent.
Answer(p, legal, err, hit) ==
    \/ ~err /\ hit /\ legal /\ ~expired[p] /\ UNCHANGED faults
    \/ err /\ ~hit /\ (~legal \/ expired[p]) /\ UNCHANGED faults
    \/ /\ err /\ (hit => legal /\ MayLose) /\ ~expired[p]
       /\ faults < MaxFaults /\ faults' = faults + 1

Exists(c) == c \in Ids /\ nameOf[c] # Gone
Holders(d) == {c \in Ids : nameOf[c] = d}

\* Stopping a stopped container and starting a running one succeed.
CanStop(c)      == Exists(c)
CanStart(c)     == Exists(c)
CanRemove(c)    == Exists(c) /\ c \notin run
CanRename(c, d) == Exists(c) /\ Holders(d) = {}

Stop(c)      == run' = run \ {c} /\ UNCHANGED <<nameOf, sick>>
Remove(c)    == nameOf' = [nameOf EXCEPT ![c] = Gone] /\ UNCHANGED <<run, sick>>
Rename(c, d) == nameOf' = [nameOf EXCEPT ![c] = d] /\ UNCHANGED <<run, sick>>
\* Whether the image turns out sick is settled when the container first runs.
Start(c)     == /\ run' = run \cup {c}
                /\ sick' \in IF c \in proven THEN {sick} ELSE {sick, sick \cup {c}}
                /\ UNCHANGED nameOf
\* An id nobody holds any more stands for the fresh id Docker makes up.
Fresh == {c \in Ids : ~Exists(c) /\ \A p \in Procs :
             /\ c # new[p] /\ c # cur[p].id /\ snap[p][c] = Gone
             /\ \A q \in plans[p] : q.id # c}

Goto(p, where) == pc' = [pc EXCEPT ![p] = where]

-----------------------------------------------------------------------------
(* reconcileOrphans.                                                       *)

\* Slip: the repair never looks for leftovers.
NoOrphans(names) == {}

Orphans(names) == {c \in Ids : names[c] > 0}

\* Run begins: list every container.  When the list fails the function
\* returns at once and the cycle goes on.
StartCycle(p) ==
    /\ pc[p] = "idle"
    /\ \E err, hit \in BOOLEAN : Answer(p, TRUE, err, hit) /\ IF err
         THEN Goto(p, "discover") /\ UNCHANGED <<snap, todo>>
         ELSE /\ Goto(p, "reconcile")
              /\ snap' = [snap EXCEPT ![p] = nameOf]
              /\ todo' = [todo EXCEPT ![p] = Orphans(nameOf)]
    /\ UNCHANGED <<docker, plans, cur, new, expired, journal, proven, wanted, crashes>>

\* Slip: every leftover is taken for superseded.
SupersededAlways(p, c) == TRUE

\* Slip: no leftover is taken for superseded.
SupersededNever(p, c) == FALSE

\* present[orig], in the list taken at the start.
Superseded(p, c) == \E x \in Ids : snap[p][x] = snap[p][c] - 1

RemoveOrphan(p, c) ==
    /\ Superseded(p, c)
    /\ \E err, hit \in BOOLEAN :
         /\ Answer(p, CanRemove(c), err, hit)
         /\ IF hit THEN Remove(c) ELSE UNCHANGED docker
    /\ todo' = [todo EXCEPT ![p] = @ \ {c}]
    /\ UNCHANGED <<pc, cur>>

\* The list entry of a leftover, all the repair needs to start it.
Found(c) == [id |-> c, depth |-> 0, running |-> FALSE]

RestoreOrphan(p, c) ==
    /\ ~Superseded(p, c)
    /\ \E err, hit \in BOOLEAN :
         /\ Answer(p, CanRename(c, snap[p][c] - 1), err, hit)
         /\ IF hit THEN Rename(c, snap[p][c] - 1) ELSE UNCHANGED docker
         /\ IF err
              THEN UNCHANGED <<pc, cur>>
              ELSE Goto(p, "heal") /\ cur' = [cur EXCEPT ![p] = Found(c)]
    /\ todo' = [todo EXCEPT ![p] = @ \ {c}]

Reconcile(p) ==
    /\ pc[p] = "reconcile"
    /\ \E c \in todo[p] : RemoveOrphan(p, c) \/ RestoreOrphan(p, c)
    /\ UNCHANGED <<snap, plans, new, expired, journal, proven, wanted, crashes>>

\* The restored container is started whatever it was before; errors are ignored.
StartRestored(p) ==
    /\ pc[p] = "heal"
    /\ \E err, hit \in BOOLEAN :
         /\ Answer(p, CanStart(cur[p].id), err, hit)
         /\ IF hit THEN Start(cur[p].id) ELSE UNCHANGED docker
    /\ Goto(p, "reconcile")
    /\ cur' = [cur EXCEPT ![p] = NoPlan]
    /\ UNCHANGED <<snap, todo, plans, new, expired, journal, proven, wanted, crashes>>

-----------------------------------------------------------------------------
(* buildPlan and the loop of Run.                                          *)

\* Slip: containers whose inspect failed are not skipped.
PlansForAll(due) == {[id |-> c, depth |-> nameOf[c], running |-> c \in run] : c \in Ids}

\* The containers found due: names and running state as inspected now.
PlansFor(due) == {[id |-> c, depth |-> nameOf[c], running |-> c \in run] : c \in due}

Discover(p) ==
    /\ pc[p] = "discover" \/ (pc[p] = "reconcile" /\ todo[p] = {})
    /\ \E err, hit \in BOOLEAN : Answer(p, TRUE, err, hit) /\ IF err
         THEN Goto(p, "idle") /\ UNCHANGED plans
         ELSE /\ Goto(p, "next")
              /\ \E due \in SUBSET {c \in Live : nameOf[c] < MaxDepth} :
                   plans' = [plans EXCEPT ![p] = PlansFor(due)]
    /\ snap' = [snap EXCEPT ![p] = NoSnap]
    /\ todo' = [todo EXCEPT ![p] = {}]
    /\ journal' = [journal EXCEPT ![p] = "none"]
    /\ UNCHANGED <<docker, cur, new, expired, proven, wanted, crashes>>

EndCycle(p) ==
    /\ pc[p] = "next" /\ plans[p] = {}
    /\ Goto(p, "idle")
    /\ UNCHANGED <<docker, work, proven, env>>

\* buildPlan sorts by order label, then name: the fewest suffixes first.
FirstPlan(p, q) == \A r \in plans[p] : q.depth <= r.depth

\* Slip: the old container is not stopped first.
AfterPullUnstopped(q) == "rename"

\* Only a running container has to be stopped first.
AfterPull(q) == IF q.running THEN "stop" ELSE "rename"

\* apply begins: pull the image before touching the running container.
Pull(p) ==
    /\ pc[p] = "next"
    /\ \E q \in plans[p] :
         /\ FirstPlan(p, q)
         /\ plans' = [plans EXCEPT ![p] = @ \ {q}]
         /\ \E err, hit \in BOOLEAN : Answer(p, TRUE, err, hit) /\ IF err
              THEN UNCHANGED <<pc, cur>>
              ELSE /\ cur' = [cur EXCEPT ![p] = q]
                   /\ Goto(p, AfterPull(q))
    /\ journal' = [journal EXCEPT ![p] = "none"]
    /\ UNCHANGED <<docker, snap, todo, new, expired, proven, wanted, crashes>>

-----------------------------------------------------------------------------
(* The recreate: the rest of apply, and rollback.                          *)

\* Slip: the two names are swapped.
OldNameSwapped(p) == cur[p].depth + 1

OldName(p) == cur[p].depth
TmpName(p) == cur[p].depth + 1

\* apply returns: its plan and its deadline are forgotten.
Return(p) ==
    /\ Goto(p, "next")
    /\ cur' = [cur EXCEPT ![p] = NoPlan]
    /\ new' = [new EXCEPT ![p] = NoId]
    /\ expired' = [expired EXCEPT ![p] = FALSE]

Proceed(p, where) == Goto(p, where) /\ UNCHANGED <<cur, new, expired>>

\* A failed stop or rename makes apply return as it is, with no rollback.
StopOld(p) ==
    /\ pc[p] = "stop"
    /\ \E err, hit \in BOOLEAN :
         /\ Answer(p, CanStop(cur[p].id), err, hit)
         /\ IF hit THEN Stop(cur[p].id) ELSE UNCHANGED docker
         /\ IF err THEN Return(p) ELSE Proceed(p, "rename")
    /\ UNCHANGED <<snap, todo, plans, journal, proven, wanted, crashes>>

RenameOld(p) ==
    /\ pc[p] = "rename"
    /\ \E err, hit \in BOOLEAN :
         /\ Answer(p, CanRename(cur[p].id, TmpName(p)), err, hit)
         /\ IF hit THEN Rename(cur[p].id, TmpName(p)) ELSE UNCHANGED docker
         /\ IF err THEN Return(p) ELSE Proceed(p, "create")
    /\ UNCHANGED <<snap, todo, plans, journal, proven, wanted, crashes>>

\* rollback learns of the replacement only when the answer arrived.
CreateNew(p) ==
    /\ pc[p] = "create"
    /\ \E err, hit \in BOOLEAN, c \in Fresh :
         /\ Answer(p, Holders(OldName(p)) = {}, err, hit)
         /\ IF hit
              THEN /\ nameOf' = [nameOf EXCEPT ![c] = OldName(p)]
                   /\ run' = run \ {c} /\ sick' = sick \ {c} /\ proven' = proven \ {c}
              ELSE UNCHANGED <<docker, proven>>
         /\ IF err
              THEN Goto(p, "restore") /\ UNCHANGED new
              ELSE Goto(p, "attach") /\ new' = [new EXCEPT ![p] = c]
    /\ UNCHANGED <<snap, todo, plans, cur, expired, journal, wanted, crashes>>

\* Slip: the replacement is never started and gated.
AfterAttachUngated(p) == "commit"

\* Only a container that was running is started and gated.
AfterAttach(p) == IF cur[p].running THEN "start" ELSE "commit"

\* The loop over the additional networks, as one call.
AttachNetworks(p) ==
    /\ pc[p] = "attach"
    /\ \E err, hit \in BOOLEAN :
         /\ Answer(p, Exists(new[p]), err, hit)
         /\ Goto(p, IF err THEN "undostop" ELSE AfterAttach(p))
    /\ UNCHANGED <<docker, work, proven, wanted, crashes>>

StartNew(p) ==
    /\ pc[p] = "start"
    /\ \E err, hit \in BOOLEAN :
         /\ Answer(p, CanStart(new[p]), err, hit)
         /\ IF hit THEN Start(new[p]) ELSE UNCHANGED docker
         /\ Goto(p, IF err THEN "undostop" ELSE "gate")
    /\ UNCHANGED <<work, proven, wanted, crashes>>

\* Slip: running is taken for healthy.
WellIfRunning(p) == new[p] \in run

\* What the gate can see: the replacement is up and well.
Well(p) == Exists(new[p]) /\ new[p] \in run /\ new[p] \notin sick

GatePass(p) ==
    /\ pc[p] = "gate" /\ ~expired[p] /\ Well(p)
    /\ proven' = IF new[p] \in run \ sick THEN proven \cup {new[p]} ELSE proven
    /\ Goto(p, "commit")
    /\ UNCHANGED <<docker, work, env>>

\* Slip: the test for a passed deadline is dropped.
BlameAlways(p) == "bad"

\* A verdict marks the digest bad; opCtx's deadline is not a verdict.
Blame(p) == IF expired[p] THEN journal[p] ELSE "bad"

\* Unhealthy, exited, restart-looping, or an inspect that failed for any
\* reason.  A sick container may have exited by itself.
GateFail(p) ==
    /\ pc[p] = "gate"
    /\ \/ (expired[p] \/ ~Well(p)) /\ UNCHANGED faults
       \/ ~expired[p] /\ faults < MaxFaults /\ faults' = faults + 1
    /\ run' \in IF new[p] \in sick THEN {run, run \ {new[p]}} ELSE {run}
    /\ journal' = [journal EXCEPT ![p] = Blame(p)]
    /\ Goto(p, "undostop")
    /\ UNCHANGED <<nameOf, sick, snap, todo, plans, cur, new, expired, proven, wanted, crashes>>

\* Success: remove the old container, by name and ignoring errors, and record.
Commit(p) ==
    /\ pc[p] = "commit"
    /\ \E err, hit \in BOOLEAN :
         /\ Answer(p, \E c \in Holders(TmpName(p)) : CanRemove(c), err, hit)
         /\ IF hit THEN \E c \in Holders(TmpName(p)) : Remove(c) ELSE UNCHANGED docker
    /\ journal' = [journal EXCEPT ![p] = "applied"]
    /\ Return(p)
    /\ UNCHANGED <<snap, todo, plans, proven, wanted, crashes>>

\* rollback: stop and remove the replacement, errors ignored.
UndoStop(p) ==
    /\ pc[p] = "undostop"
    /\ \E err, hit \in BOOLEAN :
         /\ Answer(p, CanStop(new[p]), err, hit)
         /\ IF hit THEN Stop(new[p]) ELSE UNCHANGED docker
    /\ Goto(p, "undoremove")
    /\ UNCHANGED <<work, proven, wanted, crashes>>

UndoRemove(p) ==
    /\ pc[p] = "undoremove"
    /\ \E err, hit \in BOOLEAN :
         /\ Answer(p, CanRemove(new[p]), err, hit)
         /\ IF hit THEN Remove(new[p]) ELSE UNCHANGED docker
    /\ Goto(p, "restore")
    /\ UNCHANGED <<work, proven, wanted, crashes>>

\* rollback: give the old container, found by its temporary name, its name back.
Restore(p) ==
    /\ pc[p] = "restore"
    /\ \E err, hit \in BOOLEAN :
         /\ Answer(p, \E c \in Holders(TmpName(p)) : CanRename(c, OldName(p)), err, hit)
         /\ IF hit THEN \E c \in Holders(TmpName(p)) : Rename(c, OldName(p))
                   ELSE UNCHANGED docker
         /\ IF err \/ ~cur[p].running THEN Return(p) ELSE Proceed(p, "restartold")
    /\ UNCHANGED <<snap, todo, plans, journal, proven, wanted, crashes>>

RestartOld(p) ==
    /\ pc[p] = "restartold"
    /\ \E err, hit \in BOOLEAN :
         /\ Answer(p, CanStart(cur[p].id), err, hit)
         /\ IF hit THEN Start(cur[p].id) ELSE UNCHANGED docker
    /\ Return(p)
    /\ UNCHANGED <<snap, todo, plans, journal, proven, wanted, crashes>>

-----------------------------------------------------------------------------
(* The environment.                                                        *)

\* opCtx's deadline passes while apply runs.
Expire(p) ==
    /\ MayExpire /\ pc[p] \in {"stop", "rename"} \cup SwapPcs \cup UndoPcs
    /\ ~expired[p] /\ expired' = [expired EXCEPT ![p] = TRUE]
    /\ UNCHANGED <<docker, pc, snap, todo, plans, cur, new, journal, proven, env>>

Forget(S) ==
    /\ pc'      = [p \in Procs |-> IF p \in S THEN "down" ELSE pc[p]]
    /\ snap'    = [p \in Procs |-> IF p \in S THEN NoSnap ELSE snap[p]]
    /\ todo'    = [p \in Procs |-> IF p \in S THEN {} ELSE todo[p]]
    /\ plans'   = [p \in Procs |-> IF p \in S THEN {} ELSE plans[p]]
    /\ cur'     = [p \in Procs |-> IF p \in S THEN NoPlan ELSE cur[p]]
    /\ new'     = [p \in Procs |-> IF p \in S THEN NoId ELSE new[p]]
    /\ expired' = [p \in Procs |-> IF p \in S THEN FALSE ELSE expired[p]]
    /\ journal' = [p \in Procs |-> IF p \in S THEN "none" ELSE journal[p]]

\* The process dies between two calls: a kill, a power cut with a restart
\* policy that keeps containers as they were, or serve's 30 s shutdown limit.
Crash(p) ==
    /\ pc[p] # "down" /\ crashes < MaxCrashes
    /\ crashes' = crashes + 1
    /\ Forget({p})
    /\ UNCHANGED <<docker, proven, wanted, faults>>

\* A host reboot under restart policy "always": Docker starts the service's
\* containers again, also the ones that were stopped.
Reboot ==
    /\ RestartAlways /\ crashes < MaxCrashes
    /\ crashes' = crashes + 1
    /\ run' \in {S \in SUBSET Live : run \cap Live \subseteq S}
    /\ Forget(Procs)
    /\ UNCHANGED <<nameOf, sick, proven, wanted, faults>>

\* Docker restarts pullpilot, whose first cycle runs at once.
Restart(p) ==
    /\ pc[p] = "down"
    /\ Goto(p, "idle")
    /\ UNCHANGED <<docker, work, proven, env>>

-----------------------------------------------------------------------------
Init ==
    \E c \in Ids :
      /\ nameOf = [x \in Ids |-> IF x = c THEN 0 ELSE Gone]
      /\ wanted \in BOOLEAN
      /\ run = IF wanted THEN {c} ELSE {}
      /\ sick = {} /\ proven = {c}
      /\ pc = [p \in Procs |-> "idle"]
      /\ snap = [p \in Procs |-> NoSnap]
      /\ todo = [p \in Procs |-> {}] /\ plans = [p \in Procs |-> {}]
      /\ cur = [p \in Procs |-> NoPlan] /\ new = [p \in Procs |-> NoId]
      /\ expired = [p \in Procs |-> FALSE] /\ journal = [p \in Procs |-> "none"]
      /\ faults = 0 /\ crashes = 0

\* One step of a cycle.
Cycle(p) ==
    \/ StartCycle(p) \/ Reconcile(p) \/ StartRestored(p)
    \/ Discover(p) \/ EndCycle(p) \/ Pull(p)
    \/ StopOld(p) \/ RenameOld(p) \/ CreateNew(p) \/ AttachNetworks(p) \/ StartNew(p)
    \/ GatePass(p) \/ GateFail(p) \/ Commit(p)
    \/ UndoStop(p) \/ UndoRemove(p) \/ Restore(p) \/ RestartOld(p)

Next ==
    \/ \E p \in Procs : Cycle(p) \/ Expire(p) \/ Crash(p) \/ Restart(p)
    \/ Reboot

Spec == Init /\ [][Next]_vars

\* The schedule keeps starting cycles, a cycle runs to its end, and Docker
\* restarts the daemon (restart: unless-stopped).
Fairness == \A p \in Procs : WF_vars(Cycle(p)) /\ WF_vars(Restart(p))

FairSpec == Spec /\ Fairness

\* What serve's mutex makes true of one daemon on its own.
SingleFlight == \A p, q \in Procs : p = q

-----------------------------------------------------------------------------
(* Properties.                                                             *)

\* Whatever fails, and wherever a process dies, some container of the service
\* still exists: apply, rollback and reconcileOrphans never delete the last.
NeverLost == Live # {}

\* While the service is meant to run, a container that has proved itself still
\* exists: until a replacement passes its gate the one it replaces is kept.
ProvenKept == wanted => \E c \in Live : c \in proven

\* Nothing goes wrong but the update itself: no call has failed, no process has
\* died, and no deadline passes.
Calm == faults = 0 /\ crashes = 0 /\ ~MayExpire

\* In calm that holds all along.  (A create whose answer is lost can break it as
\* a crash can: rollback cannot give the old container its name back, and the next
\* repair takes it for superseded.  A deadline can, too: it leaves the container
\* stopped, and a stopped one is replaced without a gate.)
ProvenKeptInCalm == Calm => ProvenKept

\* The old and the new container of a service never run at the same time (they
\* would share volumes and ports), wherever the process dies and whatever deadline
\* passes.  (A leftover the repair failed to list is taken for a container to update;
\* interrupted in that, the repair "restores" it, and starts it, beside its
\* replacement.  Under restart policy "always" a reboot starts both.)
OneAtATime == faults = 0 /\ ~RestartAlways => \A c, d \in run \cap Live : c = d

\* A digest is marked bad only when the replacement really was unhealthy,
\* exited or restart-looping: neither a deadline nor a crash is a verdict.  (A
\* failing inspect is one to the code, hence the condition.)
BadOnlyIfSick ==
    faults = 0 => \A p \in Procs : journal[p] = "bad" /\ new[p] # NoId => new[p] \in sick

\* The service is as its operator wants it: one container, under the
\* service's own name, stopped if it was stopped, else running and proven.
InService ==
    \E c \in Ids : /\ Live = {c} /\ nameOf[c] = 0
                   /\ c \in run <=> wanted
                   /\ wanted => c \in proven

Resting(p) == pc[p] \in {"idle", "next"}

\* In calm every cycle leaves the service in service between updates, the failed
\* ones included.
AllOrNothing == Calm => \A p \in Procs : Resting(p) => InService

\* While a replacement is being put in place the service stands on the old
\* container, at all other times on the only one there is.
Swapping(p) == pc[p] \in SwapPcs \cup UndoPcs
Keeper == IF \E p \in Procs : Swapping(p)
          THEN cur[CHOOSE p \in Procs : Swapping(p)].id
          ELSE CHOOSE c \in Ids : Live = {c}

Promise == INSTANCE ServiceUpdate
             WITH alive <- Live, keeper <- Keeper, trusted <- proven

\* In calm every step of the recreate protocol is a step ServiceUpdate allows, or
\* none: the old container is given up only for one that passed its gate.
KeepsPromise == Promise!Init /\ [][Calm' => Promise!Next]_(Promise!vars)

\* A failed update never leaves a service down that was up: apply's comment
\* promises the prior container back on failure.
NoDowntimeLeft == (wanted /\ crashes = 0) => \A p \in Procs : Resting(p) => run # {}

\* Interrupted updates are repaired: again and again the service's own name
\* is held by a container, whatever crash or failed call took it away.
NameComesBack == []<>(\E c \in Ids : nameOf[c] = 0)

\* "Interrupted before the replacement existed: restore the original": a service whose
\* update was interrupted with nobody under its name is up again, if the repair is
\* spared.  (A crash between stop and rename leaves it stopped under its own name, and
\* the repair looks for leftovers only; so does one between the repair's own rename
\* and start, or rollback's.)
Stranded == wanted /\ (\A p \in Procs : pc[p] = "down") /\ Holders(0) = {}
ServedAgain == Stranded ~> (run # {} \/ faults > 0 \/ crashes > 1)

\* Leftover "_pp_old" containers do not pile up: again and again there is none.
OrphansCleared == []<>(\A c \in Ids : nameOf[c] <= 0)
=============================================================================
