------------------------------ MODULE CalmProofs ------------------------------
(***************************************************************************)
(* Theorems about Recreate in calm: one process, no failing call, no crash *)
(* and no deadline, and any number of sick images.  Recreate implements    *)
(* ServiceUpdate, and every cycle ends with the service in service.  With  *)
(* crashes and deadlines, but no failing call, no two of its containers    *)
(* ever run at once.                                                       *)
(***************************************************************************)
EXTENDS RecreateProofs

-----------------------------------------------------------------------------
(* What the service looks like at each point of a cycle.                   *)

AtRest    == {"idle", "reconcile", "discover", "next"}
PairedPcs == {"attach", "start", "gate", "commit", "undostop", "undoremove"}

\* The service is one container under its own name, or under its temporary
\* one; or the old container stands aside and the replacement has the name.
Alone(c)     == Live = {c} /\ nameOf[c] = 0
Aside(c)     == Live = {c} /\ nameOf[c] = 1 /\ c \notin run
Paired(c, n) == /\ n \in Ids /\ n # c /\ Live = {c, n}
                /\ nameOf[c] = 1 /\ nameOf[n] = 0 /\ c \notin run

\* q is a plan to update container c.
IsFor(q, c) == q.id = c /\ q.depth = 0 /\ (q.running <=> wanted)

\* Where c is the container the service stands on.
Names(p, c) ==
    /\ pc[p] \in AtRest \cup {"stop"} => Alone(c) /\ (c \in run <=> wanted)
    /\ pc[p] \in {"rename", "restartold"} => Alone(c) /\ c \notin run
    /\ pc[p] \in {"create", "restore"} => Aside(c)
    /\ pc[p] \in PairedPcs => Paired(c, new[p])

\* What a replacement has gone through.
Stage(p) ==
    /\ pc[p] \in {"attach", "start", "undoremove"} => new[p] \notin run
    /\ pc[p] \in {"stop", "start", "gate"} \cup UndoPcs => wanted
    /\ pc[p] = "commit" => (new[p] \in run <=> wanted) /\ (wanted => new[p] \in proven)

\* What the process has in mind.
Mind(p, c) ==
    /\ ~expired[p] /\ pc[p] \notin {"heal", "down"}
    /\ pc[p] = "reconcile" => todo[p] = {}
    /\ pc[p] # "next" => plans[p] = {}
    /\ \A q \in plans[p] : IsFor(q, c)
    /\ \A q, r \in plans[p] : q = r
    /\ pc[p] \notin AtRest => IsFor(cur[p], c)

Shape(p, c) == c \in Live /\ (wanted => c \in proven) /\ Names(p, c) /\ Stage(p) /\ Mind(p, c)

\* What may happen to the service while it passes from c to d.
Frame   == Live' = Live /\ proven' = proven
Brings(c) == \E n \in Ids \ {c} : Live = {c} /\ Live' = Live \cup {n} /\ proven' = proven \ {n}
Vouches(c) == \E n \in Live \ {c} : Live' = Live /\ proven' = proven \cup {n}
Discards(c) == \E n \in Live \ {c} : Live' = Live \ {n} /\ proven' = proven
TakesOver(c, d) == d \in Live \ {c} /\ (wanted => d \in proven) /\ Live' = Live \ {c} /\ proven' = proven

Allowed(c, d) ==
    /\ wanted' = wanted
    /\ \/ d = c /\ (Frame \/ Brings(c) \/ Vouches(c) \/ Discards(c))
       \/ TakesOver(c, d)

\* In calm Docker does what it is asked.
LEMMA CalmAnswer ==
  ASSUME Typed, faults' = 0, NEW p \in Procs, ~expired[p], NEW legal, legal,
         NEW err \in BOOLEAN, NEW hit \in BOOLEAN, Answer(p, legal, err, hit)
  PROVE  ~err /\ hit
BY BoundAssumption DEF Answer, Typed, TypeOK

\* A step counts at most one failing call and at most one crash.
LEMMA CountsGrow ==
  ASSUME [Next]_vars
  PROVE  faults' \in {faults, faults + 1} /\ crashes' \in {crashes, crashes + 1}
<1>1. \A p, legal, err, hit : Answer(p, legal, err, hit) => faults' \in {faults, faults + 1}
  BY DEF Answer
<1>2. faults' \in {faults, faults + 1}
  <2>1. ASSUME NEW p \in Procs, Cycle(p) PROVE faults' \in {faults, faults + 1}
    <3>1. CASE StartCycle(p) \/ StartRestored(p) \/ Discover(p) \/ EndCycle(p) \/ Pull(p)
      BY <1>1, <3>1 DEF StartCycle, StartRestored, Discover, EndCycle, Pull, env
    <3>2. CASE Reconcile(p)
      BY <1>1, <3>2 DEF Reconcile, RemoveOrphan, RestoreOrphan
    <3>3. CASE StopOld(p) \/ RenameOld(p) \/ CreateNew(p) \/ AttachNetworks(p) \/ StartNew(p)
      BY <1>1, <3>3 DEF StopOld, RenameOld, CreateNew, AttachNetworks, StartNew
    <3>4. CASE GatePass(p) \/ GateFail(p) \/ Commit(p)
      BY <1>1, <3>4 DEF GatePass, GateFail, Commit, env
    <3>5. CASE UndoStop(p) \/ UndoRemove(p) \/ Restore(p) \/ RestartOld(p)
      BY <1>1, <3>5 DEF UndoStop, UndoRemove, Restore, RestartOld
    <3> QED BY <2>1, <3>1, <3>2, <3>3, <3>4, <3>5 DEF Cycle
  <2>2. ASSUME NEW p \in Procs, Expire(p) \/ Crash(p) \/ Restart(p) PROVE faults' = faults
    BY <2>2 DEF Expire, Crash, Restart, env
  <2>3. Reboot => faults' = faults
    BY DEF Reboot
  <2>4. UNCHANGED vars => faults' = faults
    BY DEF vars, env
  <2> QED BY <2>1, <2>2, <2>3, <2>4 DEF Next
<1>3. crashes' \in {crashes, crashes + 1}
  <2>1. ASSUME NEW p \in Procs, Cycle(p) PROVE crashes' = crashes
    <3>1. CASE StartCycle(p) \/ Reconcile(p) \/ StartRestored(p) \/ Discover(p) \/ EndCycle(p) \/ Pull(p)
      BY <3>1 DEF StartCycle, Reconcile, StartRestored, Discover, EndCycle, Pull, env
    <3>2. CASE StopOld(p) \/ RenameOld(p) \/ CreateNew(p) \/ AttachNetworks(p) \/ StartNew(p)
      BY <3>2 DEF StopOld, RenameOld, CreateNew, AttachNetworks, StartNew
    <3>3. CASE GatePass(p) \/ GateFail(p) \/ Commit(p)
      BY <3>3 DEF GatePass, GateFail, Commit, env
    <3>4. CASE UndoStop(p) \/ UndoRemove(p) \/ Restore(p) \/ RestartOld(p)
      BY <3>4 DEF UndoStop, UndoRemove, Restore, RestartOld
    <3> QED BY <2>1, <3>1, <3>2, <3>3, <3>4 DEF Cycle
  <2>2. ASSUME NEW p \in Procs, Expire(p) \/ Crash(p) \/ Restart(p)
        PROVE  crashes' \in {crashes, crashes + 1}
    BY <2>2 DEF Expire, Crash, Restart, env
  <2>3. Reboot => crashes' = crashes + 1
    BY DEF Reboot
  <2>4. UNCHANGED vars => crashes' = crashes
    BY DEF vars, env
  <2> QED BY <2>1, <2>2, <2>3, <2>4 DEF Next
<1> QED BY <1>2, <1>3

\* What has not gone wrong after a step had not gone wrong before it.
LEMMA CalmBefore ==
  ASSUME Typed, [Next]_vars
  PROVE  (faults' = 0 => faults = 0) /\ (Calm' => Calm)
BY CountsGrow, BoundAssumption DEF Calm, Typed, TypeOK

-----------------------------------------------------------------------------
(* Each step keeps the shape, and the service what it stands on.           *)

LEMMA CycleBegins ==
  ASSUME Typed, faults' = 0, NEW p \in Procs, NEW c, Shape(p, c),
         StartCycle(p) \/ Discover(p) \/ EndCycle(p) \/ Pull(p)
  PROVE  Shape(p, c)' /\ Allowed(c, c)
<1> USE DEF Shape, Mind, AtRest
<1>0. TypeOK /\ c \in Ids BY DEF Typed, Live
<1>1. UNCHANGED <<docker, new, cur, expired, proven, wanted>>
      \/ (Pull(p) /\ UNCHANGED <<docker, new, expired, proven, wanted>>)
  BY DEF StartCycle, Discover, EndCycle, Pull, env, work
<1>2. UNCHANGED <<nameOf, run, new, expired, proven, wanted>>
  BY <1>1 DEF docker
<1>3. Live' = Live /\ Allowed(c, c)
  BY <1>2 DEF Live, Allowed, Frame
<1>4. pc[p] \in AtRest /\ Alone(c) /\ (c \in run <=> wanted)
  BY DEF StartCycle, Discover, EndCycle, Pull, Names
<1>5. Alone(c)' /\ (c \in run <=> wanted)' /\ c \in Live' /\ (wanted => c \in proven)'
  BY <1>2, <1>3, <1>4 DEF Alone
<1>6. ~expired'[p]
  BY <1>2
<1>7. ASSUME pc'[p] \in AtRest PROVE Names(p, c)' /\ Stage(p)'
  BY <1>5, <1>7 DEF Names, Stage, PairedPcs, UndoPcs
<1>8. CASE StartCycle(p)
  <2>1. Orphans(nameOf) = {}
    BY <1>0, <1>4 DEF Orphans, Alone, Live, Gone, TypeOK
  <2>2. pc' = [pc EXCEPT ![p] = "reconcile"] /\ todo' = [todo EXCEPT ![p] = Orphans(nameOf)]
    BY <1>8, CalmAnswer DEF StartCycle, Goto
  <2>3. pc'[p] = "reconcile" /\ todo'[p] = {} /\ plans' = plans /\ plans[p] = {}
    BY <1>0, <1>8, <2>1, <2>2 DEF StartCycle, TypeOK
  <2> QED BY <1>3, <1>5, <1>6, <1>7, <2>3
<1>9. CASE Discover(p)
  <2>1. PICK due \in SUBSET {x \in Live : nameOf[x] < MaxDepth} :
           pc' = [pc EXCEPT ![p] = "next"] /\ plans' = [plans EXCEPT ![p] = PlansFor(due)]
    BY <1>9, CalmAnswer DEF Discover, Goto
  <2>2. pc'[p] = "next" /\ plans'[p] = PlansFor(due)
    BY <1>0, <2>1 DEF TypeOK
  <2>3. due \subseteq {c}
    BY <1>4 DEF Alone
  <2>4. \A q, r \in PlansFor(due) : q = r
    BY <2>3 DEF PlansFor
  <2>5. ASSUME NEW q \in PlansFor(due) PROVE IsFor(q, c)
    <3>1. q = [id |-> c, depth |-> nameOf[c], running |-> c \in run]
      BY <2>3 DEF PlansFor
    <3>2. q.id = c /\ q.depth = 0
      BY <1>4, <3>1 DEF Alone
    <3>3. q.running <=> c \in run
      BY <3>1
    <3> QED BY <1>4, <3>2, <3>3 DEF IsFor
  <2>6. \A q \in plans'[p] : IsFor(q, c)'
    BY <1>2, <2>2, <2>5 DEF IsFor
  <2> QED BY <1>3, <1>5, <1>6, <1>7, <2>2, <2>4, <2>6
<1>10. CASE EndCycle(p)
  <2>1. pc'[p] = "idle" /\ plans' = plans /\ plans[p] = {}
    BY <1>0, <1>10 DEF EndCycle, Goto, work, TypeOK
  <2> QED BY <1>3, <1>5, <1>6, <1>7, <2>1
<1>11. CASE Pull(p)
  <2>1. PICK q \in plans[p], err \in BOOLEAN, hit \in BOOLEAN :
           /\ plans' = [plans EXCEPT ![p] = @ \ {q}]
           /\ Answer(p, TRUE, err, hit)
           /\ IF err THEN UNCHANGED <<pc, cur>>
                ELSE cur' = [cur EXCEPT ![p] = q] /\ pc' = [pc EXCEPT ![p] = AfterPull(q)]
    BY <1>11 DEF Pull, Goto
  <2>2. ~err
    BY <2>1, CalmAnswer
  <2>3. plans'[p] = plans[p] \ {q} /\ cur'[p] = q /\ pc'[p] = AfterPull(q)
    BY <1>0, <2>1, <2>2 DEF TypeOK
  <2>4. IsFor(q, c) /\ IsFor(cur[p], c)'
    BY <1>2, <2>3 DEF IsFor
  <2>5. plans'[p] = {}
    BY <2>3
  <2>6. pc'[p] = IF wanted THEN "stop" ELSE "rename"
    BY <2>3, <2>4 DEF AfterPull, IsFor
  <2>7. Names(p, c)' /\ Stage(p)'
    <3>1. CASE wanted
      BY <1>2, <1>5, <2>6, <3>1 DEF Names, Stage, PairedPcs, UndoPcs
    <3>2. CASE ~wanted
      BY <1>2, <1>4, <1>5, <2>6, <3>2 DEF Names, Stage, PairedPcs, UndoPcs
    <3> QED BY <3>1, <3>2
  <2>8. Mind(p, c)'
    BY <1>6, <2>4, <2>5, <2>6
  <2> QED BY <1>3, <1>5, <2>7, <2>8
<1> QED BY <1>8, <1>9, <1>10, <1>11

\* What becomes of the containers when one is renamed, made or removed.
LEMMA LiveAfter ==
  ASSUME TypeOK, NEW x \in Ids, NEW d \in Nat \cup {Gone}, nameOf' = [nameOf EXCEPT ![x] = d]
  PROVE  /\ d # Gone => Live' = Live \cup {x}
         /\ d = Gone => Live' = Live \ {x}
         /\ nameOf'[x] = d /\ \A y \in Ids \ {x} : nameOf'[y] = nameOf[y]
BY DEF Live, TypeOK

\* In the middle of a recreate the process keeps to its plan.
LEMMA MindKept ==
  ASSUME NEW p \in Procs, NEW c, Mind(p, c), pc[p] \notin AtRest,
         pc'[p] \notin AtRest \cup {"heal", "down"},
         plans' = plans, cur' = cur, expired' = expired, wanted' = wanted
  PROVE  Mind(p, c)'
BY DEF Mind, IsFor, AtRest

\* When a recreate ends the process has nothing left in mind.
LEMMA MindCleared ==
  ASSUME NEW p \in Procs, NEW c, NEW d, Mind(p, c), TypeOK, pc[p] # "next", Return(p), plans' = plans
  PROVE  Mind(p, d)' /\ pc'[p] = "next"
BY DEF Mind, Return, Goto, AtRest, TypeOK

LEMMA OldSteps ==
  ASSUME Typed, faults' = 0, NEW p \in Procs, NEW c, Shape(p, c),
         StopOld(p) \/ RenameOld(p)
  PROVE  Shape(p, c)' /\ Allowed(c, c)
<1> USE DEF AtRest
<1>0. TypeOK /\ c \in Ids /\ Mind(p, c) /\ Names(p, c) /\ (wanted => c \in proven) /\ Stage(p)
  BY DEF Typed, Live, Shape
<1>1. plans' = plans /\ proven' = proven /\ wanted' = wanted /\ ~expired[p]
  BY <1>0 DEF StopOld, RenameOld, Mind
<1>2. cur[p].id = c /\ TmpName(p) = 1 /\ Live = {c} /\ nameOf[c] = 0
  BY <1>0 DEF StopOld, RenameOld, Mind, IsFor, TmpName, Names, Alone
<1>3. CASE StopOld(p)
  <2>1. CanStop(cur[p].id)
    BY <1>0, <1>2 DEF CanStop, Exists, Gone
  <2>2. Stop(c) /\ Proceed(p, "rename") /\ pc[p] = "stop"
    BY <1>1, <1>2, <1>3, <2>1, CalmAnswer DEF StopOld
  <2>3. pc'[p] = "rename" /\ nameOf' = nameOf /\ run' = run \ {c} /\ cur' = cur /\ expired' = expired
    BY <1>0, <2>2 DEF Stop, Proceed, Goto, TypeOK
  <2>4. Live' = Live /\ Alone(c)'
    BY <1>2, <2>3 DEF Live, Alone
  <2>5. Names(p, c)' /\ Stage(p)'
    BY <2>3, <2>4 DEF Names, Stage, PairedPcs, UndoPcs
  <2>6. Mind(p, c)'
    BY <1>0, <1>1, <2>2, <2>3, MindKept
  <2> QED BY <1>0, <1>1, <1>2, <2>4, <2>5, <2>6 DEF Shape, Allowed, Frame
<1>4. CASE RenameOld(p)
  <2>1. CanRename(cur[p].id, TmpName(p))
    BY <1>0, <1>2 DEF CanRename, Exists, Holders, Live, Gone
  <2>2. Rename(c, 1) /\ Proceed(p, "create") /\ pc[p] = "rename"
    BY <1>1, <1>2, <1>4, <2>1, CalmAnswer DEF RenameOld
  <2>3. pc'[p] = "create" /\ run' = run /\ cur' = cur /\ expired' = expired
    BY <1>0, <2>2 DEF Rename, Proceed, Goto, TypeOK
  <2>4. Live' = Live /\ nameOf'[c] = 1
    <3>1. nameOf' = [nameOf EXCEPT ![c] = 1]
      BY <2>2 DEF Rename
    <3>2. 1 \in Nat \cup {Gone} /\ 1 # Gone
      BY DEF Gone
    <3>3. Live' = Live \cup {c} /\ nameOf'[c] = 1
      BY <1>0, <3>1, <3>2, LiveAfter, Zenon
    <3> QED BY <1>2, <3>3
  <2>5. c \notin run
    BY <1>0, <2>2 DEF Names
  <2>6. Names(p, c)' /\ Stage(p)'
    BY <1>2, <2>3, <2>4, <2>5 DEF Names, Stage, Aside, PairedPcs, UndoPcs
  <2>7. Mind(p, c)'
    BY <1>0, <1>1, <2>2, <2>3, MindKept
  <2> QED BY <1>0, <1>1, <1>2, <2>4, <2>6, <2>7 DEF Shape, Allowed, Frame
<1> QED BY <1>3, <1>4

LEMMA NewSteps ==
  ASSUME Typed, faults' = 0, NEW p \in Procs, NEW c, Shape(p, c),
         CreateNew(p) \/ AttachNetworks(p) \/ StartNew(p)
  PROVE  Shape(p, c)' /\ Allowed(c, c)
<1> USE DEF AtRest, PairedPcs
<1>0. TypeOK /\ c \in Ids /\ Mind(p, c) /\ Names(p, c) /\ (wanted => c \in proven) /\ Stage(p)
  BY DEF Typed, Live, Shape
<1>1. plans' = plans /\ wanted' = wanted /\ ~expired[p] /\ cur' = cur /\ expired' = expired
  BY <1>0 DEF CreateNew, AttachNetworks, StartNew, Mind, work
<1>2. cur[p].id = c /\ OldName(p) = 0 /\ (cur[p].running <=> wanted)
  BY <1>0 DEF CreateNew, AttachNetworks, StartNew, Mind, IsFor, OldName
<1>3. CASE CreateNew(p)
  <2>1. PICK err \in BOOLEAN, hit \in BOOLEAN, n \in Fresh :
           /\ Answer(p, Holders(OldName(p)) = {}, err, hit)
           /\ hit => /\ nameOf' = [nameOf EXCEPT ![n] = OldName(p)]
                     /\ run' = run \ {n} /\ proven' = proven \ {n}
           /\ ~err => Goto(p, "attach") /\ new' = [new EXCEPT ![p] = n]
    BY <1>3 DEF CreateNew
  <2>2. pc[p] = "create" /\ Aside(c)
    BY <1>0, <1>3 DEF CreateNew, Names
  <2>3. Holders(OldName(p)) = {}
    BY <1>0, <1>2, <2>2 DEF Holders, Aside, Live, Gone
  <2>4. ~err /\ hit
    <3>1. Answer(p, TRUE, err, hit)
      BY <2>1, <2>3, Zenon
    <3> QED BY <1>1, <3>1, CalmAnswer
  <2>5. n \in Ids /\ n # c /\ n \notin Live
    BY <2>2 DEF Fresh, Exists, Live, Aside
  <2>6. pc'[p] = "attach" /\ new'[p] = n /\ run' = run \ {n} /\ proven' = proven \ {n}
    BY <1>0, <2>1, <2>4 DEF Goto, TypeOK
  <2>7. nameOf'[n] = 0 /\ nameOf'[c] = 1 /\ Live' = {c, n} /\ Live = {c}
    BY <1>0, <1>2, <2>1, <2>2, <2>4, <2>5, LiveAfter DEF Aside, Gone
  <2>8. Paired(c, new[p])'
    BY <2>2, <2>5, <2>6, <2>7 DEF Paired, Aside
  <2>9. Names(p, c)' /\ Stage(p)'
    BY <2>6, <2>8 DEF Names, Stage, UndoPcs
  <2>10. Mind(p, c)'
    BY <1>0, <1>1, <2>2, <2>6, MindKept
  <2>11. Brings(c)
    BY <2>5, <2>6, <2>7 DEF Brings
  <2> QED BY <1>0, <1>1, <2>5, <2>6, <2>7, <2>9, <2>10, <2>11 DEF Shape, Allowed
<1>4. ASSUME AttachNetworks(p) \/ StartNew(p)
      PROVE  /\ Paired(c, new[p]) /\ new[p] \in Live /\ new' = new /\ proven' = proven
             /\ Exists(new[p])
  BY <1>0, <1>4 DEF AttachNetworks, StartNew, Names, Paired, work, Exists, Gone
<1>5. CASE AttachNetworks(p)
  <2>1. pc[p] = "attach" /\ Goto(p, AfterAttach(p)) /\ UNCHANGED docker
    BY <1>1, <1>4, <1>5, CalmAnswer DEF AttachNetworks
  <2>2. pc'[p] = (IF wanted THEN "start" ELSE "commit") /\ UNCHANGED <<nameOf, run>>
    BY <1>0, <1>2, <2>1 DEF AfterAttach, Goto, TypeOK, docker
  <2>3. Live' = Live /\ Paired(c, new[p])'
    BY <1>4, <1>5, <2>2 DEF Live, Paired
  <2>4. new[p] \notin run
    BY <1>0, <2>1 DEF Stage
  <2>5. Names(p, c)' /\ Stage(p)'
    <3>1. CASE wanted
      BY <1>1, <1>4, <1>5, <2>2, <2>3, <2>4, <3>1 DEF Names, Stage, UndoPcs
    <3>2. CASE ~wanted
      BY <1>1, <1>4, <1>5, <2>2, <2>3, <2>4, <3>2 DEF Names, Stage, UndoPcs
    <3> QED BY <3>1, <3>2
  <2>6. Mind(p, c)'
    BY <1>0, <1>1, <2>1, <2>2, MindKept
  <2> QED BY <1>0, <1>1, <1>4, <1>5, <2>3, <2>5, <2>6 DEF Shape, Allowed, Frame, Paired
<1>6. CASE StartNew(p)
  <2>1. pc[p] = "start" /\ Goto(p, "gate") /\ Start(new[p])
    BY <1>1, <1>4, <1>6, CalmAnswer DEF StartNew, CanStart
  <2>2. pc'[p] = "gate" /\ nameOf' = nameOf /\ run' = run \cup {new[p]}
    BY <1>0, <2>1 DEF Start, Goto, TypeOK
  <2>3. Live' = Live /\ Paired(c, new[p])'
    BY <1>4, <1>6, <2>2 DEF Live, Paired
  <2>4. Names(p, c)' /\ Stage(p)'
    BY <1>0, <1>1, <2>1, <2>2, <2>3 DEF Names, Stage, UndoPcs
  <2>5. Mind(p, c)'
    BY <1>0, <1>1, <2>1, <2>2, MindKept
  <2> QED BY <1>0, <1>1, <1>4, <1>6, <2>3, <2>4, <2>5 DEF Shape, Allowed, Frame, Paired
<1> QED BY <1>3, <1>5, <1>6

LEMMA GateSteps ==
  ASSUME Typed, NEW p \in Procs, NEW c, Shape(p, c), GatePass(p) \/ GateFail(p)
  PROVE  Shape(p, c)' /\ Allowed(c, c)
<1> USE DEF AtRest, PairedPcs
<1>0. TypeOK /\ c \in Ids /\ Mind(p, c) /\ Names(p, c) /\ (wanted => c \in proven) /\ Stage(p)
  BY DEF Typed, Live, Shape
<1>1. /\ pc[p] = "gate" /\ nameOf' = nameOf /\ plans' = plans /\ wanted' = wanted
      /\ cur' = cur /\ expired' = expired /\ new' = new
  BY DEF GatePass, GateFail, docker, work, env
<1>2. Paired(c, new[p]) /\ wanted /\ new[p] \in Live
  BY <1>0, <1>1 DEF Names, Stage, Paired
<1>3. c \notin run'
  BY <1>2 DEF GatePass, GateFail, docker, Paired
<1>4. Live' = Live /\ Paired(c, new[p])'
  BY <1>1, <1>2, <1>3 DEF Live, Paired
<1>5. CASE GatePass(p)
  <2>1. pc'[p] = "commit" /\ new[p] \in run' /\ proven' = proven \cup {new[p]}
    BY <1>0, <1>5 DEF GatePass, Goto, Well, docker, TypeOK
  <2>2. Names(p, c)' /\ Stage(p)'
    BY <1>1, <1>2, <1>4, <2>1 DEF Names, Stage, UndoPcs
  <2>3. Mind(p, c)'
    BY <1>0, <1>1, <2>1, MindKept
  <2>4. Vouches(c)
    BY <1>2, <1>4, <2>1 DEF Vouches, Paired
  <2> QED BY <1>0, <1>1, <1>4, <2>1, <2>2, <2>3, <2>4 DEF Shape, Allowed, Paired
<1>6. CASE GateFail(p)
  <2>1. pc'[p] = "undostop" /\ proven' = proven
    BY <1>0, <1>6 DEF GateFail, Goto, TypeOK
  <2>2. Names(p, c)' /\ Stage(p)'
    BY <1>1, <1>2, <1>4, <2>1 DEF Names, Stage, UndoPcs
  <2>3. Mind(p, c)'
    BY <1>0, <1>1, <2>1, MindKept
  <2> QED BY <1>0, <1>1, <1>4, <2>1, <2>2, <2>3 DEF Shape, Allowed, Frame, Paired
<1> QED BY <1>5, <1>6

\* The update has passed: the service stands on the replacement.
LEMMA CommitStep ==
  ASSUME Typed, faults' = 0, NEW p \in Procs, NEW c, Shape(p, c), Commit(p)
  PROVE  \E d : Shape(p, d)' /\ Allowed(c, d)
<1> USE DEF AtRest, PairedPcs
<1> DEFINE n == new[p]
<1>0. TypeOK /\ c \in Ids /\ Mind(p, c) /\ Names(p, c) /\ Stage(p)
  BY DEF Typed, Live, Shape
<1>1. pc[p] = "commit" /\ plans' = plans /\ wanted' = wanted /\ proven' = proven /\ Return(p)
  BY DEF Commit
<1>2. Paired(c, n) /\ (n \in run <=> wanted) /\ (wanted => n \in proven)
  BY <1>0, <1>1 DEF Names, Stage
<1>3. Holders(TmpName(p)) = {c} /\ CanRemove(c)
  <2>1. TmpName(p) = 1
    BY <1>0, <1>1 DEF Mind, IsFor, TmpName
  <2>2. Holders(1) = {c}
    BY <1>0, <1>2 DEF Holders, Paired, Live, Gone
  <2>3. CanRemove(c)
    BY <1>0, <1>2 DEF CanRemove, Exists, Paired, Gone
  <2> QED BY <2>1, <2>2, <2>3
<1>4. Remove(c)
  <2>1. PICK err \in BOOLEAN, hit \in BOOLEAN :
           /\ Answer(p, \E x \in Holders(TmpName(p)) : CanRemove(x), err, hit)
           /\ hit => \E x \in Holders(TmpName(p)) : Remove(x)
    BY DEF Commit
  <2>2. Answer(p, TRUE, err, hit)
    BY <1>3, <2>1 DEF Answer
  <2>3. hit
    BY <1>0, <2>2, CalmAnswer DEF Mind
  <2> QED BY <1>3, <2>1, <2>3
<1>5. nameOf' = [nameOf EXCEPT ![c] = Gone] /\ run' = run
  BY <1>4 DEF Remove
<1>6. Live' = Live \ {c} /\ nameOf'[n] = nameOf[n]
  BY <1>0, <1>2, <1>5, LiveAfter DEF Paired
<1>7. Live' = {n} /\ nameOf'[n] = 0 /\ n \in Live \ {c}
  BY <1>2, <1>6 DEF Paired
<1>8. pc'[p] = "next" /\ \A d : Mind(p, d)'
  BY <1>0, <1>1, MindCleared
<1>9. ASSUME NEW d, d = n PROVE Shape(p, d)'
  BY <1>1, <1>2, <1>5, <1>7, <1>8, <1>9 DEF Shape, Names, Stage, Alone, UndoPcs
<1>10. Allowed(c, n)
  BY <1>1, <1>2, <1>6, <1>7 DEF Allowed, TakesOver
<1> QED BY <1>9, <1>10

\* The update has failed: the replacement goes, and the old container is put back.
LEMMA UndoSteps ==
  ASSUME Typed, faults' = 0, NEW p \in Procs, NEW c, Shape(p, c),
         UndoStop(p) \/ UndoRemove(p)
  PROVE  Shape(p, c)' /\ Allowed(c, c)
<1> USE DEF AtRest, PairedPcs
<1>0. TypeOK /\ c \in Ids /\ Mind(p, c) /\ Names(p, c) /\ (wanted => c \in proven) /\ Stage(p)
  BY DEF Typed, Live, Shape
<1>1. /\ plans' = plans /\ wanted' = wanted /\ proven' = proven
      /\ cur' = cur /\ expired' = expired /\ new' = new /\ ~expired[p]
  BY <1>0 DEF UndoStop, UndoRemove, work, Mind
<1>2. Paired(c, new[p]) /\ wanted /\ Exists(new[p])
  BY <1>0 DEF UndoStop, UndoRemove, Names, Stage, UndoPcs, Paired, Exists, Gone
<1>3. CASE UndoStop(p)
  <2>1. pc[p] = "undostop" /\ Stop(new[p]) /\ Goto(p, "undoremove")
    BY <1>1, <1>2, <1>3, CalmAnswer DEF UndoStop, CanStop
  <2>2. pc'[p] = "undoremove" /\ nameOf' = nameOf /\ run' = run \ {new[p]}
    BY <1>0, <2>1 DEF Stop, Goto, TypeOK
  <2>3. Live' = Live /\ Paired(c, new[p])'
    BY <1>1, <1>2, <2>2 DEF Live, Paired
  <2>4. Names(p, c)' /\ Stage(p)'
    BY <1>1, <1>2, <2>2, <2>3 DEF Names, Stage, UndoPcs
  <2>5. Mind(p, c)'
    BY <1>0, <1>1, <2>1, <2>2, MindKept
  <2> QED BY <1>0, <1>1, <2>3, <2>4, <2>5 DEF Shape, Allowed, Frame, Paired
<1>4. CASE UndoRemove(p)
  <2>1. pc[p] = "undoremove" /\ new[p] \notin run
    BY <1>0, <1>4 DEF UndoRemove, Stage
  <2>2. Remove(new[p]) /\ Goto(p, "restore")
    BY <1>1, <1>2, <1>4, <2>1, CalmAnswer DEF UndoRemove, CanRemove
  <2>3. pc'[p] = "restore" /\ nameOf' = [nameOf EXCEPT ![new[p]] = Gone] /\ run' = run
    BY <1>0, <2>2 DEF Remove, Goto, TypeOK
  <2>4. Live' = Live \ {new[p]} /\ nameOf'[c] = nameOf[c]
    BY <1>0, <1>2, <2>3, LiveAfter DEF Paired
  <2>5. Aside(c)' /\ new[p] \in Live \ {c}
    BY <1>2, <2>3, <2>4 DEF Aside, Paired
  <2>6. Names(p, c)' /\ Stage(p)'
    BY <1>1, <1>2, <2>3, <2>5 DEF Names, Stage, UndoPcs
  <2>7. Mind(p, c)'
    BY <1>0, <1>1, <2>1, <2>3, MindKept
  <2>8. Discards(c)
    BY <1>1, <2>4, <2>5 DEF Discards
  <2> QED BY <1>0, <1>1, <2>5, <2>6, <2>7, <2>8 DEF Shape, Allowed, Aside
<1> QED BY <1>3, <1>4

LEMMA RestoreSteps ==
  ASSUME Typed, faults' = 0, NEW p \in Procs, NEW c, Shape(p, c),
         Restore(p) \/ RestartOld(p)
  PROVE  Shape(p, c)' /\ Allowed(c, c)
<1> USE DEF AtRest, PairedPcs
<1>0. TypeOK /\ c \in Ids /\ Mind(p, c) /\ Names(p, c) /\ (wanted => c \in proven) /\ Stage(p)
  BY DEF Typed, Live, Shape
<1>1. /\ plans' = plans /\ wanted' = wanted /\ proven' = proven /\ ~expired[p]
      /\ pc[p] \in {"restore", "restartold"} /\ wanted
  BY <1>0 DEF Restore, RestartOld, Mind, Stage, UndoPcs
<1>2. cur[p].id = c /\ OldName(p) = 0 /\ TmpName(p) = 1 /\ cur[p].running
  BY <1>0, <1>1 DEF Mind, IsFor, OldName, TmpName
<1>3. CASE Restore(p)
  <2>1. Aside(c)
    BY <1>0, <1>3 DEF Restore, Names
  <2>2. Holders(TmpName(p)) = {c} /\ CanRename(c, OldName(p))
    BY <1>0, <1>2, <2>1 DEF CanRename, Exists, Holders, Aside, Live, Gone
  <2>3. PICK err \in BOOLEAN, hit \in BOOLEAN :
           /\ Answer(p, \E x \in Holders(TmpName(p)) : CanRename(x, OldName(p)), err, hit)
           /\ hit => \E x \in Holders(TmpName(p)) : Rename(x, OldName(p))
           /\ ~err /\ cur[p].running => Proceed(p, "restartold")
    BY <1>3 DEF Restore
  <2>4. Answer(p, TRUE, err, hit)
    BY <2>2, <2>3 DEF Answer
  <2>5. Rename(c, 0) /\ Proceed(p, "restartold")
    BY <1>1, <1>2, <2>2, <2>3, <2>4, CalmAnswer
  <2>6. pc'[p] = "restartold" /\ run' = run /\ cur' = cur /\ expired' = expired
    BY <1>0, <2>5 DEF Rename, Proceed, Goto, TypeOK
  <2>7. nameOf' = [nameOf EXCEPT ![c] = 0] /\ 0 \in Nat \cup {Gone} /\ 0 # Gone
    BY <2>5 DEF Rename, Gone
  <2>8. Live' = Live \cup {c} /\ nameOf'[c] = 0
    BY <1>0, <2>7, LiveAfter, Zenon
  <2>9. Live' = Live /\ Alone(c)' /\ c \notin run' /\ c \in Live'
    BY <2>1, <2>6, <2>8 DEF Aside, Alone
  <2>10. Names(p, c)' /\ Stage(p)'
    BY <1>1, <2>6, <2>9 DEF Names, Stage, UndoPcs
  <2>11. Mind(p, c)'
    BY <1>0, <1>1, <2>6, MindKept
  <2> QED BY <1>0, <1>1, <2>9, <2>10, <2>11 DEF Shape, Allowed, Frame
<1>4. CASE RestartOld(p)
  <2>1. Alone(c)
    BY <1>0, <1>4 DEF RestartOld, Names
  <2>2. CanStart(cur[p].id)
    BY <1>0, <1>2, <2>1 DEF CanStart, Exists, Alone, Gone
  <2>3. Start(c) /\ Return(p)
    BY <1>1, <1>2, <1>4, <2>2, CalmAnswer DEF RestartOld
  <2>4. nameOf' = nameOf /\ run' = run \cup {c}
    BY <2>3 DEF Start
  <2>5. Live' = Live /\ Alone(c)' /\ c \in run' /\ c \in Live'
    BY <2>1, <2>4 DEF Live, Alone
  <2>6. pc'[p] = "next" /\ \A d : Mind(p, d)'
    BY <1>0, <1>1, <2>3, MindCleared
  <2>7. Names(p, c)' /\ Stage(p)'
    BY <1>1, <2>5, <2>6 DEF Names, Stage, UndoPcs
  <2> QED BY <1>0, <1>1, <2>5, <2>6, <2>7 DEF Shape, Allowed, Frame
<1> QED BY <1>3, <1>4

LEMMA ShapeStep ==
  ASSUME SingleFlight, Typed, Calm', [Next]_vars, NEW p \in Procs, NEW c, Shape(p, c)
  PROVE  \E d : Shape(p, d)' /\ Allowed(c, d)
<1>0. TypeOK BY DEF Typed
<1>1. faults' = 0 /\ ~MayExpire /\ (crashes \in Nat => crashes' # crashes + 1)
  BY DEF Calm
<1>2. crashes \in Nat BY <1>0, BoundAssumption DEF TypeOK
<1>3. CASE Cycle(p)
  <2>1. CASE StartCycle(p) \/ Discover(p) \/ EndCycle(p) \/ Pull(p)
    BY <1>1, <2>1, CycleBegins
  <2>2. CASE StopOld(p) \/ RenameOld(p)
    BY <1>1, <2>2, OldSteps
  <2>3. CASE CreateNew(p) \/ AttachNetworks(p) \/ StartNew(p)
    BY <1>1, <2>3, NewSteps
  <2>4. CASE GatePass(p) \/ GateFail(p)
    BY <2>4, GateSteps
  <2>5. CASE Commit(p)
    BY <1>1, <2>5, CommitStep
  <2>6. CASE UndoStop(p) \/ UndoRemove(p)
    BY <1>1, <2>6, UndoSteps
  <2>7. CASE Restore(p) \/ RestartOld(p)
    BY <1>1, <2>7, RestoreSteps
  <2>8. ~Reconcile(p) /\ ~StartRestored(p)
    BY DEF Shape, Mind, Reconcile, StartRestored
  <2> QED BY <1>3, <2>1, <2>2, <2>3, <2>4, <2>5, <2>6, <2>7, <2>8 DEF Cycle
<1>4. ~Expire(p) /\ ~Crash(p) /\ ~Restart(p) /\ ~Reboot
  BY <1>1, <1>2 DEF Expire, Crash, Restart, Reboot, Shape, Mind
<1>5. CASE UNCHANGED vars
  <2>1. Live' = Live /\ proven' = proven /\ wanted' = wanted
    BY <1>5 DEF vars, docker, env, Live
  <2>2. Mind(p, c)' <=> Mind(p, c)
    BY <1>5 DEF vars, mind, env, Mind, IsFor
  <2>3. Names(p, c)' <=> Names(p, c)
    BY <1>5, <2>1 DEF vars, docker, mind, Names, Alone, Aside, Paired
  <2>4. Stage(p)' <=> Stage(p)
    BY <1>5, <2>1 DEF vars, docker, mind, Stage
  <2> QED BY <2>1, <2>2, <2>3, <2>4 DEF Shape, Allowed, Frame
<1>6. \A q \in Procs : q = p
  BY DEF SingleFlight
<1> QED BY <1>3, <1>4, <1>5, <1>6 DEF Next

InCalm == Typed /\ (Calm => \A p \in Procs : \E c : Shape(p, c))

LEMMA CalmInit == Init => InCalm
<1> SUFFICES ASSUME Init, NEW p \in Procs PROVE \E c : Shape(p, c)
  BY TypedInit DEF InCalm
<1>1. PICK c \in Ids : /\ nameOf = [x \in Ids |-> IF x = c THEN 0 ELSE Gone]
                       /\ run = IF wanted THEN {c} ELSE {}
                       /\ proven = {c}
  BY DEF Init
<1>2. pc[p] = "idle" /\ plans[p] = {} /\ ~expired[p]
  BY DEF Init
<1>3. Live = {c} /\ nameOf[c] = 0 /\ (c \in run <=> wanted)
  BY <1>1 DEF Live, Gone
<1>4. Names(p, c) /\ Stage(p)
  BY <1>2, <1>3 DEF Names, Stage, Alone, AtRest, PairedPcs, UndoPcs
<1>5. Mind(p, c)
  BY <1>2 DEF Mind, AtRest
<1> QED BY <1>1, <1>3, <1>4, <1>5 DEF Shape

LEMMA CalmAlways ==
  ASSUME SingleFlight
  PROVE  Spec => []InCalm
<1>1. ASSUME InCalm, [Next]_vars PROVE InCalm'
  <2>1. Typed' BY <1>1, TypedStep DEF InCalm
  <2>2. ASSUME Calm', NEW p \in Procs PROVE (\E d : Shape(p, d))'
    BY <1>1, <2>2, CalmBefore, ShapeStep DEF InCalm
  <2> QED BY <2>1, <2>2 DEF InCalm
<1> QED BY <1>1, CalmInit, PTL DEF Spec

\* In calm every cycle leaves the service with one container under its own name,
\* running and proven if it is meant to run, the failed and rolled-back updates
\* included, however many images are sick.
THEOREM CyclesAreAtomic ==
  ASSUME SingleFlight
  PROVE  Spec => []AllOrNothing
<1>1. ASSUME InCalm PROVE AllOrNothing
  <2> SUFFICES ASSUME Calm, NEW p \in Procs, Resting(p) PROVE InService
    BY DEF AllOrNothing
  <2>1. PICK c : Shape(p, c)
    BY <1>1 DEF InCalm
  <2>2. c \in Ids /\ Alone(c) /\ (c \in run <=> wanted) /\ (wanted => c \in proven)
    BY <2>1 DEF Shape, Names, Resting, AtRest, Live
  <2> QED BY <2>2 DEF InService, Alone
<1> QED BY <1>1, CalmAlways, PTL

\* In calm a service that is meant to run never loses its last proven container:
\* the old one goes only when the replacement has passed its gate.
THEOREM ProvenIsKept ==
  ASSUME SingleFlight
  PROVE  Spec => []ProvenKeptInCalm
<1>1. ASSUME InCalm PROVE ProvenKeptInCalm
  <2>1. PICK p \in Procs : TRUE BY ProcsAssumption
  <2> QED BY <1>1 DEF InCalm, Shape, ProvenKeptInCalm, ProvenKept
<1> QED BY <1>1, CalmAlways, PTL

-----------------------------------------------------------------------------
(* Recreate implements ServiceUpdate.                                      *)

LEMMA KeeperIs ==
  ASSUME SingleFlight, NEW p \in Procs, NEW c, Shape(p, c), Typed
  PROVE  Keeper = c
<1>1. pc[p] \in PCs /\ c \in Ids
  BY DEF Typed, TypeOK, Shape, Live
<1>2. CASE Swapping(p)
  <2>1. (CHOOSE q \in Procs : Swapping(q)) = p
    BY <1>2 DEF SingleFlight
  <2>2. cur[p].id = c
    BY <1>2 DEF Shape, Mind, IsFor, Swapping, AtRest, SwapPcs, UndoPcs
  <2> QED BY <1>2, <2>1, <2>2 DEF Keeper
<1>3. CASE ~Swapping(p)
  <2>1. Live = {c}
    BY <1>1, <1>3 DEF Shape, Mind, Names, Alone, Swapping, PCs, AtRest, SwapPcs, UndoPcs
  <2>2. \A q \in Procs : ~Swapping(q)
    BY <1>3 DEF SingleFlight
  <2>3. (CHOOSE x \in Ids : Live = {x}) = c
    BY <1>1, <2>1
  <2> QED BY <2>2, <2>3 DEF Keeper
<1> QED BY <1>2, <1>3

\* In calm the recreate protocol keeps the promise of ServiceUpdate: whatever an
\* update does beside the container the service stands on, that one is only given
\* up for a replacement that has passed its gate, or for a service that is stopped.
THEOREM RecreateKeepsPromise ==
  ASSUME SingleFlight
  PROVE  Spec => KeepsPromise
<1>0. PICK p \in Procs : TRUE BY ProcsAssumption
<1> DEFINE Stands == \A c : Shape(p, c) => Keeper = c
<1>1. InCalm => Stands
  BY <1>0, KeeperIs DEF InCalm
<1>2. Init => Promise!Init
  <2> SUFFICES ASSUME Init PROVE Promise!Init
    OBVIOUS
  <2>1. PICK c \in Ids : Live = {c} /\ proven = {c} /\ wanted \in BOOLEAN
    BY DEF Init, Live, Gone
  <2>2. \A q \in Procs : ~Swapping(q)
    BY DEF Init, Swapping, SwapPcs, UndoPcs
  <2>3. Keeper = c
    BY <2>1, <2>2 DEF Keeper
  <2> QED BY <2>1, <2>3 DEF Promise!Init
<1>3. ASSUME InCalm, Stands, Stands', [Next]_vars
      PROVE  [Calm' => Promise!Next]_(Promise!vars)
  <2> SUFFICES ASSUME Calm' PROVE Promise!Next \/ UNCHANGED Promise!vars
    OBVIOUS
  <2>1. PICK c : Shape(p, c)
    BY <1>0, <1>3, CalmBefore DEF InCalm
  <2>2. PICK d : Shape(p, d)' /\ Allowed(c, d)
    BY <1>0, <1>3, <2>1, ShapeStep DEF InCalm
  <2>3. Keeper = c /\ Keeper' = d
    BY <1>3, <2>1, <2>2
  <2>4. Live \subseteq Ids /\ wanted' = wanted
    BY <2>2 DEF Live, Allowed
  <2>5. CASE d = c /\ Frame
    BY <2>3, <2>4, <2>5 DEF Frame, Promise!vars
  <2>6. CASE d = c /\ Brings(c)
    BY <2>3, <2>4, <2>6 DEF Brings, Promise!Next, Promise!Bring
  <2>7. CASE d = c /\ Vouches(c)
    BY <2>3, <2>4, <2>7 DEF Vouches, Promise!Next, Promise!Vouch
  <2>8. CASE d = c /\ Discards(c)
    BY <2>3, <2>4, <2>8 DEF Discards, Promise!Next, Promise!Discard
  <2>9. CASE TakesOver(c, d)
    BY <2>3, <2>4, <2>9 DEF TakesOver, Promise!Next, Promise!TakeOver
  <2> QED BY <2>2, <2>5, <2>6, <2>7, <2>8, <2>9 DEF Allowed
<1> HIDE DEF Stands
<1> QED BY <1>1, <1>2, <1>3, CalmAlways, PTL DEF Spec, KeepsPromise
-----------------------------------------------------------------------------
(* As long as Docker answers every call, two containers of the service     *)
(* never run at once, wherever the process dies and whatever deadline      *)
(* passes.                                                                 *)

Applying == {"stop", "rename"} \cup SwapPcs \cup UndoPcs

\* No container stands aside under the temporary name.
Clear == Holders(1) = {}

\* At most one container has the service's name and at most one stands aside,
\* and the one that stands aside does not run.
Front ==
    \A c \in Ids : /\ nameOf[c] \in {Gone, 0, 1}
                   /\ nameOf[c] = 1 => c \notin run
                   /\ \A d \in Ids : nameOf[d] = nameOf[c] /\ nameOf[c] # Gone => d = c

\* Which name the container the process works on has.
OldAt(p) ==
    /\ pc[p] \in {"heal", "stop", "rename", "restartold"} =>
         cur[p].id \in Ids /\ nameOf[cur[p].id] = 0
    /\ pc[p] \in RenamedPcs => cur[p].id \in Ids /\ nameOf[cur[p].id] = 1
    /\ pc[p] = "rename" => cur[p].id \notin run
    /\ pc[p] \in {"attach", "start"} => new[p] \in Ids /\ nameOf[new[p]] = 0

\* The list the repair works from, and the plan the cycle works from, are as
\* Docker has it; at most one plan is ever made, for the service's own name.
UpToDate(p) ==
    /\ pc[p] # "discover" /\ (expired[p] => pc[p] \in Applying)
    /\ pc[p] = "reconcile" => todo[p] = Holders(1) /\ (todo[p] # {} => snap[p] = nameOf)
    /\ pc[p] = "heal" => todo[p] = {}
    /\ pc[p] \in {"heal", "stop", "rename"} => Clear
    /\ pc[p] # "next" => plans[p] = {}
    /\ plans[p] # {} => Clear
    /\ \A q \in plans[p] : /\ q.id \in Ids /\ q.depth = 0 /\ nameOf[q.id] = 0
                           /\ q.running <=> q.id \in run
    /\ \A q, r \in plans[p] : q = r
    /\ pc[p] \in Applying => cur[p].depth = 0

Poised(p) == Front /\ OldAt(p) /\ UpToDate(p)

\* Until a call fails of itself, one that Docker accepts takes effect and is
\* answered, and one it does not accept has no effect.
LEMMA CleanAnswer ==
  ASSUME Typed, faults' = 0, NEW p, NEW legal \in BOOLEAN, NEW err \in BOOLEAN, NEW hit \in BOOLEAN,
         Answer(p, legal, err, hit)
  PROVE  (hit <=> ~err) /\ (hit => legal) /\ (legal /\ ~expired[p] => hit)
BY BoundAssumption DEF Answer, Typed, TypeOK

\* What Docker may be asked to do without upsetting the order of the names.
LEMMA FrontSteps ==
  ASSUME TypeOK, Front, NEW c \in Ids
  PROVE  /\ UNCHANGED docker => Front'
         /\ Stop(c) => Front'
         /\ Remove(c) => Front'
         /\ nameOf[c] = 0 /\ Start(c) => Front'
         /\ \A d \in {0, 1} : c \notin run /\ CanRename(c, d) /\ Rename(c, d) => Front'
<1> USE DEF Front, TypeOK, Gone
<1>1. UNCHANGED docker => Front'
  BY DEF docker
<1>2. Stop(c) => Front'
  BY DEF Stop
<1>3. Remove(c) => Front'
  BY DEF Remove
<1>4. nameOf[c] = 0 /\ Start(c) => Front'
  BY DEF Start
<1>5. ASSUME NEW d \in {0, 1}, c \notin run, CanRename(c, d), Rename(c, d) PROVE Front'
  BY <1>5 DEF CanRename, Rename, Holders
<1> QED BY <1>1, <1>2, <1>3, <1>4, <1>5

LEMMA RepairUp ==
  ASSUME Typed, faults' = 0, NEW p \in Procs, Poised(p),
         StartCycle(p) \/ Reconcile(p) \/ StartRestored(p)
  PROVE  Poised(p)'
<1>0. TypeOK /\ Front BY DEF Typed, Poised
<1>1. pc[p] \notin Applying /\ ~expired[p]
  BY DEF StartCycle, Reconcile, StartRestored, Poised, UpToDate, Applying, SwapPcs, UndoPcs
<1>2. plans[p] = {} /\ plans' = plans /\ expired' = expired
  BY DEF StartCycle, Reconcile, StartRestored, Poised, UpToDate
<1>3. CASE StartCycle(p)
  <2>1. pc'[p] = "reconcile" /\ snap'[p] = nameOf /\ todo'[p] = Orphans(nameOf)
    BY <1>0, <1>1, <1>3, CleanAnswer DEF StartCycle, Goto, TypeOK
  <2>2. UNCHANGED docker
    BY <1>3 DEF StartCycle
  <2>3. Front'
    BY <1>0, <2>2, FrontSteps, IdsAssumption
  <2>4. Orphans(nameOf) = Holders(1)'
    BY <1>0, <2>2 DEF Orphans, Holders, Front, docker, Gone
  <2>5. OldAt(p)'
    BY <2>1 DEF OldAt, RenamedPcs, SwapPcs, UndoPcs
  <2>6. UpToDate(p)'
    BY <1>1, <1>2, <2>1, <2>2, <2>4 DEF UpToDate, docker, Applying, SwapPcs, UndoPcs
  <2> QED BY <2>3, <2>5, <2>6 DEF Poised
<1>4. CASE Reconcile(p)
  <2>1. PICK c \in todo[p] : RemoveOrphan(p, c) \/ RestoreOrphan(p, c)
    BY <1>4 DEF Reconcile
  <2>2. todo[p] = Holders(1) /\ snap[p] = nameOf /\ snap' = snap /\ pc[p] = "reconcile"
    BY <1>4, <2>1 DEF Reconcile, Poised, UpToDate
  <2>3. c \in Ids /\ nameOf[c] = 1 /\ c \notin run /\ todo[p] = {c}
    BY <1>0, <2>1, <2>2 DEF Holders, Front, Gone
  <2>4. todo'[p] = {}
    BY <1>0, <2>1, <2>3 DEF RemoveOrphan, RestoreOrphan, TypeOK
  <2>5. CASE RemoveOrphan(p, c)
    <3>1. CanRemove(c)
      BY <2>3 DEF CanRemove, Exists, Gone
    <3>2. Remove(c) /\ pc' = pc
      BY <1>0, <1>1, <2>5, <3>1, CleanAnswer DEF RemoveOrphan
    <3>3. Front'
      BY <1>0, <2>3, <3>2, FrontSteps
    <3>4. Holders(1)' = {}
      BY <1>0, <2>2, <2>3, <3>2 DEF Remove, Holders, TypeOK, Gone
    <3>5. OldAt(p)'
      BY <2>2, <3>2 DEF OldAt, RenamedPcs, SwapPcs, UndoPcs
    <3>6. UpToDate(p)'
      BY <1>1, <1>2, <2>2, <2>4, <3>2, <3>4 DEF UpToDate, Applying, SwapPcs, UndoPcs
    <3> QED BY <3>3, <3>5, <3>6 DEF Poised
  <2>6. CASE RestoreOrphan(p, c)
    <3>1. snap[p][c] - 1 = 0 /\ CanRename(c, 0)
      BY <1>0, <2>2, <2>3, <2>6
      DEF RestoreOrphan, Superseded, CanRename, Exists, Holders, Gone
    <3>2. Rename(c, 0) /\ pc' = [pc EXCEPT ![p] = "heal"] /\ cur' = [cur EXCEPT ![p] = Found(c)]
      <4>1. PICK err \in BOOLEAN, hit \in BOOLEAN :
               /\ Answer(p, CanRename(c, 0), err, hit)
               /\ hit => Rename(c, 0)
               /\ ~err => Goto(p, "heal") /\ cur' = [cur EXCEPT ![p] = Found(c)]
        BY <2>6, <3>1 DEF RestoreOrphan
      <4>2. hit /\ ~err
        BY <1>1, <3>1, <4>1, CleanAnswer
      <4> QED BY <4>1, <4>2 DEF Goto
    <3>3. Front'
      BY <1>0, <2>3, <3>1, <3>2, FrontSteps
    <3>4. nameOf'[c] = 0 /\ Holders(1)' = {}
      BY <1>0, <2>2, <2>3, <3>2 DEF Rename, Holders, TypeOK
    <3>5. pc'[p] = "heal" /\ cur'[p].id = c
      BY <1>0, <3>2 DEF TypeOK, Found
    <3>6. OldAt(p)'
      BY <2>3, <3>4, <3>5 DEF OldAt, RenamedPcs, SwapPcs, UndoPcs
    <3>7. UpToDate(p)'
      BY <1>1, <1>2, <2>4, <3>4, <3>5 DEF UpToDate, Clear, Applying, SwapPcs, UndoPcs
    <3> QED BY <3>3, <3>6, <3>7 DEF Poised
  <2> QED BY <2>1, <2>5, <2>6
<1>5. CASE StartRestored(p)
  <2>1. cur[p].id \in Ids /\ nameOf[cur[p].id] = 0 /\ Clear /\ todo[p] = {}
    BY <1>5 DEF StartRestored, Poised, OldAt, UpToDate
  <2>2. UNCHANGED docker \/ Start(cur[p].id)
    BY <1>5 DEF StartRestored
  <2>3. Front' /\ nameOf' = nameOf
    BY <1>0, <2>1, <2>2, FrontSteps DEF Start, docker
  <2>4. pc'[p] = "reconcile" /\ todo' = todo
    BY <1>0, <1>5 DEF StartRestored, Goto, TypeOK
  <2>5. Holders(1)' = {}
    BY <2>1, <2>3 DEF Holders, Clear
  <2>6. OldAt(p)'
    BY <2>4 DEF OldAt, RenamedPcs, SwapPcs, UndoPcs
  <2>7. UpToDate(p)'
    BY <1>1, <1>2, <2>1, <2>4, <2>5 DEF UpToDate, Applying, SwapPcs, UndoPcs
  <2> QED BY <2>3, <2>6, <2>7 DEF Poised
<1> QED BY <1>3, <1>4, <1>5

LEMMA PlanUp ==
  ASSUME Typed, faults' = 0, NEW p \in Procs, Poised(p),
         Discover(p) \/ EndCycle(p) \/ Pull(p)
  PROVE  Poised(p)'
<1>0. TypeOK /\ Front BY DEF Typed, Poised
<1>1. UNCHANGED docker /\ expired' = expired
  BY DEF Discover, EndCycle, Pull, work
<1>2. pc[p] \notin Applying /\ ~expired'[p]
  BY <1>1 DEF Discover, EndCycle, Pull, Poised, UpToDate, Applying, SwapPcs, UndoPcs
<1>3. Front' /\ nameOf' = nameOf /\ run' = run /\ (Clear => Clear')
  BY <1>0, <1>1, FrontSteps, IdsAssumption DEF docker, Clear, Holders
<1>4. CASE Discover(p)
  <2>1. Clear
    BY <1>4 DEF Discover, Poised, UpToDate, Clear
  <2>2. PICK due \in SUBSET {x \in Live : nameOf[x] < MaxDepth} :
           pc' = [pc EXCEPT ![p] = "next"] /\ plans' = [plans EXCEPT ![p] = PlansFor(due)]
    <3>1. PICK err \in BOOLEAN, hit \in BOOLEAN :
             /\ Answer(p, TRUE, err, hit)
             /\ ~err => /\ Goto(p, "next")
                        /\ \E due \in SUBSET {x \in Live : nameOf[x] < MaxDepth} :
                             plans' = [plans EXCEPT ![p] = PlansFor(due)]
      BY <1>4 DEF Discover
    <3>2. ~err
      BY <1>1, <1>2, <3>1, CleanAnswer
    <3> QED BY <3>1, <3>2 DEF Goto
  <2>3. pc'[p] = "next" /\ plans'[p] = PlansFor(due)
    BY <1>0, <2>2 DEF TypeOK
  <2>4. ASSUME NEW c \in due, NEW d \in due PROVE nameOf[c] = 0 /\ c = d /\ c \in Ids
    BY <1>0, <2>1 DEF Front, Live, Clear, Holders
  <2>5. ASSUME NEW q \in PlansFor(due)
        PROVE  q.id \in Ids /\ q.depth = 0 /\ nameOf[q.id] = 0 /\ (q.running <=> q.id \in run)
    <3>1. PICK c \in due : q = [id |-> c, depth |-> nameOf[c], running |-> c \in run]
      BY <2>5 DEF PlansFor
    <3>2. q.id = c /\ q.depth = nameOf[c]
      BY <3>1
    <3>3. q.running <=> c \in run
      BY <3>1
    <3> QED BY <2>4, <3>2, <3>3
  <2>6. \A q, r \in PlansFor(due) : q = r
    BY <2>4 DEF PlansFor
  <2>7. OldAt(p)'
    BY <2>3 DEF OldAt, RenamedPcs, SwapPcs, UndoPcs
  <2>8. UpToDate(p)'
    BY <1>2, <1>3, <2>1, <2>3, <2>5, <2>6 DEF UpToDate, Applying, SwapPcs, UndoPcs
  <2> QED BY <1>3, <2>7, <2>8 DEF Poised
<1>5. CASE EndCycle(p)
  <2>1. pc'[p] = "idle" /\ plans'[p] = {}
    BY <1>0, <1>5 DEF EndCycle, Goto, work, TypeOK
  <2>2. OldAt(p)'
    BY <2>1 DEF OldAt, RenamedPcs, SwapPcs, UndoPcs
  <2>3. UpToDate(p)'
    BY <1>2, <2>1 DEF UpToDate, Applying, SwapPcs, UndoPcs
  <2> QED BY <1>3, <2>2, <2>3 DEF Poised
<1>6. CASE Pull(p)
  <2>1. PICK q \in plans[p], err \in BOOLEAN, hit \in BOOLEAN :
           /\ plans' = [plans EXCEPT ![p] = @ \ {q}]
           /\ Answer(p, TRUE, err, hit)
           /\ IF err THEN UNCHANGED <<pc, cur>>
                ELSE cur' = [cur EXCEPT ![p] = q] /\ pc' = [pc EXCEPT ![p] = AfterPull(q)]
    BY <1>6 DEF Pull, Goto
  <2>2. ~err
    BY <1>1, <1>2, <2>1, CleanAnswer
  <2>3. /\ q.id \in Ids /\ q.depth = 0 /\ nameOf[q.id] = 0 /\ (q.running <=> q.id \in run)
        /\ plans[p] = {q} /\ Clear
    BY <2>1 DEF Poised, UpToDate
  <2>4. plans'[p] = {} /\ cur'[p] = q /\ pc'[p] = AfterPull(q)
    BY <1>0, <2>1, <2>2, <2>3 DEF TypeOK
  <2>5. pc'[p] \in {"stop", "rename"} /\ (pc'[p] = "rename" => q.id \notin run)
    BY <2>3, <2>4 DEF AfterPull
  <2>6. OldAt(p)'
    BY <1>3, <2>3, <2>4, <2>5 DEF OldAt, RenamedPcs, SwapPcs, UndoPcs
  <2>7. UpToDate(p)'
    BY <1>2, <1>3, <2>3, <2>4, <2>5 DEF UpToDate, Applying, SwapPcs, UndoPcs
  <2> QED BY <1>3, <2>6, <2>7 DEF Poised
<1> QED BY <1>4, <1>5, <1>6

\* In the middle of a recreate there are no plans left to go stale.
LEMMA StillUpToDate ==
  ASSUME NEW p \in Procs, UpToDate(p), pc[p] \in Applying,
         pc'[p] \in Applying \ {"stop", "rename"}, plans' = plans, cur' = cur
  PROVE  UpToDate(p)'
BY DEF UpToDate, Applying, SwapPcs, UndoPcs

\* When apply returns, the process knows nothing that could be stale.
LEMMA ReturnUp ==
  ASSUME TypeOK, NEW p \in Procs, UpToDate(p), pc[p] \in Applying, Return(p), plans' = plans
  PROVE  OldAt(p)' /\ UpToDate(p)'
<1>1. pc'[p] = "next" /\ ~expired'[p] /\ plans'[p] = {}
  BY DEF Return, Goto, TypeOK, UpToDate, Applying, SwapPcs, UndoPcs
<1> QED BY <1>1 DEF OldAt, UpToDate, Applying, RenamedPcs, SwapPcs, UndoPcs

LEMMA OldUp ==
  ASSUME Typed, faults' = 0, NEW p \in Procs, Poised(p),
         StopOld(p) \/ RenameOld(p)
  PROVE  Poised(p)'
<1>0. TypeOK /\ Front /\ OldAt(p) /\ UpToDate(p) BY DEF Typed, Poised
<1>1. pc[p] \in {"stop", "rename"} /\ pc[p] \in Applying /\ plans' = plans
  BY DEF StopOld, RenameOld, Applying
<1>2. cur[p].id \in Ids /\ nameOf[cur[p].id] = 0 /\ Clear /\ cur[p].depth = 0 /\ plans[p] = {}
  BY <1>0, <1>1 DEF OldAt, UpToDate
<1>3. CASE StopOld(p)
  <2>1. CanStop(cur[p].id)
    BY <1>2 DEF CanStop, Exists, Gone
  <2>2. (UNCHANGED docker /\ Return(p)) \/ (Stop(cur[p].id) /\ Proceed(p, "rename"))
    <3>1. PICK err \in BOOLEAN, hit \in BOOLEAN :
             /\ Answer(p, CanStop(cur[p].id), err, hit)
             /\ IF hit THEN Stop(cur[p].id) ELSE UNCHANGED docker
             /\ IF err THEN Return(p) ELSE Proceed(p, "rename")
      BY <1>3 DEF StopOld
    <3>2. hit <=> ~err
      BY <2>1, <3>1, CleanAnswer
    <3> QED BY <3>1, <3>2
  <2>3. Front' /\ nameOf' = nameOf
    BY <1>0, <1>2, <2>2, FrontSteps DEF Stop, docker
  <2>4. CASE Return(p)
    BY <1>0, <1>1, <2>3, <2>4, ReturnUp DEF Poised
  <2>5. CASE Stop(cur[p].id) /\ Proceed(p, "rename")
    <3>1. pc'[p] = "rename" /\ cur' = cur /\ cur[p].id \notin run'
      BY <1>0, <2>5 DEF Stop, Proceed, Goto, TypeOK
    <3>2. OldAt(p)'
      BY <1>2, <2>3, <3>1 DEF OldAt, RenamedPcs, SwapPcs, UndoPcs
    <3>3. UpToDate(p)'
      BY <1>1, <1>2, <2>3, <3>1 DEF UpToDate, Applying, Clear, Holders
    <3> QED BY <2>3, <3>2, <3>3 DEF Poised
  <2> QED BY <2>2, <2>4, <2>5
<1>4. CASE RenameOld(p)
  <2>1. TmpName(p) = 1 /\ cur[p].id \notin run /\ CanRename(cur[p].id, 1)
    BY <1>0, <1>2, <1>4 DEF RenameOld, TmpName, OldAt, CanRename, Exists, Clear, Gone
  <2>2. (UNCHANGED docker /\ Return(p)) \/ (Rename(cur[p].id, 1) /\ Proceed(p, "create"))
    <3>1. PICK err \in BOOLEAN, hit \in BOOLEAN :
             /\ Answer(p, CanRename(cur[p].id, 1), err, hit)
             /\ IF hit THEN Rename(cur[p].id, 1) ELSE UNCHANGED docker
             /\ IF err THEN Return(p) ELSE Proceed(p, "create")
      BY <1>4, <2>1 DEF RenameOld
    <3>2. hit <=> ~err
      BY <2>1, <3>1, CleanAnswer
    <3> QED BY <3>1, <3>2
  <2>3. Front'
    BY <1>0, <1>2, <2>1, <2>2, FrontSteps
  <2>4. CASE Return(p)
    BY <1>0, <1>1, <2>3, <2>4, ReturnUp DEF Poised
  <2>5. CASE Rename(cur[p].id, 1) /\ Proceed(p, "create")
    <3>1. pc'[p] = "create" /\ cur' = cur /\ nameOf'[cur[p].id] = 1
      BY <1>0, <1>2, <2>5 DEF Rename, Proceed, Goto, TypeOK
    <3>2. OldAt(p)'
      BY <1>2, <3>1 DEF OldAt, RenamedPcs, SwapPcs, UndoPcs
    <3>3. UpToDate(p)'
      BY <1>0, <1>1, <3>1, StillUpToDate DEF Applying, SwapPcs
    <3> QED BY <2>3, <3>2, <3>3 DEF Poised
  <2> QED BY <2>2, <2>4, <2>5
<1> QED BY <1>3, <1>4

LEMMA NewUp ==
  ASSUME Typed, faults' = 0, NEW p \in Procs, Poised(p),
         CreateNew(p) \/ AttachNetworks(p) \/ StartNew(p)
  PROVE  Poised(p)'
<1>0. TypeOK /\ Front /\ OldAt(p) /\ UpToDate(p) BY DEF Typed, Poised
<1>1. pc[p] \in SwapPcs /\ pc[p] \in Applying /\ plans' = plans /\ cur' = cur
  BY DEF CreateNew, AttachNetworks, StartNew, SwapPcs, Applying, work
<1>2. cur[p].id \in Ids /\ nameOf[cur[p].id] = 1 /\ cur[p].depth = 0
  BY <1>0, <1>1 DEF OldAt, UpToDate, RenamedPcs
<1>3. CASE CreateNew(p)
  <2>1. PICK err \in BOOLEAN, hit \in BOOLEAN, c \in Fresh :
           /\ Answer(p, Holders(OldName(p)) = {}, err, hit)
           /\ IF hit
                THEN nameOf' = [nameOf EXCEPT ![c] = OldName(p)] /\ run' = run \ {c}
                ELSE UNCHANGED <<docker, proven>>
           /\ IF err
                THEN Goto(p, "restore") /\ UNCHANGED new
                ELSE Goto(p, "attach") /\ new' = [new EXCEPT ![p] = c]
    BY <1>3 DEF CreateNew
  <2>2. OldName(p) = 0 /\ c \in Ids /\ c # cur[p].id
    BY <1>2 DEF OldName, Fresh
  <2>3. (hit <=> ~err) /\ (hit => Holders(0) = {})
    BY <2>1, <2>2, CleanAnswer
  <2>4. CASE err
    <3>1. UNCHANGED docker /\ pc'[p] = "restore"
      BY <1>0, <2>1, <2>3, <2>4 DEF Goto, TypeOK
    <3>2. Front' /\ nameOf' = nameOf
      BY <1>0, <2>2, <3>1, FrontSteps DEF docker
    <3>3. OldAt(p)'
      BY <1>1, <1>2, <3>1, <3>2 DEF OldAt, RenamedPcs, SwapPcs, UndoPcs
    <3>4. UpToDate(p)'
      BY <1>0, <1>1, <3>1, StillUpToDate DEF Applying, UndoPcs
    <3> QED BY <3>2, <3>3, <3>4 DEF Poised
  <2>5. CASE ~err
    <3>1. /\ nameOf' = [nameOf EXCEPT ![c] = 0] /\ run' = run \ {c} /\ Holders(0) = {}
          /\ pc'[p] = "attach" /\ new'[p] = c
      BY <1>0, <2>1, <2>2, <2>3, <2>5 DEF Goto, TypeOK
    <3>2. Front'
      BY <1>0, <2>2, <3>1 DEF Front, Holders, TypeOK, Gone
    <3>3. nameOf'[c] = 0 /\ nameOf'[cur[p].id] = 1
      BY <1>0, <1>2, <2>2, <3>1 DEF TypeOK
    <3>4. OldAt(p)'
      BY <1>1, <1>2, <2>2, <3>1, <3>3 DEF OldAt, RenamedPcs, SwapPcs, UndoPcs
    <3>5. UpToDate(p)'
      BY <1>0, <1>1, <3>1, StillUpToDate DEF Applying, SwapPcs
    <3> QED BY <3>2, <3>4, <3>5 DEF Poised
  <2> QED BY <2>4, <2>5
<1>4. CASE AttachNetworks(p)
  <2>1. UNCHANGED docker /\ new' = new /\ pc[p] = "attach" /\ pc'[p] \in {"undostop", "start", "commit"}
    BY <1>0, <1>4 DEF AttachNetworks, AfterAttach, Goto, work, TypeOK
  <2>2. Front' /\ nameOf' = nameOf
    BY <1>0, <1>2, <2>1, FrontSteps DEF docker
  <2>3. OldAt(p)'
    BY <1>0, <1>1, <1>2, <2>1, <2>2 DEF OldAt, RenamedPcs, SwapPcs, UndoPcs
  <2>4. UpToDate(p)'
    BY <1>0, <1>1, <2>1, StillUpToDate DEF Applying, SwapPcs, UndoPcs
  <2> QED BY <2>2, <2>3, <2>4 DEF Poised
<1>5. CASE StartNew(p)
  <2>1. new[p] \in Ids /\ nameOf[new[p]] = 0
    BY <1>0, <1>5 DEF StartNew, OldAt
  <2>2. (UNCHANGED docker \/ Start(new[p])) /\ pc'[p] \in {"undostop", "gate"}
    BY <1>0, <1>5 DEF StartNew, Goto, TypeOK
  <2>3. Front' /\ nameOf' = nameOf
    BY <1>0, <2>1, <2>2, FrontSteps DEF Start, docker
  <2>4. OldAt(p)'
    BY <1>1, <1>2, <2>2, <2>3 DEF OldAt, RenamedPcs, SwapPcs, UndoPcs
  <2>5. UpToDate(p)'
    BY <1>0, <1>1, <2>2, StillUpToDate DEF Applying, SwapPcs, UndoPcs
  <2> QED BY <2>3, <2>4, <2>5 DEF Poised
<1> QED BY <1>3, <1>4, <1>5

LEMMA GateUp ==
  ASSUME Typed, faults' = 0, NEW p \in Procs, Poised(p),
         GatePass(p) \/ GateFail(p) \/ Commit(p)
  PROVE  Poised(p)'
<1>0. TypeOK /\ Front /\ OldAt(p) /\ UpToDate(p) BY DEF Typed, Poised
<1>1. pc[p] \in SwapPcs /\ pc[p] \in Applying /\ plans' = plans
  BY DEF GatePass, GateFail, Commit, SwapPcs, Applying, work
<1>2. cur[p].id \in Ids /\ nameOf[cur[p].id] = 1 /\ cur[p].depth = 0
  BY <1>0, <1>1 DEF OldAt, UpToDate, RenamedPcs
<1>3. CASE GatePass(p) \/ GateFail(p)
  <2>1. nameOf' = nameOf /\ run' \subseteq run /\ cur' = cur /\ pc'[p] \in {"commit", "undostop"}
    BY <1>0, <1>3 DEF GatePass, GateFail, Goto, docker, work, TypeOK
  <2>2. Front'
    BY <1>0, <2>1 DEF Front
  <2>3. OldAt(p)'
    BY <1>2, <2>1 DEF OldAt, RenamedPcs, SwapPcs, UndoPcs
  <2>4. UpToDate(p)'
    BY <1>0, <1>1, <2>1, StillUpToDate DEF Applying, SwapPcs, UndoPcs
  <2> QED BY <2>2, <2>3, <2>4 DEF Poised
<1>4. CASE Commit(p)
  <2>1. UNCHANGED docker \/ \E c \in Ids : Remove(c)
    BY <1>4 DEF Commit, Holders
  <2>2. Front'
    BY <1>0, <2>1, FrontSteps, IdsAssumption
  <2>3. Return(p)
    BY <1>4 DEF Commit
  <2> QED BY <1>0, <1>1, <2>2, <2>3, ReturnUp DEF Poised
<1> QED BY <1>3, <1>4

LEMMA UndoUp ==
  ASSUME Typed, faults' = 0, NEW p \in Procs, Safe(p), Poised(p),
         UndoStop(p) \/ UndoRemove(p) \/ Restore(p) \/ RestartOld(p)
  PROVE  Poised(p)'
<1>0. TypeOK /\ Front /\ OldAt(p) /\ UpToDate(p) BY DEF Typed, Poised
<1>1. pc[p] \in UndoPcs /\ pc[p] \in Applying /\ plans' = plans
  BY DEF UndoStop, UndoRemove, Restore, RestartOld, UndoPcs, Applying, work
<1>2. cur[p].id \in Ids /\ cur[p].depth = 0
  BY <1>0, <1>1 DEF OldAt, UpToDate, RenamedPcs, UndoPcs
<1>3. CASE UndoStop(p) \/ UndoRemove(p)
  <2>1. nameOf[cur[p].id] = 1 /\ new[p] \in Ids /\ new[p] # cur[p].id
    BY <1>0, <1>3 DEF UndoStop, UndoRemove, OldAt, RenamedPcs, Safe, TmpName
  <2>2. UNCHANGED docker \/ Stop(new[p]) \/ Remove(new[p])
    BY <1>3 DEF UndoStop, UndoRemove
  <2>3. Front'
    BY <1>0, <2>1, <2>2, FrontSteps
  <2>4. nameOf'[cur[p].id] = 1
    BY <1>0, <1>2, <2>1, <2>2 DEF docker, Stop, Remove, TypeOK
  <2>5. pc'[p] \in {"undoremove", "restore"} /\ cur' = cur
    BY <1>0, <1>3 DEF UndoStop, UndoRemove, Goto, work, TypeOK
  <2>6. OldAt(p)'
    BY <1>2, <2>4, <2>5 DEF OldAt, RenamedPcs, SwapPcs, UndoPcs
  <2>7. UpToDate(p)'
    BY <1>0, <1>1, <2>5, StillUpToDate DEF Applying, UndoPcs
  <2> QED BY <2>3, <2>6, <2>7 DEF Poised
<1>4. CASE Restore(p)
  <2>1. nameOf[cur[p].id] = 1 /\ cur[p].id \notin run /\ Holders(1) = {cur[p].id}
    BY <1>0, <1>4 DEF Restore, OldAt, RenamedPcs, Front, Holders, Gone
  <2>2. TmpName(p) = 1 /\ OldName(p) = 0
    BY <1>2 DEF TmpName, OldName
  <2>3. PICK err \in BOOLEAN, hit \in BOOLEAN :
           /\ Answer(p, \E c \in Holders(1) : CanRename(c, 0), err, hit)
           /\ IF hit THEN \E c \in Holders(1) : Rename(c, 0) ELSE UNCHANGED docker
           /\ IF err \/ ~cur[p].running THEN Return(p) ELSE Proceed(p, "restartold")
    BY <1>4, <2>2 DEF Restore
  <2>4. (hit <=> ~err) /\ (hit => CanRename(cur[p].id, 0))
    BY <2>1, <2>3, CleanAnswer
  <2>5. (UNCHANGED docker /\ ~hit) \/ (Rename(cur[p].id, 0) /\ CanRename(cur[p].id, 0))
    BY <2>1, <2>3, <2>4
  <2>6. Front'
    BY <1>0, <1>2, <2>1, <2>5, FrontSteps
  <2>7. CASE Return(p)
    BY <1>0, <1>1, <2>6, <2>7, ReturnUp DEF Poised
  <2>8. CASE ~err /\ Proceed(p, "restartold")
    <3>1. pc'[p] = "restartold" /\ cur' = cur /\ nameOf'[cur[p].id] = 0
      BY <1>0, <1>2, <2>4, <2>5, <2>8 DEF Proceed, Goto, Rename, TypeOK
    <3>2. OldAt(p)'
      BY <1>2, <3>1 DEF OldAt, RenamedPcs, SwapPcs, UndoPcs
    <3>3. UpToDate(p)'
      BY <1>0, <1>1, <3>1, StillUpToDate DEF Applying, UndoPcs
    <3> QED BY <2>6, <3>2, <3>3 DEF Poised
  <2> QED BY <2>3, <2>7, <2>8
<1>5. CASE RestartOld(p)
  <2>1. nameOf[cur[p].id] = 0 /\ Return(p) /\ (UNCHANGED docker \/ Start(cur[p].id))
    BY <1>0, <1>5 DEF RestartOld, OldAt
  <2>2. Front'
    BY <1>0, <1>2, <2>1, FrontSteps
  <2> QED BY <1>0, <1>1, <2>1, <2>2, ReturnUp DEF Poised
<1> QED BY <1>3, <1>4, <1>5

LEMMA UpheavalUp ==
  ASSUME Typed, NEW p \in Procs, Poised(p), Expire(p) \/ Crash(p) \/ Restart(p) \/ UNCHANGED vars
  PROVE  Poised(p)'
<1>0. TypeOK /\ Front /\ OldAt(p) /\ UpToDate(p) BY DEF Typed, Poised
<1>1. UNCHANGED docker
  BY DEF Expire, Crash, Restart, vars
<1>2. Front' /\ nameOf' = nameOf /\ run' = run
  BY <1>0, <1>1, FrontSteps, IdsAssumption DEF docker
<1>3. CASE Expire(p)
  <2>1. pc' = pc /\ cur' = cur /\ new' = new /\ plans' = plans /\ todo' = todo
        /\ snap' = snap /\ pc[p] \in Applying
    BY <1>3 DEF Expire, Applying
  <2>2. OldAt(p)'
    BY <1>0, <1>2, <2>1 DEF OldAt
  <2>3. UpToDate(p)'
    BY <1>0, <1>2, <2>1 DEF UpToDate, Clear, Holders, Applying, SwapPcs, UndoPcs
  <2> QED BY <1>2, <2>2, <2>3 DEF Poised
<1>4. CASE Crash(p)
  <2>1. pc'[p] = "down" /\ plans'[p] = {} /\ ~expired'[p]
    BY <1>4 DEF Crash, Forget
  <2>2. OldAt(p)'
    BY <2>1 DEF OldAt, RenamedPcs, SwapPcs, UndoPcs
  <2>3. UpToDate(p)'
    BY <2>1 DEF UpToDate, Applying, SwapPcs, UndoPcs
  <2> QED BY <1>2, <2>2, <2>3 DEF Poised
<1>5. CASE Restart(p)
  <2>1. pc[p] = "down" /\ pc'[p] = "idle" /\ plans' = plans /\ expired' = expired
    BY <1>0, <1>5 DEF Restart, Goto, work, TypeOK
  <2>2. OldAt(p)'
    BY <2>1 DEF OldAt, RenamedPcs, SwapPcs, UndoPcs
  <2>3. plans'[p] = {} /\ ~expired'[p]
    BY <1>0, <2>1 DEF UpToDate, Applying, SwapPcs, UndoPcs
  <2>4. UpToDate(p)'
    BY <2>1, <2>3 DEF UpToDate, Applying, SwapPcs, UndoPcs
  <2> QED BY <1>2, <2>2, <2>4 DEF Poised
<1>6. CASE UNCHANGED vars
  <2>1. pc' = pc /\ cur' = cur /\ new' = new /\ plans' = plans /\ todo' = todo
        /\ snap' = snap /\ expired' = expired
    BY <1>6 DEF vars, mind
  <2>2. OldAt(p)'
    BY <1>0, <1>2, <2>1 DEF OldAt
  <2>3. UpToDate(p)'
    BY <1>0, <1>2, <2>1 DEF UpToDate, Clear, Holders
  <2> QED BY <1>2, <2>2, <2>3 DEF Poised
<1> QED BY <1>3, <1>4, <1>5, <1>6

\* Inductive: with the knowledge that keeps services, and as long as no call failed.
UpInv == Kept /\ (faults = 0 => \A p \in Procs : Poised(p))

LEMMA UpInit == Init => UpInv
<1> SUFFICES ASSUME Init, NEW p \in Procs PROVE Poised(p)
  BY KeptInit DEF UpInv
<1>1. PICK c \in Ids : nameOf = [x \in Ids |-> IF x = c THEN 0 ELSE Gone]
  BY DEF Init
<1>2. pc[p] = "idle" /\ plans[p] = {} /\ ~expired[p]
  BY DEF Init
<1>3. Front
  BY <1>1 DEF Front, Gone
<1>4. OldAt(p)
  BY <1>2 DEF OldAt, RenamedPcs, SwapPcs, UndoPcs
<1>5. UpToDate(p)
  BY <1>2 DEF UpToDate, Applying, SwapPcs, UndoPcs
<1> QED BY <1>3, <1>4, <1>5 DEF Poised

LEMMA UpStep ==
  ASSUME SingleFlight, ~RestartAlways, UpInv, [Next]_vars
  PROVE  UpInv'
<1>1. Kept' /\ Typed
  BY KeptStep DEF UpInv, Kept
<1>2. SUFFICES ASSUME faults' = 0, NEW p \in Procs PROVE Poised(p)'
  BY <1>1 DEF UpInv
<1>3. Poised(p) /\ Safe(p)
  BY <1>1, <1>2, CalmBefore DEF UpInv, Kept
<1>4. CASE Cycle(p)
  <2>1. CASE StartCycle(p) \/ Reconcile(p) \/ StartRestored(p)
    BY <1>1, <1>2, <1>3, <2>1, RepairUp
  <2>2. CASE Discover(p) \/ EndCycle(p) \/ Pull(p)
    BY <1>1, <1>2, <1>3, <2>2, PlanUp
  <2>3. CASE StopOld(p) \/ RenameOld(p)
    BY <1>1, <1>2, <1>3, <2>3, OldUp
  <2>4. CASE CreateNew(p) \/ AttachNetworks(p) \/ StartNew(p)
    BY <1>1, <1>2, <1>3, <2>4, NewUp
  <2>5. CASE GatePass(p) \/ GateFail(p) \/ Commit(p)
    BY <1>1, <1>2, <1>3, <2>5, GateUp
  <2>6. CASE UndoStop(p) \/ UndoRemove(p) \/ Restore(p) \/ RestartOld(p)
    BY <1>1, <1>2, <1>3, <2>6, UndoUp
  <2> QED BY <1>4, <2>1, <2>2, <2>3, <2>4, <2>5, <2>6 DEF Cycle
<1>5. CASE Expire(p) \/ Crash(p) \/ Restart(p) \/ UNCHANGED vars
  BY <1>1, <1>3, <1>5, UpheavalUp
<1>6. ~Reboot
  BY DEF Reboot
<1>7. \A q \in Procs : q = p
  BY DEF SingleFlight
<1> QED BY <1>4, <1>5, <1>6, <1>7 DEF Next

\* As long as a single process works on the containers, the old and the new container
\* of a service never run at once, wherever the process dies, however often it does,
\* and whatever deadline passes, until a call fails of itself or a reboot starts
\* stopped containers.
THEOREM NeverTwoAtOnce ==
  ASSUME SingleFlight
  PROVE  Spec => []OneAtATime
<1>1. CASE RestartAlways
  <2>1. OneAtATime
    BY <1>1 DEF OneAtATime
  <2> QED BY <2>1, PTL
<1>2. CASE ~RestartAlways
  <2>1. ASSUME UpInv PROVE OneAtATime
    <3> SUFFICES ASSUME faults = 0 PROVE \A c, d \in run \cap Live : c = d
      BY DEF OneAtATime
    <3>1. PICK p \in Procs : TRUE
      BY ProcsAssumption
    <3>2. Front
      BY <2>1, <3>1 DEF UpInv, Poised
    <3> QED BY <3>2 DEF Front, Live
  <2>2. UpInv /\ [Next]_vars => UpInv'
    BY <1>2, UpStep
  <2> QED BY <2>1, <2>2, UpInit, PTL DEF Spec
<1> QED BY <1>1, <1>2
=============================================================================
