------------------------------ MODULE BookProofs ------------------------------
(***************************************************************************)
(* Theorems about what UpdateCycle writes down, for any services, digests, *)
(* pushes, crashes and viewers: announcements, verdicts and views.  They   *)
(* are about one process that records, beside any number of viewers, and   *)
(* each names what else it needs: without it, it is false.                 *)
(***************************************************************************)
EXTENDS UpdateCycleProofs

USE ProcsAssumption

\* The processes that keep books; the others only look.
Recorders == Procs \ Viewers
OneRecorder == \A p, q \in Recorders : p = q

\* state.json says what the recorder knows: no save of a verdict or of an
\* announcement was lost, neither to a failing write nor to a damaged file.
SavesKept ==
    \A p \in Recorders : badDigests[p] = badDigests[File] /\ notified[p] = notified[File]

Told == {k \in Keys : sent[k] > 0}

\* What was announced, and what was found to fail, is in the recorder's books.
Known ==
    /\ \A p \in Recorders : Told \subseteq notified[p] /\ failed \subseteq badDigests[p]
    /\ NotifiedOnce

-----------------------------------------------------------------------------
(* Saves.                                                                  *)

\* What a save leaves in the process's own books, whether it fails or not.
LEMMA OwnSave ==
  ASSUME BookInv, NEW p \in Procs, NEW seen, NEW bad, NEW applied, NEW told,
         Save(p, seen, bad, applied, told)
  PROVE  badDigests'[p] = bad /\ notified'[p] = told
<1>1. p \in Holders /\ p # File BY DEF Holders
<1> QED BY <1>1 DEF Save, Keep, BookInv, Ledgers

\* A viewer saves nothing, reports nothing and judges nothing.
LEMMA OnlyRecordersAct ==
  ASSUME BookInv, NEW p \in Procs, pc[p] \in {"act", "gate"}
  PROVE  p \in Recorders
BY DEF BookInv, Control, Orderly, Recorders

LEMMA OnlyRecordersSee ==
  ASSUME NEW p \in Procs, NEW s \in Services, Evaluate(p, s), p \notin Recorders
  PROVE  UNCHANGED <<books, file, faults>>
BY DEF Evaluate, Records, Recorders

\* The steps that leave verdicts and announcements alone.
LEMMA QuietBooks ==
  ASSUME NEW p \in Procs,
         \/ StartCycle(p) \/ Planned(p) \/ Pull(p) \/ RollBack(p) \/ EndCycle(p) \/ Crash(p)
         \/ \E s \in Services : Unreachable(p, s)
  PROVE  UNCHANGED <<badDigests, notified, file, failed, sent>>
BY DEF StartCycle, Planned, Pull, RollBack, EndCycle, Crash, Unreachable, Done, books, history

LEMMA QuietWorld ==
  ASSUME (\E i \in Images, d \in Digests : Push(i, d)) \/ Tick \/ Damage \/ UNCHANGED vars
  PROVE  UNCHANGED <<badDigests, notified, failed, sent>>
BY DEF Push, Tick, Damage, vars, books, history

\* A sight of a digest is saved with the verdicts and announcements as they are.
LEMMA SightKeeps ==
  ASSUME BookInv, NEW p \in Procs, NEW s \in Services, Evaluate(p, s)
  PROVE  badDigests'[p] = badDigests[p] /\ notified'[p] = notified[p]
<1>1. CASE UNCHANGED <<books, file, faults>> BY <1>1 DEF books
<1>2. CASE SeenAt(p, s, tag[ImageOf[s]]) /\ ~UNCHANGED <<books, file, faults>>
  <2>1. PICK seen : Save(p, seen, badDigests[p], lastApplied[p], notified[p])
    BY <1>2 DEF SeenAt
  <2> QED BY <2>1, OwnSave
<1> QED BY <1>1, <1>2 DEF Evaluate

-----------------------------------------------------------------------------
(* Announcements.                                                          *)

\* The books may only grow where one process keeps them and nothing is lost.
LEMMA KnownFrame ==
  ASSUME Known, UNCHANGED <<failed, sent>>,
         \A p \in Recorders : badDigests'[p] = badDigests[p] /\ notified'[p] = notified[p]
  PROVE  Known'
BY DEF Known, Told, NotifiedOnce

LEMMA ReportKnown ==
  ASSUME SoakInv, BookInv, Known, OneRecorder, NEW p \in Procs, Report(p)
  PROVE  Known'
<1>1. p \in Recorders /\ UNCHANGED failed BY OnlyRecordersAct DEF Report
<1>2. \A r \in Recorders : r = p BY <1>1 DEF OneRecorder
<1>3. PICK q \in plans[p] : FirstNotify(p, q.svc, q.to) BY DEF Report
<1> DEFINE k == <<q.svc, q.to>>
<1>4. q \in Plan BY DEF SoakInv, Timers
<1>5. k \in Keys BY <1>4 DEF Plan, Keys
<1>6. CASE k \in notified[p]
  <2>1. UNCHANGED <<books, sent>> BY <1>3, <1>6 DEF FirstNotify, Announced
  <2> QED BY <1>1, <2>1, KnownFrame DEF books
<1>7. CASE k \notin notified[p]
  <2>1. /\ Save(p, firstSeen[p], badDigests[p], lastApplied[p], notified[p] \cup {k})
        /\ sent' = [sent EXCEPT ![k] = IF @ < 2 THEN @ + 1 ELSE @]
    BY <1>3, <1>7 DEF FirstNotify, Announced
  <2>2. badDigests'[p] = badDigests[p] /\ notified'[p] = notified[p] \cup {k}
    BY <2>1, OwnSave
  <2>3. sent \in [Keys -> 0..2] BY DEF BookInv, Tallies
  <2>4. k \notin Told BY <1>1, <1>7 DEF Known
  <2>5. sent[k] = 0 BY <1>5, <2>3, <2>4 DEF Told
  <2>6. sent'[k] = 1 /\ \A j \in Keys \ {k} : sent'[j] = sent[j]
    BY <1>5, <2>1, <2>3, <2>5
  <2>7. \A j \in Keys : j \in Told' => j \in Told \/ j = k BY <2>6 DEF Told
  <2>8. Told' \subseteq Told \cup {k} BY <2>7 DEF Told
  <2>9. Told' \subseteq notified'[p] /\ failed' \subseteq badDigests'[p]
    BY <1>1, <2>2, <2>8 DEF Known
  <2>10. NotifiedOnce' BY <2>6 DEF Known, NotifiedOnce
  <2> QED BY <1>2, <2>9, <2>10 DEF Known
<1> QED BY <1>6, <1>7

LEMMA VerdictKnown ==
  ASSUME BookInv, Known, OneRecorder, NEW p \in Procs, Succeed(p) \/ FailGate(p)
  PROVE  Known'
<1>1. p \in Recorders /\ UNCHANGED sent
  BY OnlyRecordersAct DEF Succeed, FailGate, history
<1>2. \A r \in Recorders : r = p BY <1>1 DEF OneRecorder
<1>3. CASE Succeed(p)
  <2>1. PICK seen, applied : Save(p, seen, badDigests[p], applied, notified[p])
    BY <1>3 DEF Succeed, MarkApplied
  <2>2. UNCHANGED failed BY <1>3 DEF Succeed, history
  <2> QED BY <1>1, <1>2, <2>1, <2>2, OwnSave, KnownFrame
<1>4. CASE FailGate(p)
  <2>1. Save(p, firstSeen[p], badDigests[p] \cup {job[p].to}, lastApplied[p], notified[p])
    BY <1>4 DEF FailGate, MarkBad
  <2>2. badDigests'[p] = badDigests[p] \cup {job[p].to} /\ notified'[p] = notified[p]
    BY <2>1, OwnSave
  <2>3. failed' = failed \cup {job[p].to} BY <1>4 DEF FailGate
  <2> QED BY <1>1, <1>2, <2>2, <2>3 DEF Known, Told, NotifiedOnce
<1> QED BY <1>3, <1>4

\* A restarted recorder finds in state.json what it knew.
LEMMA LoadKnown ==
  ASSUME BookInv, Known, SavesKept, SavesKept', NEW p \in Procs, Load(p)
  PROVE  Known'
<1>1. UNCHANGED <<failed, sent>> BY DEF Load, history
<1>2. badDigests'[File] = badDigests[File] /\ notified'[File] = notified[File]
  <2>1. p # File OBVIOUS
  <2>2. File \in Holders BY DEF Holders
  <2> QED BY <2>1, <2>2 DEF Load, books, BookInv, Ledgers
<1>3. \A r \in Recorders : badDigests'[r] = badDigests[r] /\ notified'[r] = notified[r]
  BY <1>2 DEF SavesKept
<1> QED BY <1>1, <1>3, KnownFrame

LEMMA KnownStep ==
  ASSUME SoakInv, BookInv, OneRecorder, SavesKept, SavesKept', Known, [Next]_vars
  PROVE  Known'
<1>1. ASSUME NEW p \in Procs, NEW s \in Services, Evaluate(p, s) PROVE Known'
  <2>1. UNCHANGED <<failed, sent>> BY <1>1 DEF Evaluate, history
  <2>2. CASE p \in Recorders
    <3>1. \A r \in Recorders : r = p BY <2>2 DEF OneRecorder
    <3> QED BY <1>1, <2>1, <3>1, SightKeeps, KnownFrame
  <2>3. CASE p \notin Recorders
    BY <1>1, <2>1, <2>3, OnlyRecordersSee, KnownFrame DEF books
  <2> QED BY <2>2, <2>3
<1>2. ASSUME UNCHANGED <<badDigests, notified, failed, sent>> PROVE Known'
  BY <1>2, KnownFrame
<1> QED
  BY <1>1, <1>2, ReportKnown, VerdictKnown, LoadKnown, QuietBooks, QuietWorld DEF Next, Cycle

LEMMA KnownInit == Init => Known
BY DEF Init, Known, Told, NotifiedOnce

LEMMA KnownInvariant ==
  ASSUME OneRecorder
  PROVE  Spec /\ []SavesKept => []Known
<1>1. SoakInv /\ BookInv /\ SavesKept /\ SavesKept' /\ Known /\ [Next]_vars => Known'
  BY KnownStep
<1> QED BY <1>1, KnownInit, BookInvariant, PTL DEF Spec

\* However often the recorder crashes and is restarted, whatever viewers do
\* beside it, a digest is announced at most once per service, as long as
\* state.json keeps what the recorder wrote.
THEOREM AnnouncedOnce ==
  ASSUME OneRecorder
  PROVE  Spec /\ []SavesKept => []NotifiedOnce
<1>1. Known => NotifiedOnce BY DEF Known
<1> QED BY <1>1, KnownInvariant, PTL

-----------------------------------------------------------------------------
(* Verdicts.                                                               *)

\* What a process still has to act on, the plan being applied included.
Due(p) == plans[p] \cup ({job[p]} \ {NoJob})

\* A cycle makes at most one plan for a service, and only once it has been
\* evaluated.
OnePlanEach ==
    \A p \in Procs :
      /\ \A q \in Due(p) : q.svc \notin todo[p]
      /\ \A q, r \in Due(p) : q.svc = r.svc => q = r

LEMMA OnePlanFrame ==
  ASSUME OnePlanEach, \A p \in Procs : Due(p)' \subseteq Due(p) /\ todo'[p] \subseteq todo[p]
  PROVE  OnePlanEach'
BY DEF OnePlanEach

LEMMA OnePlanStep ==
  ASSUME SoakInv, BookInv, OnePlanEach, [Next]_vars
  PROVE  OnePlanEach'
<1>1. /\ plans \in [Procs -> SUBSET Plan] /\ job \in [Procs -> Plan \cup {NoJob}]
      /\ todo \in [Procs -> SUBSET Services]
  BY DEF SoakInv, Timers
<1>2. ASSUME NEW p \in Procs, StartCycle(p) PROVE OnePlanEach'
  <2>1. plans[p] = {} /\ job[p] = NoJob BY <1>2 DEF StartCycle, BookInv, Control, Orderly
  <2>2. UNCHANGED <<plans, job>> /\ \A q \in Procs \ {p} : todo'[q] = todo[q]
    BY <1>1, <1>2 DEF StartCycle
  <2>3. Due(p)' = {} /\ \A q \in Procs : Due(q)' = Due(q) BY <2>1, <2>2 DEF Due
  <2> QED BY <2>2, <2>3 DEF OnePlanEach
<1>3. ASSUME NEW p \in Procs, NEW s \in Services, Evaluate(p, s) PROVE OnePlanEach'
  <2> DEFINE new == PlanFor(p, s, tag[ImageOf[s]])
  <2>1. s \in todo[p] /\ todo' = [todo EXCEPT ![p] = @ \ {s}] /\ UNCHANGED job
    BY <1>3 DEF Evaluate
  <2>2. plans' = plans \/ plans' = [plans EXCEPT ![p] = @ \cup {new}] BY <1>3 DEF Evaluate
  <2>3. new.svc = s BY DEF PlanFor
  <2>4. /\ Due(p)' \subseteq Due(p) \cup {new}
        /\ \A q \in Procs \ {p} : Due(q)' = Due(q) /\ todo'[q] = todo[q]
        /\ todo'[p] = todo[p] \ {s}
    BY <1>1, <2>1, <2>2 DEF Due
  <2>5. \A q \in Due(p) : q.svc # s BY <2>1 DEF OnePlanEach
  <2> HIDE DEF new
  <2>6. /\ \A q \in Due(p)' : q.svc \notin todo'[p]
        /\ \A q, r \in Due(p)' : q.svc = r.svc => q = r
    BY <2>3, <2>4, <2>5 DEF OnePlanEach
  <2> QED BY <2>4, <2>6 DEF OnePlanEach
<1>4. ASSUME NEW p \in Procs, Pull(p) PROVE OnePlanEach'
  <2>1. PICK q \in plans[p] :
           /\ plans' = [plans EXCEPT ![p] = @ \ {q}]
           /\ job' = [job EXCEPT ![p] = q] \/ job' = job
    BY <1>4 DEF Pull
  <2>2. \A r \in Procs : Due(r)' \subseteq Due(r) BY <1>1, <2>1 DEF Due
  <2> QED BY <1>4, <2>2, OnePlanFrame DEF Pull
<1>5. ASSUME NEW p \in Procs,
             \/ Load(p) \/ Planned(p) \/ Report(p) \/ Succeed(p) \/ FailGate(p)
             \/ RollBack(p) \/ EndCycle(p) \/ Crash(p)
             \/ \E s \in Services : Unreachable(p, s)
      PROVE  OnePlanEach'
  <2>1. \A r \in Procs : Due(r)' \subseteq Due(r)
    BY <1>1, <1>5 DEF Load, Planned, Report, Succeed, FailGate, RollBack, EndCycle, Crash,
                      Unreachable, Done, Due
  <2>2. \A r \in Procs : todo'[r] \subseteq todo[r]
    BY <1>1, <1>5 DEF Load, Planned, Report, Succeed, FailGate, RollBack, EndCycle, Crash,
                      Unreachable, Done
  <2> QED BY <2>1, <2>2, OnePlanFrame
<1>6. ASSUME (\E i \in Images, d \in Digests : Push(i, d)) \/ Tick \/ Damage \/ UNCHANGED vars
      PROVE  OnePlanEach'
  <2>1. UNCHANGED <<plans, job, todo>> BY <1>6 DEF Push, Tick, Damage, vars, mind
  <2> QED BY <2>1, OnePlanFrame DEF Due
<1> QED BY <1>2, <1>3, <1>4, <1>5, <1>6 DEF Next, Cycle

\* In one cycle a service is planned for at most once, whatever moves the tag
\* meanwhile: no update is applied on top of one made from the same view.
THEOREM PlannedOnce == Spec => []OnePlanEach
<1>1. Init => OnePlanEach BY DEF Init, OnePlanEach, Due
<1>2. SoakInv /\ BookInv /\ OnePlanEach /\ [Next]_vars => OnePlanEach' BY OnePlanStep
<1> QED BY <1>1, <1>2, BookInvariant, PTL DEF Spec

\* No two services are due for the same digest.  Where two share an image, the
\* second is tried in the very cycle in which the first has failed.
OwnDigests == \A p \in Procs : \A q, r \in UpdatePlans(p) : q.to = r.to => q.svc = r.svc

\* No plan still to be acted on is for a digest that has failed.
Fit == \A p \in Recorders : \A q \in plans[p] : q.action = "update" => q.to \notin failed

LEMMA FitFrame ==
  ASSUME Fit, UNCHANGED failed, \A p \in Recorders : plans'[p] \subseteq plans[p]
  PROVE  Fit'
BY DEF Fit

LEMMA FitStep ==
  ASSUME SoakInv, BookInv, OneRecorder, OnePlanEach, OwnDigests, Known, Fit, [Next]_vars
  PROVE  Fit'
<1>1. plans \in [Procs -> SUBSET Plan] BY DEF SoakInv, Timers
<1>2. ASSUME NEW p \in Procs, NEW s \in Services, Evaluate(p, s) PROVE Fit'
  <2> DEFINE d == tag[ImageOf[s]]
  <2>1. UNCHANGED failed BY <1>2 DEF Evaluate, history
  <2>2. \/ plans' = plans
        \/ ~Rejected(p, s, d) /\ plans' = [plans EXCEPT ![p] = @ \cup {PlanFor(p, s, d)}]
    BY <1>2 DEF Evaluate
  <2>3. CASE plans' = plans BY <2>1, <2>3, FitFrame
  <2>4. CASE ~Rejected(p, s, d) /\ plans' = [plans EXCEPT ![p] = @ \cup {PlanFor(p, s, d)}]
    <3>1. PlanFor(p, s, d).action = "update" =>
            d \notin badDigests[p] /\ PlanFor(p, s, d).to = d
      BY <2>4 DEF PlanFor, OnlyReported, Rejected
    <3>2. p \in Recorders => failed \subseteq badDigests[p] BY DEF Known
    <3>3. \A r \in Recorders : plans'[r] \subseteq plans[r] \cup IF r = p THEN {PlanFor(p, s, d)} ELSE {}
      BY <1>1, <2>4 DEF Recorders
    <3> HIDE DEF d
    <3> QED BY <2>1, <3>1, <3>2, <3>3 DEF Fit
  <2> QED BY <2>2, <2>3, <2>4
<1>3. ASSUME NEW p \in Procs, FailGate(p) PROVE Fit'
  <2>1. pc[p] = "gate" /\ failed' = failed \cup {job[p].to} /\ plans' = plans
    BY <1>3 DEF FailGate, Done
  <2>2. p \in Recorders BY <2>1, OnlyRecordersAct
  <2>3. \A r \in Recorders : r = p BY <2>2 DEF OneRecorder
  <2>4. job[p].action = "update" /\ job[p] \notin plans[p]
    BY <2>1 DEF BookInv, Control, Orderly
  <2>5. ASSUME NEW q \in plans[p], q.action = "update" PROVE q.to # job[p].to
    <3>1. job[p] \in Due(p) /\ q \in Due(p)
      BY <1>1, <2>1 DEF Due, BookInv, Control, Orderly
    <3>2. q \in UpdatePlans(p) /\ job[p] \in UpdatePlans(p)
      BY <2>4, <2>5 DEF UpdatePlans
    <3> QED BY <2>4, <3>1, <3>2 DEF OwnDigests, OnePlanEach
  <2> QED BY <2>1, <2>3, <2>5 DEF Fit
<1>4. ASSUME NEW p \in Procs,
             \/ Load(p) \/ StartCycle(p) \/ Planned(p) \/ Report(p) \/ Pull(p)
             \/ Succeed(p) \/ RollBack(p) \/ EndCycle(p) \/ Crash(p)
             \/ \E s \in Services : Unreachable(p, s)
      PROVE  Fit'
  <2>1. UNCHANGED failed
    BY <1>4 DEF Load, StartCycle, Planned, Report, Pull, Succeed, RollBack, EndCycle, Crash,
                Unreachable, history
  <2>2. \A r \in Recorders : plans'[r] \subseteq plans[r]
    BY <1>1, <1>4 DEF Load, StartCycle, Planned, Report, Pull, Succeed, RollBack, EndCycle,
                      Crash, Unreachable, Done, Recorders
  <2> QED BY <2>1, <2>2, FitFrame
<1>5. ASSUME (\E i \in Images, d \in Digests : Push(i, d)) \/ Tick \/ Damage \/ UNCHANGED vars
      PROVE  Fit'
  BY <1>5, FitFrame DEF Push, Tick, Damage, vars, mind, history
<1> QED BY <1>2, <1>3, <1>4, <1>5 DEF Next, Cycle

\* A plan is taken up only in a pull, by a recorder.
LEMMA TakenUp ==
  ASSUME SoakInv, BookInv, Fit, [Next]_vars, NEW p \in Procs,
         job[p] = NoJob, job'[p] # NoJob
  PROVE  job'[p].to \notin failed
<1>1. job \in [Procs -> Plan \cup {NoJob}] BY DEF SoakInv, Timers
<1>2. ASSUME NEW q \in Procs, Pull(q) PROVE job'[p].to \notin failed
  <2>1. PICK r \in plans[q] : r.action = "update" /\ (job' = [job EXCEPT ![q] = r] \/ job' = job)
    BY <1>2 DEF Pull
  <2>2. p = q /\ job'[p] = r BY <1>1, <2>1
  <2>3. q \in Recorders BY <1>2, OnlyRecordersAct DEF Pull
  <2> QED BY <2>1, <2>2, <2>3 DEF Fit
<1>3. ASSUME NEW q \in Procs, Succeed(q) \/ FailGate(q) \/ RollBack(q) \/ Crash(q)
      PROVE  FALSE
  BY <1>1, <1>3 DEF Succeed, FailGate, RollBack, Crash, Done
<1>4. ASSUME NEW q \in Procs,
             \/ Load(q) \/ StartCycle(q) \/ Planned(q) \/ Report(q) \/ EndCycle(q)
             \/ \E s \in Services : Evaluate(q, s) \/ Unreachable(q, s)
      PROVE  FALSE
  BY <1>4 DEF Load, StartCycle, Planned, Report, EndCycle, Evaluate, Unreachable
<1>5. ASSUME (\E i \in Images, d \in Digests : Push(i, d)) \/ Tick \/ Damage \/ UNCHANGED vars
      PROVE  FALSE
  BY <1>5 DEF Push, Tick, Damage, vars, mind
<1> QED BY <1>2, <1>3, <1>4, <1>5 DEF Next, Cycle

\* A digest that has failed its health gate is not tried again, neither after
\* a restart nor because a plan made before is still waiting, as long as
\* state.json keeps what the recorder wrote and no two services are due for
\* the same digest.
THEOREM FailuresNotRetried ==
  ASSUME OneRecorder
  PROVE  Spec /\ []SavesKept /\ []OwnDigests => NeverRetried
<1>1. Init => Fit BY DEF Init, Fit, Recorders
<1>2. SoakInv /\ BookInv /\ OnePlanEach /\ OwnDigests /\ Known /\ Fit /\ [Next]_vars => Fit'
  BY FitStep
<1>3. SoakInv /\ BookInv /\ Fit /\ [Next]_vars
        => [\A p \in Procs : job[p] = NoJob /\ job'[p] # NoJob => job'[p].to \notin failed]_vars
  BY TakenUp
<1> QED BY <1>1, <1>2, <1>3, KnownInvariant, BookInvariant, PlannedOnce, PTL
     DEF Spec, NeverRetried

-----------------------------------------------------------------------------
(* state.json.                                                             *)

\* Nothing is lost on the way to the disk: an absent file is one that was
\* never written.
Whole ==
    /\ file \in {"ok", "absent"}
    /\ file = "absent" => badDigests[File] = {} /\ notified[File] = {}
    /\ SavesKept

LEMMA SaveWhole ==
  ASSUME BookInv, Whole, OneRecorder, MaxFaults = 0, NEW p \in Recorders,
         NEW seen, NEW bad, NEW applied, NEW told, Save(p, seen, bad, applied, told)
  PROVE  Whole'
<1>1. PICK saved \in BOOLEAN :
         /\ saved \/ faults < MaxFaults
         /\ badDigests' = Keep(badDigests, p, bad, saved)
         /\ notified'   = Keep(notified, p, told, saved)
         /\ file' = IF saved THEN "ok" ELSE file
  BY DEF Save
<1>2. faults = 0 BY DEF BookInv, Ledgers
<1>3. saved BY <1>1, <1>2
<1>4. p \in Holders /\ File \in Holders /\ p # File BY DEF Holders, Recorders
<1>5. /\ badDigests'[p] = bad /\ badDigests'[File] = bad
      /\ notified'[p] = told /\ notified'[File] = told
  BY <1>1, <1>3, <1>4 DEF Keep, BookInv, Ledgers
<1>6. \A r \in Recorders : r = p BY DEF OneRecorder
<1>7. file' = "ok" BY <1>1, <1>3
<1> QED BY <1>5, <1>6, <1>7 DEF Whole, SavesKept

LEMMA WholeStep ==
  ASSUME BookInv, Whole, OneRecorder, MaxFaults = 0, MaxDamage = 0, [Next]_vars
  PROVE  Whole'
<1>1. ASSUME UNCHANGED <<badDigests, notified, file>> PROVE Whole'
  BY <1>1 DEF Whole, SavesKept
<1>2. ASSUME NEW p \in Procs, NEW s \in Services, Evaluate(p, s) PROVE Whole'
  <2>1. CASE UNCHANGED <<books, file, faults>> BY <2>1, <1>1 DEF books
  <2>2. CASE SeenAt(p, s, tag[ImageOf[s]]) /\ ~UNCHANGED <<books, file, faults>>
    <3>1. p \in Recorders BY <1>2, <2>2, OnlyRecordersSee
    <3>2. PICK seen : Save(p, seen, badDigests[p], lastApplied[p], notified[p])
      BY <2>2 DEF SeenAt
    <3> QED BY <3>1, <3>2, SaveWhole
  <2> QED BY <1>2, <2>1, <2>2 DEF Evaluate
<1>3. ASSUME NEW p \in Procs, Report(p) PROVE Whole'
  <2>1. p \in Recorders BY <1>3, OnlyRecordersAct DEF Report
  <2>2. \/ UNCHANGED <<books, file>>
        \/ \E told : Save(p, firstSeen[p], badDigests[p], lastApplied[p], told)
    BY <1>3 DEF Report, FirstNotify
  <2> QED BY <2>1, <2>2, <1>1, SaveWhole DEF books
<1>4. ASSUME NEW p \in Procs, Succeed(p) \/ FailGate(p) PROVE Whole'
  <2>1. p \in Recorders BY <1>4, OnlyRecordersAct DEF Succeed, FailGate
  <2>2. \E seen, bad, applied, told : Save(p, seen, bad, applied, told)
    BY <1>4 DEF Succeed, FailGate, MarkApplied, MarkBad
  <2> QED BY <2>1, <2>2, SaveWhole
<1>5. ASSUME NEW p \in Procs, Load(p) PROVE Whole'
  <2>1. file # "corrupt" BY DEF Whole
  <2>2. /\ file' = file
        /\ badDigests' = [badDigests EXCEPT ![p] = IF file = "ok" THEN badDigests[File] ELSE {}]
        /\ notified' = [notified EXCEPT ![p] = IF file = "ok" THEN notified[File] ELSE {}]
    BY <1>5, <2>1 DEF Load
  <2>3. p \in Holders /\ File \in Holders /\ p # File BY DEF Holders
  <2>4. badDigests'[p] = badDigests[File] /\ notified'[p] = notified[File]
    BY <2>2, <2>3 DEF Whole, BookInv, Ledgers
  <2>5. \A h \in Holders \ {p} : badDigests'[h] = badDigests[h] /\ notified'[h] = notified[h]
    BY <2>2 DEF BookInv, Ledgers
  <2>6. SavesKept' BY <2>3, <2>4, <2>5 DEF Whole, SavesKept, Recorders, Holders
  <2> QED BY <2>2, <2>3, <2>5, <2>6 DEF Whole
<1>6. ~Damage BY DEF Damage, BookInv, Tallies
<1>7. ASSUME (\E i \in Images, d \in Digests : Push(i, d)) \/ Tick \/ UNCHANGED vars PROVE Whole'
  BY <1>7, <1>1 DEF Push, Tick, vars, books
<1> QED BY <1>1, <1>2, <1>3, <1>4, <1>5, <1>6, <1>7, QuietBooks DEF Next, Cycle

\* If no write fails and no power cut damages the file, state.json says what
\* the recorder knows at every moment, a crash between any two steps included.
THEOREM NothingLost ==
  ASSUME OneRecorder, MaxFaults = 0, MaxDamage = 0
  PROVE  Spec => []SavesKept
<1>1. Init => Whole BY DEF Init, Whole, SavesKept, Holders, Recorders
<1>2. BookInv /\ Whole /\ [Next]_vars => Whole' BY WholeStep
<1>3. Whole => SavesKept BY DEF Whole
<1> QED BY <1>1, <1>2, <1>3, BookInvariant, PTL DEF Spec

-----------------------------------------------------------------------------
(* One service to keep up to date.                                         *)

\* The services that may be updated at all, and hosts with only one of them.
Updatable == Services \ (MonitorOnly \cup Self \cup Fixed)
OneUpdatable == \A s, t \in Updatable : s = t

\* PullPilot itself, monitor-only services and services that are pinned or
\* built locally are never due for an update.
OnlyUpdatable == \A p \in Procs : \A q \in UpdatePlans(p) : q.svc \in Updatable

\* A step makes no update plan but evaluate's.
LEMMA NewUpdates ==
  ASSUME SoakInv, [Next]_vars, NEW p \in Procs, NEW q \in UpdatePlans(p)', q \notin UpdatePlans(p)
  PROVE  \E s \in Services :
           LET d == tag[ImageOf[s]] IN
             Considered(p, s, d) /\ ~Rejected(p, s, d) /\ q = PlanFor(p, s, d)
<1>1. plans \in [Procs -> SUBSET Plan] /\ job \in [Procs -> Plan \cup {NoJob}]
  BY DEF SoakInv, Timers
<1>2. NoJob.action # "update" BY DEF NoJob
<1>3. q \in plans'[p] \cup {job'[p]} /\ q.action = "update" /\ q \notin plans[p] \cup {job[p]}
  BY DEF UpdatePlans
<1>4. ASSUME NEW o \in Procs, Pull(o) PROVE FALSE
  <2>1. PICK r \in plans[o] :
           /\ plans' = [plans EXCEPT ![o] = @ \ {r}]
           /\ job' = [job EXCEPT ![o] = r] \/ job' = job
    BY <1>4 DEF Pull
  <2>2. plans'[p] \subseteq plans[p] /\ job'[p] \in plans[p] \cup {job[p]} BY <1>1, <2>1
  <2> QED BY <1>3, <2>2
<1>5. ASSUME NEW o \in Procs,
             \/ Load(o) \/ StartCycle(o) \/ Planned(o) \/ Report(o) \/ Succeed(o)
             \/ FailGate(o) \/ RollBack(o) \/ EndCycle(o) \/ Crash(o)
             \/ \E s \in Services : Unreachable(o, s)
      PROVE  FALSE
  <2>1. plans'[p] \subseteq plans[p] /\ job'[p] \in {job[p], NoJob}
    BY <1>1, <1>5 DEF Load, StartCycle, Planned, Report, Succeed, FailGate, RollBack,
                      EndCycle, Crash, Unreachable, Done
  <2> QED BY <1>2, <1>3, <2>1
<1>6. ASSUME (\E i \in Images, d \in Digests : Push(i, d)) \/ Tick \/ Damage \/ UNCHANGED vars
      PROVE  FALSE
  BY <1>3, <1>6 DEF Push, Tick, Damage, vars, mind
<1>7. PICK o \in Procs, s \in Services : Evaluate(o, s)
  BY <1>4, <1>5, <1>6 DEF Next, Cycle
<1> DEFINE d == tag[ImageOf[s]]
<1>8. UNCHANGED job
      /\ \/ plans' = plans
         \/ /\ Considered(o, s, d) /\ ~Rejected(o, s, d)
            /\ plans' = [plans EXCEPT ![o] = @ \cup {PlanFor(o, s, d)}]
  BY <1>7 DEF Evaluate
<1>9. o = p /\ q = PlanFor(p, s, d) /\ Considered(p, s, d) /\ ~Rejected(p, s, d)
  BY <1>1, <1>3, <1>8
<1> QED BY <1>9

LEMMA OnlyUpdatableStep ==
  ASSUME SoakInv, OnlyUpdatable, [Next]_vars
  PROVE  OnlyUpdatable'
<1>1. ASSUME NEW p \in Procs, NEW q \in UpdatePlans(p)', q \notin UpdatePlans(p)
      PROVE  q.svc \in Updatable
  <2>1. PICK s \in Services :
           /\ Considered(p, s, tag[ImageOf[s]]) /\ ~Rejected(p, s, tag[ImageOf[s]])
           /\ q = PlanFor(p, s, tag[ImageOf[s]])
    BY <1>1, NewUpdates
  <2>2. q.action = "update" BY DEF UpdatePlans
  <2>3. q.svc = s /\ ~OnlyReported(p, s, tag[ImageOf[s]]) BY <2>1, <2>2 DEF PlanFor
  <2> QED BY <2>1, <2>3 DEF Considered, Rejected, OnlyReported, Updatable
<1>2. \A p \in Procs : \A q \in UpdatePlans(p)' : q.svc \in Updatable
  BY <1>1 DEF OnlyUpdatable
<1> QED BY <1>2 DEF OnlyUpdatable

\* Monitor-only services and PullPilot itself are reported, never updated,
\* even when the digest at hand has been marked bad.
THEOREM NeverUpdatedUninvited == Spec => []OnlyUpdatable
<1>1. Init => OnlyUpdatable BY DEF Init, OnlyUpdatable, UpdatePlans, NoJob
<1>2. SoakInv /\ OnlyUpdatable /\ [Next]_vars => OnlyUpdatable' BY OnlyUpdatableStep
<1> QED BY <1>1, <1>2, BookInvariant, PTL DEF Spec

\* With one recorder, one service to update and saves that succeed, nothing is
\* announced twice and no failed digest is tried again, whatever crashes,
\* pushes and viewers come in between.
THEOREM OneServiceRemembered ==
  ASSUME OneRecorder, OneUpdatable, MaxFaults = 0, MaxDamage = 0
  PROVE  Spec => []NotifiedOnce /\ NeverRetried
<1>1. OnlyUpdatable => OwnDigests
  BY DEF OnlyUpdatable, OneUpdatable, OwnDigests
<1> QED
  BY <1>1, NothingLost, AnnouncedOnce, FailuresNotRetried, NeverUpdatedUninvited, PTL

-----------------------------------------------------------------------------
(* Viewers.                                                                *)

LEMMA ViewerStep ==
  ASSUME BookInv, SoakInv, file # "corrupt", NEW p \in Viewers, Cycle(p)
  PROVE  UNCHANGED <<cur, local, file, firstSeen[File], badDigests[File], notified[File]>>
<1>1. p \in Procs /\ p # File /\ p \notin Recorders /\ File \in Holders
  BY DEF Recorders, Holders
<1>2. pc[p] \notin {"act", "gate"} BY <1>1, OnlyRecordersAct
<1>3. ~(Report(p) \/ Pull(p) \/ Succeed(p) \/ FailGate(p) \/ RollBack(p) \/ EndCycle(p))
  BY <1>2 DEF Report, Pull, Succeed, FailGate, RollBack, EndCycle
<1>4. CASE Load(p)
  BY <1>1, <1>4 DEF Load, host, BookInv, Ledgers, SoakInv, Timers
<1>5. CASE StartCycle(p) \/ Planned(p)
  BY <1>5 DEF StartCycle, Planned, host, books
<1>6. ASSUME NEW s \in Services, Evaluate(p, s) \/ Unreachable(p, s)
      PROVE  UNCHANGED <<cur, local, file, firstSeen[File], badDigests[File], notified[File]>>
  <2>1. UNCHANGED <<books, file>> BY <1>1, <1>6, OnlyRecordersSee DEF Unreachable
  <2> QED BY <1>6, <2>1 DEF Evaluate, Unreachable, host, books
<1> QED BY <1>3, <1>4, <1>5, <1>6 DEF Cycle

\* `status` and dry runs change nothing, whatever daemons do meanwhile: no
\* step of theirs reaches the host, state.json or a soak timer in it, unless
\* the file is corrupt, which whoever loads it first moves away.
THEOREM LookingChangesNothing ==
  Spec /\ [](file # "corrupt") => ViewersOnlyLook
<1>1. BookInv /\ SoakInv /\ file # "corrupt" /\ [Next]_vars
        => [\A p \in Viewers : Cycle(p) =>
              UNCHANGED <<cur, local, file, firstSeen[File], badDigests[File], notified[File]>>]_vars
  BY ViewerStep
<1> QED BY <1>1, BookInvariant, PTL DEF Spec, ViewersOnlyLook
=============================================================================
