----------------------------- MODULE UpdateCycle -----------------------------
(***************************************************************************)
(* Which digest runs where: the update cycle of internal/engine/engine.go  *)
(* (buildPlan, evaluate, Run, the outcome of apply) with the bookkeeping   *)
(* of internal/state/state.go, in memory and in state.json, for several    *)
(* services, processes, restarts and a registry whose tags move.           *)
(*                                                                         *)
(* A recreate is one step after its pull (Recreate has its Docker calls).  *)
(* Times are ages: the time since a digest was first seen or published,    *)
(* cut off at MaxAge, past the longest soak.                               *)
(***************************************************************************)
EXTENDS Integers

CONSTANTS
    Procs,          \* pullpilot processes sharing the data dir
    Viewers,        \* those running `status` or with PP_DRY_RUN (record = false)
    OneShot,        \* those that exit after a cycle: `run` and `status`
    File,           \* state.json, beside the processes' own memory
    Services, Images, Digests,
    Absent,         \* "no digest"
    ImageOf,        \* [Services -> Images]
    Soak,           \* [Services -> Nat], PP_SOAK or io.pullpilot.soak
    Rank,           \* [Services -> Nat], io.pullpilot.order then name
    MonitorOnly,    \* services labelled monitor-only
    Self,           \* PullPilot's own service, if it is in scope
    Fixed,          \* services pinned by digest or built locally
    Broken,         \* digests that fail their health gate
    Doubtful,       \* digests that may: an inspect without an answer is a verdict
    MayStop,        \* services whose container is stopped at times
    MaxAge,         \* bound: where ages are cut off
    MaxPushes,      \* bound: how often tags move
    MaxFaults,      \* bound: failing writes, failing recreates
    MaxCrashes,     \* bound: how often a process dies
    MaxDamage       \* bound: how often a power cut leaves state.json unreadable

ASSUME ProcsAssumption   == Viewers \cup OneShot \subseteq Procs /\ File \notin Procs
ASSUME DigestsAssumption == Absent \notin Digests /\ Broken \cup Doubtful \subseteq Digests
ASSUME ServicesAssumption ==
    /\ ImageOf \in [Services -> Images] /\ Rank \in [Services -> Nat]
    /\ MonitorOnly \cup Self \cup Fixed \cup MayStop \subseteq Services
ASSUME SoakAssumption ==
    MaxAge \in Nat /\ Soak \in [Services -> Nat] /\ \A s \in Services : Soak[s] <= MaxAge
ASSUME BoundAssumption == {MaxPushes, MaxFaults, MaxCrashes, MaxDamage} \subseteq Nat

VARIABLES
    \* the registry
    tag,        \* [Images -> the digest the tag points at]
    published,  \* [Images -> [Digests -> age of the digest, or Never]]
    \* the Docker host
    local,      \* [Images -> digest the tag was last pulled at]
    cur,        \* [Services -> digest the container runs]
    \* the State of each process, and of state.json
    firstSeen, badDigests, lastApplied, notified,
    file,       \* state.json is "ok", "absent" or "corrupt"
    \* each process
    pc, todo,   \* discover: services still to evaluate
    view,       \* discover: the digests the containers ran
    plans,      \* Run: plans still to act on
    job,        \* apply: the plan being applied
    \* history
    failed,     \* digests that were marked bad by some process
    sent,       \* soak and monitor notifications sent per service and digest
    pushes, faults, crashes, damage

registry == <<tag, published>>
host     == <<local, cur>>
books    == <<firstSeen, badDigests, lastApplied, notified>>
mind     == <<pc, todo, view, plans, job>>
history  == <<failed, sent>>
budget   == <<pushes, faults, crashes, damage>>
vars     == <<registry, host, books, file, mind, history, budget>>

Never == -1
Ages  == 0..MaxAge \cup {Never}
Older(a) == IF a \in 0..(MaxAge - 1) THEN a + 1 ELSE a

Keys    == Services \X Digests
Holders == Procs \cup {File}
Plan    == [svc : Services, action : {"update", "soaking", "monitor"}, to : Digests]
NoJob   == [svc |-> Absent, action |-> "none", to |-> Absent]

NothingSeen    == [k \in Keys |-> Never]
NothingApplied == [s \in Services |-> Absent]

TypeOK ==
    /\ tag \in [Images -> Digests]
    /\ published \in [Images -> [Digests -> Ages]]
    /\ local \in [Images -> Digests] /\ cur \in [Services -> Digests]
    /\ firstSeen \in [Holders -> [Keys -> Ages]]
    /\ badDigests \in [Holders -> SUBSET Digests]
    /\ lastApplied \in [Holders -> [Services -> Digests \cup {Absent}]]
    /\ notified \in [Holders -> SUBSET Keys]
    /\ file \in {"ok", "absent", "corrupt"}
    /\ pc \in [Procs -> {"down", "idle", "plan", "act", "gate"}]
    /\ todo \in [Procs -> SUBSET Services]
    /\ view \in [Procs -> [Services -> Digests]]
    /\ plans \in [Procs -> SUBSET Plan]
    /\ job \in [Procs -> Plan \cup {NoJob}]
    /\ failed \subseteq Digests
    /\ sent \in [Keys -> 0..2]
    /\ pushes \in 0..MaxPushes /\ faults \in 0..MaxFaults
    /\ crashes \in 0..MaxCrashes /\ damage \in 0..MaxDamage

-----------------------------------------------------------------------------
(* The state file.                                                         *)

\* p's book becomes val; so does the file's when the save succeeds, and a
\* save writes every book of p, changed or not.
Keep(book, p, val, saved) ==
    [book EXCEPT ![p] = val, ![File] = IF saved THEN val ELSE @]

\* save's error is ignored by every caller: what fails to reach the disk is
\* kept in memory only.
Save(p, seen, bad, applied, told) ==
    \E saved \in BOOLEAN :
      /\ saved \/ faults < MaxFaults
      /\ faults' = IF saved THEN faults ELSE faults + 1
      /\ firstSeen'   = Keep(firstSeen, p, seen, saved)
      /\ badDigests'  = Keep(badDigests, p, bad, saved)
      /\ lastApplied' = Keep(lastApplied, p, applied, saved)
      /\ notified'    = Keep(notified, p, told, saved)
      /\ file' = IF saved THEN "ok" ELSE file

\* SeenAt records the first sight of a digest and never moves it.
SeenAt(p, s, d) ==
    IF firstSeen[p][<<s, d>>] # Never
      THEN UNCHANGED <<books, file, faults>>
      ELSE Save(p, [firstSeen[p] EXCEPT ![<<s, d>>] = 0],
                badDigests[p], lastApplied[p], notified[p])

\* Slip: a bad digest is remembered but not saved.
MarkBadUnsaved(p, d) ==
    /\ badDigests' = [badDigests EXCEPT ![p] = @ \cup {d}]
    /\ UNCHANGED <<firstSeen, lastApplied, notified, file, faults>>

MarkBad(p, d) ==
    Save(p, firstSeen[p], badDigests[p] \cup {d}, lastApplied[p], notified[p])

\* MarkApplied also drops the service's other first sights.
Pruned(seen, s, d) == [k \in Keys |-> IF k[1] = s /\ k[2] # d THEN Never ELSE seen[k]]
MarkApplied(p, s, d) ==
    Save(p, Pruned(firstSeen[p], s, d), badDigests[p],
         [lastApplied[p] EXCEPT ![s] = d], notified[p])

\* Slip: the record of announcements is not consulted.
AnnouncedNever(p, s, d) == FALSE

Announced(p, s, d) == <<s, d>> \in notified[p]

\* FirstNotify, and the notification it allows.
FirstNotify(p, s, d) ==
    IF Announced(p, s, d)
      THEN UNCHANGED <<books, file, faults, sent>>
      ELSE /\ Save(p, firstSeen[p], badDigests[p], lastApplied[p], notified[p] \cup {<<s, d>>})
           /\ sent' = [sent EXCEPT ![<<s, d>>] = IF @ < 2 THEN @ + 1 ELSE @]

\* Load: a corrupt file is moved away and the process exits with an error; an
\* absent one is an empty state.
Load(p) ==
    /\ pc[p] = "down"
    /\ IF file = "corrupt"
         THEN file' = "absent" /\ UNCHANGED <<books, pc>>
         ELSE /\ pc' = [pc EXCEPT ![p] = "idle"]
              /\ LET kept == (file = "ok") IN
                 /\ firstSeen'   = [firstSeen EXCEPT ![p] = IF kept THEN firstSeen[File] ELSE NothingSeen]
                 /\ badDigests'  = [badDigests EXCEPT ![p] = IF kept THEN badDigests[File] ELSE {}]
                 /\ lastApplied' = [lastApplied EXCEPT ![p] = IF kept THEN lastApplied[File] ELSE NothingApplied]
                 /\ notified'    = [notified EXCEPT ![p] = IF kept THEN notified[File] ELSE {}]
              /\ UNCHANGED file
    /\ UNCHANGED <<registry, host, todo, view, plans, job, history, budget>>

-----------------------------------------------------------------------------
(* buildPlan.                                                              *)

\* discover: every container in scope, as it runs now.
StartCycle(p) ==
    /\ pc[p] = "idle"
    /\ pc' = [pc EXCEPT ![p] = "plan"]
    /\ todo' = [todo EXCEPT ![p] = Services]
    /\ view' = [view EXCEPT ![p] = cur]
    /\ UNCHANGED <<registry, host, books, file, plans, job, history, budget>>

\* Slip: every sight of a digest counts as the first.
SeenAgeReset(p, s, d) == 0

\* The age evaluate goes by: PeekSeen's or SeenAt's, and 0 at first sight.
SeenAge(p, s, d) == IF firstSeen[p][<<s, d>>] = Never THEN 0 ELSE firstSeen[p][<<s, d>>]

\* evaluate for one target whose registry answers, in the code's order: what
\* is current, PullPilot itself, blacklisted, monitor-only, soaking, due.
Considered(p, s, d) == s \notin Fixed /\ d # view[p][s]
OnlyReported(p, s, d) == s \in Self \/ (s \in MonitorOnly /\ d \notin badDigests[p])
Rejected(p, s, d) == s \notin Self /\ d \in badDigests[p]
\* Slip: the soak window is cut one unit short.
SoakedEarly(p, s, d) == SeenAge(p, s, d) + 1 >= Soak[s]

Soaked(p, s, d) == SeenAge(p, s, d) >= Soak[s]

\* Slip: a soaking plan is left with the zero action.
PlanForUnset(p, s, d) ==
    [svc |-> s, to |-> d,
     action |-> IF OnlyReported(p, s, d) THEN "monitor"
                ELSE IF Soaked(p, s, d) THEN "update" ELSE ""]

PlanFor(p, s, d) ==
    [svc |-> s, to |-> d,
     action |-> IF OnlyReported(p, s, d) THEN "monitor"
                ELSE IF Soaked(p, s, d) THEN "update" ELSE "soaking"]

\* Slip: a view starts soak timers.
RecordsAlways(p) == TRUE

\* Read-only views peek at the soak timer and never start one.
Records(p) == p \notin Viewers

Evaluate(p, s) ==
    LET d == tag[ImageOf[s]] IN
    /\ pc[p] = "plan" /\ s \in todo[p]
    /\ todo' = [todo EXCEPT ![p] = @ \ {s}]
    /\ IF Considered(p, s, d) /\ ~Rejected(p, s, d)
         THEN /\ plans' = [plans EXCEPT ![p] = @ \cup {PlanFor(p, s, d)}]
              /\ IF Records(p) /\ ~OnlyReported(p, s, d)
                   THEN SeenAt(p, s, d)
                   ELSE UNCHANGED <<books, file, faults>>
         ELSE UNCHANGED <<plans, books, file, faults>>
    /\ UNCHANGED <<registry, host, pc, view, job, history, pushes, crashes, damage>>

\* evaluate when the registry (or the image inspect) gives no answer.
Unreachable(p, s) ==
    /\ pc[p] = "plan" /\ s \in todo[p]
    /\ faults < MaxFaults /\ faults' = faults + 1
    /\ todo' = [todo EXCEPT ![p] = @ \ {s}]
    /\ UNCHANGED <<registry, host, books, file, pc, view, plans, job, history, pushes, crashes, damage>>

\* The end of a cycle.
AfterCycle(p) == IF p \in OneShot THEN "down" ELSE "idle"

\* A read-only view prints its plans and is done.
Planned(p) ==
    /\ pc[p] = "plan" /\ todo[p] = {}
    /\ pc' = [pc EXCEPT ![p] = IF p \in Viewers THEN AfterCycle(p) ELSE "act"]
    /\ plans' = [plans EXCEPT ![p] = IF p \in Viewers THEN {} ELSE @]
    /\ UNCHANGED <<registry, host, books, file, todo, view, job, history, budget>>

-----------------------------------------------------------------------------
(* Run's loop over the sorted plans.                                       *)

NextPlan(p, q) == q \in plans[p] /\ \A r \in plans[p] : Rank[q.svc] <= Rank[r.svc]

\* Soaking and monitor-only plans notify, once per digest.
Report(p) ==
    /\ pc[p] = "act"
    /\ \E q \in plans[p] :
         /\ NextPlan(p, q) /\ q.action # "update"
         /\ plans' = [plans EXCEPT ![p] = @ \ {q}]
         /\ FirstNotify(p, q.svc, q.to)
    /\ UNCHANGED <<registry, host, pc, todo, view, job, failed, pushes, crashes, damage>>

\* apply pulls by tag: whatever the tag points at now.
PulledDigest(img) == tag[img]

Pull(p) ==
    /\ pc[p] = "act"
    /\ \E q \in plans[p] :
         /\ NextPlan(p, q) /\ q.action = "update"
         /\ plans' = [plans EXCEPT ![p] = @ \ {q}]
         /\ \/ /\ local' = [local EXCEPT ![ImageOf[q.svc]] = PulledDigest(ImageOf[q.svc])]
               /\ job' = [job EXCEPT ![p] = q] /\ pc' = [pc EXCEPT ![p] = "gate"]
               /\ UNCHANGED faults
            \/ /\ faults < MaxFaults /\ faults' = faults + 1
               /\ UNCHANGED <<local, job, pc>>
    /\ UNCHANGED <<registry, cur, books, file, todo, view, history, pushes, crashes, damage>>

\* The plan still describes the container: nobody replaced it since discover.
Fresh(p) == cur[job[p].svc] = view[p][job[p].svc]
Ran(p)   == local[ImageOf[job[p].svc]]

Done(p) ==
    /\ pc' = [pc EXCEPT ![p] = "act"]
    /\ job' = [job EXCEPT ![p] = NoJob]
    /\ UNCHANGED <<registry, local, todo, view, plans, pushes, crashes, damage>>

\* The replacement runs what the local tag points at; the books name the
\* digest that was planned.  A stopped service is not gated.
Succeed(p) ==
    /\ pc[p] = "gate" /\ Fresh(p) /\ (Ran(p) \in Broken => job[p].svc \in MayStop)
    /\ cur' = [cur EXCEPT ![job[p].svc] = Ran(p)]
    /\ MarkApplied(p, job[p].svc, job[p].to)
    /\ Done(p) /\ UNCHANGED history

FailGate(p) ==
    /\ pc[p] = "gate" /\ Fresh(p) /\ Ran(p) \in Broken \cup Doubtful
    /\ MarkBad(p, job[p].to)
    /\ failed' = failed \cup {job[p].to}
    /\ Done(p) /\ UNCHANGED <<cur, sent>>

\* Any other failing recreate is rolled back without a verdict.
RollBack(p) ==
    /\ pc[p] = "gate"
    /\ \/ ~Fresh(p) /\ UNCHANGED faults
       \/ faults < MaxFaults /\ faults' = faults + 1
    /\ Done(p) /\ UNCHANGED <<cur, books, file, history>>

EndCycle(p) ==
    /\ pc[p] = "act" /\ plans[p] = {}
    /\ pc' = [pc EXCEPT ![p] = AfterCycle(p)]
    /\ UNCHANGED <<registry, host, books, file, todo, view, plans, job, history, budget>>

-----------------------------------------------------------------------------
(* The environment.                                                        *)

\* The tag moves, to a new digest or back to an old one.
Push(i, d) ==
    /\ pushes < MaxPushes /\ pushes' = pushes + 1
    /\ d # tag[i] /\ tag' = [tag EXCEPT ![i] = d]
    /\ published' = [published EXCEPT ![i][d] = IF @ = Never THEN 0 ELSE @]
    /\ UNCHANGED <<host, books, file, mind, history, faults, crashes, damage>>

\* Time passes for every record of a past moment.
Tick ==
    /\ published' = [i \in Images |-> [d \in Digests |-> Older(published[i][d])]]
    /\ firstSeen' = [h \in Holders |-> [k \in Keys |-> Older(firstSeen[h][k])]]
    /\ UNCHANGED <<tag, host, badDigests, lastApplied, notified, file, mind, history, budget>>

\* A process dies and loses its memory.
Crash(p) ==
    /\ pc[p] # "down" /\ crashes < MaxCrashes /\ crashes' = crashes + 1
    /\ pc' = [pc EXCEPT ![p] = "down"]
    /\ todo' = [todo EXCEPT ![p] = {}] /\ plans' = [plans EXCEPT ![p] = {}]
    /\ job' = [job EXCEPT ![p] = NoJob] /\ view' = [view EXCEPT ![p] = cur]
    /\ UNCHANGED <<registry, host, books, file, history, pushes, faults, damage>>

\* save renames without syncing: a power cut can leave the file unreadable.
Damage ==
    /\ damage < MaxDamage /\ damage' = damage + 1 /\ file = "ok"
    /\ file' = "corrupt"
    /\ UNCHANGED <<registry, host, books, mind, history, pushes, faults, crashes>>

-----------------------------------------------------------------------------
\* Every service runs the digest its tag points at; nothing is recorded yet.
Init ==
    /\ tag \in [Images -> Digests \ Broken]
    /\ published = [i \in Images |-> [d \in Digests |-> IF d = tag[i] THEN MaxAge ELSE Never]]
    /\ local = tag /\ cur = [s \in Services |-> tag[ImageOf[s]]]
    /\ firstSeen = [h \in Holders |-> NothingSeen]
    /\ badDigests = [h \in Holders |-> {}]
    /\ lastApplied = [h \in Holders |-> NothingApplied]
    /\ notified = [h \in Holders |-> {}]
    /\ file = "absent"
    /\ pc = [p \in Procs |-> "down"]
    /\ todo = [p \in Procs |-> {}] /\ plans = [p \in Procs |-> {}]
    /\ view = [p \in Procs |-> cur] /\ job = [p \in Procs |-> NoJob]
    /\ failed = {} /\ sent = [k \in Keys |-> 0]
    /\ pushes = 0 /\ faults = 0 /\ crashes = 0 /\ damage = 0

Cycle(p) ==
    \/ Load(p) \/ StartCycle(p) \/ (\E s \in Services : Evaluate(p, s) \/ Unreachable(p, s))
    \/ Planned(p) \/ Report(p) \/ Pull(p)
    \/ Succeed(p) \/ FailGate(p) \/ RollBack(p) \/ EndCycle(p)

Next ==
    \/ \E p \in Procs : Cycle(p) \/ Crash(p)
    \/ \E i \in Images, d \in Digests : Push(i, d)
    \/ Tick \/ Damage

Spec == Init /\ [][Next]_vars

\* Cycles keep running, a dead process is restarted, and time passes.
FairSpec == Spec /\ WF_vars(Tick) /\ \A p \in Procs : WF_vars(Cycle(p))

-----------------------------------------------------------------------------
(* Properties.                                                             *)

UpdatePlans(p) == {q \in plans[p] \cup {job[p]} : q.action = "update"}

\* A digest is only rolled out once it has been out for the service's soak
\* window, whatever restarts, failing saves and other processes do.
SoakHonoured ==
    \A p \in Procs : \A q \in UpdatePlans(p) : published[ImageOf[q.svc]][q.to] >= Soak[q.svc]

\* A digest recorded as failing its health gate is never tried again.
NeverRetried ==
    [][\A p \in Procs : job[p] = NoJob /\ job'[p] # NoJob =>
          job'[p].to \notin failed]_vars

\* A new digest is announced at most once per service.
NotifiedOnce == \A k \in Keys : sent[k] <= 1

\* What a service runs has been out for the soak window, or was there first.
RunsSoaked ==
    \A s \in Services : published[ImageOf[s]][cur[s]] >= Soak[s]

\* Looking changes nothing: a viewer's cycle never gets as far as a pull, a
\* notification or a verdict, and leaves the host, state.json and every soak
\* timer in it alone.
ViewersOnlyLook ==
    [][\A p \in Viewers : Cycle(p) =>
          UNCHANGED <<cur, local, file, firstSeen[File], badDigests[File], notified[File]>>]_vars

\* In the end every service that may be updated runs its tag's digest, or
\* that digest is known to be bad.
Settled(s) == cur[s] = tag[ImageOf[s]] \/ \E h \in Holders : tag[ImageOf[s]] \in badDigests[h]
CatchesUp == \A s \in Services \ (MonitorOnly \cup Self \cup Fixed) : <>[]Settled(s)
=============================================================================
