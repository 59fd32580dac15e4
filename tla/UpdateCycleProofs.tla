-------------------------- MODULE UpdateCycleProofs --------------------------
(***************************************************************************)
(* Theorems about UpdateCycle, for any services, digests, soak windows and *)
(* processes, and any number of pushes, restarts, failing saves and        *)
(* damaged files.                                                          *)
(***************************************************************************)
EXTENDS UpdateCycle, TLAPS

USE ProcsAssumption, DigestsAssumption, ServicesAssumption, SoakAssumption, BoundAssumption

-----------------------------------------------------------------------------
(* The part of the type invariant the soak rests on.                       *)

Timers ==
    /\ tag \in [Images -> Digests]
    /\ published \in [Images -> [Digests -> Ages]]
    /\ firstSeen \in [Holders -> [Keys -> Ages]]
    /\ todo \in [Procs -> SUBSET Services]
    /\ plans \in [Procs -> SUBSET Plan]
    /\ job \in [Procs -> Plan \cup {NoJob}]

\* No record claims a digest was seen before it was published.
SeenAfterPublished ==
    \A h \in Holders, s \in Services, d \in Digests :
       firstSeen[h][<<s, d>>] <= published[ImageOf[s]][d]

\* A tag points at a published digest.
TagsPublished == \A i \in Images : published[i][tag[i]] # Never

SoakInv == Timers /\ SeenAfterPublished /\ TagsPublished /\ SoakHonoured

LEMMA OlderAges ==
  ASSUME NEW a \in Ages, NEW b \in Ages, a <= b
  PROVE  Older(a) \in Ages /\ a <= Older(a) /\ Older(a) <= Older(b)
BY DEF Ages, Older, Never

\* A save writes what one process holds, or nothing.
LEMMA SaveSources ==
  ASSUME NEW p \in Procs, NEW seen, NEW bad, NEW applied, NEW told,
         Timers, seen \in [Keys -> Ages], Save(p, seen, bad, applied, told)
  PROVE  /\ firstSeen' \in [Holders -> [Keys -> Ages]]
         /\ \A h \in Holders : firstSeen'[h] = firstSeen[h] \/ firstSeen'[h] = seen
<1>1. PICK saved \in BOOLEAN :
         firstSeen' = [firstSeen EXCEPT ![p] = seen, ![File] = IF saved THEN seen ELSE @]
  BY DEF Save, Keep
<1>2. firstSeen \in [Holders -> [Keys -> Ages]] BY DEF Timers
<1> HIDE DEF Holders
<1> QED BY <1>1, <1>2

LEMMA SoakInit == Init => SoakInv
<1> SUFFICES ASSUME Init PROVE SoakInv
  OBVIOUS
<1>1. Timers
  <2>1. tag \in [Images -> Digests]
    BY DEF Init
  <2>2. published \in [Images -> [Digests -> Ages]]
    BY DEF Init, Ages, Never
  <2>3. NothingSeen \in [Keys -> Ages]
    BY DEF NothingSeen, Ages
  <2>4. firstSeen \in [Holders -> [Keys -> Ages]]
    BY <2>3 DEF Init
  <2>5. /\ todo \in [Procs -> SUBSET Services]
        /\ plans \in [Procs -> SUBSET Plan]
        /\ job \in [Procs -> Plan \cup {NoJob}]
    BY DEF Init
  <2> QED BY <2>1, <2>2, <2>4, <2>5 DEF Timers
<1>2. TagsPublished
  BY DEF Init, TagsPublished, Never
<1>3. SeenAfterPublished
  <2>1. ASSUME NEW h \in Holders, NEW s \in Services, NEW d \in Digests
        PROVE  firstSeen[h][<<s, d>>] = Never
    BY <2>1 DEF Init, NothingSeen, Keys
  <2>2. ASSUME NEW i \in Images, NEW d \in Digests PROVE Never <= published[i][d]
    BY <2>2 DEF Init, Never
  <2>3. \A s \in Services : ImageOf[s] \in Images OBVIOUS
  <2>4. ASSUME NEW h \in Holders, NEW s \in Services, NEW d \in Digests
        PROVE  firstSeen[h][<<s, d>>] <= published[ImageOf[s]][d]
    BY <2>1, <2>2, <2>3
  <2> QED BY <2>4 DEF SeenAfterPublished
<1>4. SoakHonoured
  BY DEF Init, SoakHonoured, UpdatePlans, NoJob
<1> QED BY <1>1, <1>2, <1>3, <1>4 DEF SoakInv

\* What a save leaves in every holder, when it writes nothing unpublished.
LEMMA SaveKeepsOrder ==
  ASSUME SoakInv, NEW p \in Procs, NEW seen, NEW bad, NEW applied, NEW told,
         seen \in [Keys -> Ages], Save(p, seen, bad, applied, told), UNCHANGED published,
         \A s \in Services, d \in Digests : seen[<<s, d>>] <= published[ImageOf[s]][d]
  PROVE  firstSeen' \in [Holders -> [Keys -> Ages]] /\ SeenAfterPublished'
<1>1. /\ firstSeen' \in [Holders -> [Keys -> Ages]]
      /\ \A h \in Holders : firstSeen'[h] = firstSeen[h] \/ firstSeen'[h] = seen
  BY SaveSources DEF SoakInv
<1> QED BY <1>1 DEF SoakInv, SeenAfterPublished

\* A process's own record, as a function on keys that lags behind publication.
LEMMA OwnRecord ==
  ASSUME SoakInv, NEW p \in Procs
  PROVE  /\ firstSeen[p] \in [Keys -> Ages]
         /\ \A s \in Services, d \in Digests :
               firstSeen[p][<<s, d>>] <= published[ImageOf[s]][d]
BY DEF SoakInv, Timers, SeenAfterPublished, Holders

\* Steps that leave tags, publications and plans alone keep the rest.
LEMMA SameRollouts ==
  ASSUME SoakInv, UNCHANGED <<tag, published>>,
         \A p \in Procs : UpdatePlans(p)' \subseteq UpdatePlans(p)
  PROVE  TagsPublished' /\ SoakHonoured'
BY DEF SoakInv, TagsPublished, SoakHonoured

\* A digest the soak gate lets through has been out long enough.
LEMMA GateSoaks ==
  ASSUME SoakInv, NEW p \in Procs, NEW s \in Services,
         Soaked(p, s, tag[ImageOf[s]])
  PROVE  published[ImageOf[s]][tag[ImageOf[s]]] >= Soak[s]
<1> DEFINE d == tag[ImageOf[s]]
<1>1. d \in Digests /\ ImageOf[s] \in Images /\ Soak[s] \in Nat
  BY DEF SoakInv, Timers
<1>2. published[ImageOf[s]][d] \in Ages /\ published[ImageOf[s]][d] # Never
  BY <1>1 DEF SoakInv, Timers, TagsPublished
<1>3. firstSeen[p][<<s, d>>] <= published[ImageOf[s]][d]
  BY <1>1, OwnRecord
<1>4. firstSeen[p][<<s, d>>] \in Ages
  BY <1>1, OwnRecord DEF Keys
<1> HIDE DEF d
<1>5. published[ImageOf[s]][d] >= Soak[s]
  BY <1>1, <1>2, <1>3, <1>4 DEF Soaked, SeenAge, Ages, Never, d
<1> QED BY <1>5 DEF d

LEMMA EvaluateStep ==
  ASSUME SoakInv, NEW p \in Procs, NEW s \in Services, Evaluate(p, s)
  PROVE  SoakInv'
<1> DEFINE d == tag[ImageOf[s]]
<1>1. d \in Digests /\ ImageOf[s] \in Images BY DEF SoakInv, Timers
<1>2. UNCHANGED <<tag, published, job>> BY DEF Evaluate, registry
<1>3. todo' \in [Procs -> SUBSET Services] BY DEF Evaluate, SoakInv, Timers
<1>4. PlanFor(p, s, d) \in Plan
  <2>1. PICK a \in {"update", "soaking", "monitor"} :
           PlanFor(p, s, d) = [svc |-> s, to |-> d, action |-> a]
    BY DEF PlanFor
  <2>2. [svc |-> s, to |-> d, action |-> a] \in Plan BY <1>1 DEF Plan
  <2> QED BY <2>1, <2>2
<1>5. plans' = plans \/ plans' = [plans EXCEPT ![p] = @ \cup {PlanFor(p, s, d)}]
  BY DEF Evaluate
<1>6. plans' \in [Procs -> SUBSET Plan]
  <2>1. plans \in [Procs -> SUBSET Plan] BY DEF SoakInv, Timers
  <2>2. plans[p] \cup {PlanFor(p, s, d)} \in SUBSET Plan BY <2>1, <1>4
  <2> QED BY <2>1, <2>2, <1>5
<1>7. firstSeen' \in [Holders -> [Keys -> Ages]] /\ SeenAfterPublished'
  <2>1. CASE UNCHANGED books
    BY <2>1, <1>2 DEF books, SoakInv, Timers, SeenAfterPublished
  <2>2. CASE SeenAt(p, s, d) /\ ~UNCHANGED books
    <3> DEFINE seen == [firstSeen[p] EXCEPT ![<<s, d>>] = 0]
    <3>1. Save(p, seen, badDigests[p], lastApplied[p], notified[p])
      BY <2>2 DEF SeenAt
    <3>2. seen \in [Keys -> Ages]
      <4>1. firstSeen[p] \in [Keys -> Ages] BY OwnRecord
      <4>2. <<s, d>> \in Keys BY <1>1 DEF Keys
      <4>3. 0 \in Ages BY DEF Ages
      <4> QED BY <4>1, <4>2, <4>3
    <3>3. ASSUME NEW t \in Services, NEW e \in Digests
          PROVE  seen[<<t, e>>] <= published[ImageOf[t]][e]
      <4>1. <<t, e>> \in Keys /\ <<s, d>> \in Keys BY <1>1 DEF Keys
      <4>2. CASE t = s /\ e = d
        <5>1. published[ImageOf[s]][d] \in Ages /\ published[ImageOf[s]][d] # Never
          BY <1>1 DEF SoakInv, Timers, TagsPublished
        <5>2. seen[<<t, e>>] = 0 BY <4>1, <4>2, OwnRecord
        <5> QED BY <5>1, <5>2, <4>2 DEF Ages, Never
      <4>3. CASE ~(t = s /\ e = d)
        <5>1. seen[<<t, e>>] = firstSeen[p][<<t, e>>] BY <4>1, <4>3, OwnRecord
        <5> QED BY <5>1, OwnRecord
      <4> QED BY <4>2, <4>3
    <3> HIDE DEF seen
    <3> QED BY <3>1, <3>2, <3>3, <1>2, SaveKeepsOrder
  <2> QED BY <2>1, <2>2 DEF Evaluate
<1>8. ASSUME NEW q \in Procs, NEW r \in UpdatePlans(q)'
      PROVE  published[ImageOf[r.svc]][r.to] >= Soak[r.svc]
  <2>1. CASE r \in UpdatePlans(q)
    BY <2>1 DEF SoakInv, SoakHonoured
  <2>2. CASE r = PlanFor(p, s, d)
    <3>1. r.action = "update" BY <1>8 DEF UpdatePlans
    <3>2. Soaked(p, s, d) /\ r.svc = s /\ r.to = d BY <2>2, <3>1 DEF PlanFor
    <3> QED BY <3>2, GateSoaks
  <2>3. r \in UpdatePlans(q) \/ r = PlanFor(p, s, d)
    <3>1. plans \in [Procs -> SUBSET Plan] BY DEF SoakInv, Timers
    <3>2. plans'[q] \subseteq plans[q] \cup {PlanFor(p, s, d)} BY <3>1, <1>5
    <3> QED BY <3>2, <1>2, <1>8 DEF UpdatePlans
  <2> QED BY <2>1, <2>2, <2>3
<1>9. SoakHonoured' BY <1>2, <1>8 DEF SoakHonoured
<1> QED BY <1>2, <1>3, <1>6, <1>7, <1>9 DEF SoakInv, Timers, TagsPublished

\* The steps that write the books and keep the plans, or drop one.
LEMMA RunStep ==
  ASSUME SoakInv, NEW p \in Procs,
         Report(p) \/ Succeed(p) \/ FailGate(p)
  PROVE  SoakInv'
<1>1. UNCHANGED <<tag, published, todo>>
  BY DEF Report, Succeed, FailGate, Done, registry
<1>2. /\ plans' \in [Procs -> SUBSET Plan] /\ job' \in [Procs -> Plan \cup {NoJob}]
      /\ \A q \in Procs : UpdatePlans(q)' \subseteq UpdatePlans(q)
  <2>1. CASE Report(p)
    BY <2>1 DEF Report, UpdatePlans, SoakInv, Timers
  <2>2. CASE Succeed(p) \/ FailGate(p)
    <3>1. plans' = plans /\ job' = [job EXCEPT ![p] = NoJob]
      BY <2>2 DEF Succeed, FailGate, Done
    <3>2. NoJob.action # "update" BY DEF NoJob
    <3>3. plans' \in [Procs -> SUBSET Plan] /\ job' \in [Procs -> Plan \cup {NoJob}]
      BY <3>1 DEF SoakInv, Timers
    <3>4. \A q \in Procs : UpdatePlans(q)' \subseteq UpdatePlans(q)
      BY <3>1, <3>2 DEF UpdatePlans, SoakInv, Timers
    <3> QED BY <3>3, <3>4
  <2> QED BY <2>1, <2>2
<1>3. firstSeen' \in [Holders -> [Keys -> Ages]] /\ SeenAfterPublished'
  <2>1. CASE Report(p) /\ UNCHANGED books
    BY <2>1, <1>1 DEF books, SoakInv, Timers, SeenAfterPublished
  <2>2. CASE Report(p) /\ ~UNCHANGED books
    <3>1. PICK told : Save(p, firstSeen[p], badDigests[p], lastApplied[p], told)
      BY <2>2 DEF Report, FirstNotify
    <3> QED BY <3>1, <1>1, OwnRecord, SaveKeepsOrder
  <2>3. CASE FailGate(p)
    BY <2>3, <1>1, OwnRecord, SaveKeepsOrder DEF FailGate, MarkBad
  <2>4. CASE Succeed(p)
    <3> DEFINE seen == Pruned(firstSeen[p], job[p].svc, job[p].to)
    <3>1. PICK applied : Save(p, seen, badDigests[p], applied, notified[p])
      BY <2>4 DEF Succeed, MarkApplied
    <3>2. seen \in [Keys -> Ages] BY OwnRecord DEF Pruned, Ages
    <3>3. ASSUME NEW t \in Services, NEW e \in Digests
          PROVE  seen[<<t, e>>] <= published[ImageOf[t]][e]
      <4>1. <<t, e>> \in Keys BY DEF Keys
      <4>2. seen[<<t, e>>] = Never \/ seen[<<t, e>>] = firstSeen[p][<<t, e>>]
        BY <4>1 DEF Pruned
      <4>3. published[ImageOf[t]][e] \in Ages BY DEF SoakInv, Timers
      <4> QED BY <4>2, <4>3, OwnRecord DEF Ages, Never
    <3> HIDE DEF seen
    <3> QED BY <3>1, <3>2, <3>3, <1>1, SaveKeepsOrder
  <2> QED BY <2>1, <2>2, <2>3, <2>4
<1>4. TagsPublished' /\ SoakHonoured' BY <1>1, <1>2, SameRollouts
<1> QED BY <1>1, <1>2, <1>3, <1>4 DEF SoakInv, Timers

\* The steps that touch neither the registry nor the books.
LEMMA QuietStep ==
  ASSUME SoakInv, UNCHANGED <<tag, published, firstSeen>>,
         todo' \in [Procs -> SUBSET Services], plans' \in [Procs -> SUBSET Plan],
         job' \in [Procs -> Plan \cup {NoJob}],
         \A q \in Procs : UpdatePlans(q)' \subseteq UpdatePlans(q)
  PROVE  SoakInv'
<1>1. TagsPublished' /\ SoakHonoured' BY SameRollouts
<1>2. SeenAfterPublished' BY DEF SoakInv, SeenAfterPublished
<1>3. Timers' BY DEF SoakInv, Timers
<1> QED BY <1>1, <1>2, <1>3 DEF SoakInv

LEMMA LoadStep ==
  ASSUME SoakInv, NEW p \in Procs, Load(p)
  PROVE  SoakInv'
<1>1. UNCHANGED <<tag, published, todo, plans, job>> BY DEF Load, registry
<1>2. \/ firstSeen' = firstSeen
      \/ firstSeen' = [firstSeen EXCEPT ![p] = firstSeen[File]]
      \/ firstSeen' = [firstSeen EXCEPT ![p] = NothingSeen]
  BY DEF Load, books
<1>3. NothingSeen \in [Keys -> Ages] BY DEF NothingSeen, Ages
<1>4. firstSeen[File] \in [Keys -> Ages] BY DEF SoakInv, Timers, Holders
<1>5. firstSeen' \in [Holders -> [Keys -> Ages]]
  BY <1>2, <1>3, <1>4 DEF SoakInv, Timers
<1>6. ASSUME NEW h \in Holders, NEW s \in Services, NEW d \in Digests
      PROVE  firstSeen'[h][<<s, d>>] <= published[ImageOf[s]][d]
  <2>1. \/ firstSeen'[h] = firstSeen[h] \/ firstSeen'[h] = firstSeen[File]
        \/ firstSeen'[h] = NothingSeen
    BY <1>2 DEF SoakInv, Timers
  <2>2. NothingSeen[<<s, d>>] = Never BY DEF NothingSeen, Keys
  <2>3. published[ImageOf[s]][d] \in Ages BY DEF SoakInv, Timers
  <2>4. File \in Holders BY DEF Holders
  <2> QED BY <2>1, <2>2, <2>3, <2>4 DEF SoakInv, SeenAfterPublished, Ages, Never
<1>7. SeenAfterPublished' BY <1>1, <1>6 DEF SeenAfterPublished
<1>8. TagsPublished' /\ SoakHonoured' BY <1>1, SameRollouts DEF UpdatePlans
<1> QED BY <1>1, <1>5, <1>7, <1>8 DEF SoakInv, Timers

LEMMA PushStep ==
  ASSUME SoakInv, NEW i \in Images, NEW d \in Digests, Push(i, d)
  PROVE  SoakInv'
<1>1. UNCHANGED <<firstSeen, todo, plans, job>> BY DEF Push, books, mind
<1>2. /\ tag' = [tag EXCEPT ![i] = d]
      /\ published' = [published EXCEPT ![i][d] = IF @ = Never THEN 0 ELSE @]
  BY DEF Push
<1>3. tag' \in [Images -> Digests] BY <1>2 DEF SoakInv, Timers
<1>4. published' \in [Images -> [Digests -> Ages]]
  BY <1>2 DEF SoakInv, Timers, Ages
<1>5. ASSUME NEW j \in Images, NEW e \in Digests
      PROVE  /\ published[j][e] <= published'[j][e]
             /\ (j = i /\ e = d) => published'[j][e] # Never
             /\ published[j][e] # Never => published'[j][e] # Never
             /\ published[j][e] \in Ages /\ published'[j][e] \in Ages
  BY <1>2, <1>4 DEF SoakInv, Timers, Ages, Never
<1>6. TagsPublished' BY <1>2, <1>3, <1>5 DEF SoakInv, Timers, TagsPublished
<1>7. SeenAfterPublished'
  <2>1. ASSUME NEW h \in Holders, NEW s \in Services, NEW e \in Digests
        PROVE  firstSeen[h][<<s, e>>] <= published'[ImageOf[s]][e]
    <3>1. firstSeen[h][<<s, e>>] \in Ages BY DEF SoakInv, Timers, Keys
    <3>2. firstSeen[h][<<s, e>>] <= published[ImageOf[s]][e]
      BY DEF SoakInv, SeenAfterPublished
    <3> QED BY <3>1, <3>2, <1>5 DEF Ages, Never
  <2> QED BY <2>1, <1>1 DEF SeenAfterPublished
<1>8. SoakHonoured'
  <2>1. ASSUME NEW p \in Procs, NEW q \in UpdatePlans(p)
        PROVE  published'[ImageOf[q.svc]][q.to] >= Soak[q.svc]
    <3>1. q \in Plan BY DEF UpdatePlans, SoakInv, Timers, NoJob
    <3>2. q.svc \in Services /\ q.to \in Digests BY <3>1 DEF Plan
    <3>3. published[ImageOf[q.svc]][q.to] >= Soak[q.svc] BY DEF SoakInv, SoakHonoured
    <3> QED BY <3>2, <3>3, <1>5 DEF Ages, Never
  <2> QED BY <2>1, <1>1 DEF SoakHonoured, UpdatePlans
<1> QED BY <1>1, <1>3, <1>4, <1>6, <1>7, <1>8 DEF SoakInv, Timers

LEMMA TickStep ==
  ASSUME SoakInv, Tick
  PROVE  SoakInv'
<1>1. UNCHANGED <<tag, todo, plans, job>> BY DEF Tick, mind
<1>2. ASSUME NEW j \in Images, NEW e \in Digests
      PROVE  /\ published[j][e] \in Ages
             /\ published'[j][e] = Older(published[j][e])
  BY DEF Tick, SoakInv, Timers
<1>3. ASSUME NEW h \in Holders, NEW k \in Keys
      PROVE  firstSeen[h][k] \in Ages /\ firstSeen'[h][k] = Older(firstSeen[h][k])
  BY DEF Tick, SoakInv, Timers
<1>4. \A a \in Ages : Older(a) \in Ages /\ a <= Older(a) /\ (a # Never => Older(a) # Never)
  BY DEF Ages, Older, Never
<1>5. published' \in [Images -> [Digests -> Ages]]
  BY <1>2, <1>4 DEF Tick
<1>6. firstSeen' \in [Holders -> [Keys -> Ages]]
  BY <1>3, <1>4 DEF Tick
<1>7. TagsPublished'
  BY <1>1, <1>2, <1>4 DEF SoakInv, Timers, TagsPublished
<1>8. SeenAfterPublished'
  <2>1. ASSUME NEW h \in Holders, NEW s \in Services, NEW d \in Digests
        PROVE  firstSeen'[h][<<s, d>>] <= published'[ImageOf[s]][d]
    <3>1. <<s, d>> \in Keys BY DEF Keys
    <3>2. firstSeen[h][<<s, d>>] <= published[ImageOf[s]][d]
      BY DEF SoakInv, SeenAfterPublished
    <3> QED BY <3>1, <3>2, <1>2, <1>3, OlderAges
  <2> QED BY <2>1 DEF SeenAfterPublished
<1>9. SoakHonoured'
  <2>1. ASSUME NEW p \in Procs, NEW q \in UpdatePlans(p)
        PROVE  published'[ImageOf[q.svc]][q.to] >= Soak[q.svc]
    <3>1. q \in Plan BY DEF UpdatePlans, SoakInv, Timers, NoJob
    <3>2. q.svc \in Services /\ q.to \in Digests BY <3>1 DEF Plan
    <3>3. published[ImageOf[q.svc]][q.to] >= Soak[q.svc] BY DEF SoakInv, SoakHonoured
    <3>4. published[ImageOf[q.svc]][q.to] <= published'[ImageOf[q.svc]][q.to]
      BY <3>2, <1>2, <1>4
    <3>5. Older(published[ImageOf[q.svc]][q.to]) \in Ages BY <3>2, <1>2, <1>4
    <3> QED BY <3>2, <3>3, <3>4, <3>5, <1>2 DEF Ages, Never
  <2> QED BY <2>1, <1>1 DEF SoakHonoured, UpdatePlans
<1> QED BY <1>1, <1>5, <1>6, <1>7, <1>8, <1>9 DEF SoakInv, Timers

LEMMA SoakStep ==
  ASSUME SoakInv, [Next]_vars
  PROVE  SoakInv'
<1>1. ASSUME NEW p \in Procs, StartCycle(p) \/ Planned(p) \/ EndCycle(p) PROVE SoakInv'
  <2>1. UNCHANGED <<tag, published, firstSeen, job>>
    BY <1>1 DEF StartCycle, Planned, EndCycle, registry, books
  <2>2. todo' \in [Procs -> SUBSET Services] /\ plans' \in [Procs -> SUBSET Plan]
    BY <1>1 DEF StartCycle, Planned, EndCycle, SoakInv, Timers
  <2>3. \A q \in Procs : UpdatePlans(q)' \subseteq UpdatePlans(q)
    BY <1>1 DEF StartCycle, Planned, EndCycle, UpdatePlans, SoakInv, Timers
  <2> QED BY <2>1, <2>2, <2>3, QuietStep DEF SoakInv, Timers
<1>2. ASSUME NEW p \in Procs, NEW s \in Services, Unreachable(p, s) PROVE SoakInv'
  <2>1. UNCHANGED <<tag, published, firstSeen, job, plans>>
    BY <1>2 DEF Unreachable, registry, books
  <2>2. todo' \in [Procs -> SUBSET Services] BY <1>2 DEF Unreachable, SoakInv, Timers
  <2> QED BY <2>1, <2>2, QuietStep DEF SoakInv, Timers, UpdatePlans
<1>3. ASSUME NEW p \in Procs, Pull(p) PROVE SoakInv'
  <2>1. PICK q \in plans[p] :
           /\ plans' = [plans EXCEPT ![p] = @ \ {q}]
           /\ job' = [job EXCEPT ![p] = q] \/ job' = job
    BY <1>3 DEF Pull
  <2>2. UNCHANGED <<tag, published, firstSeen, todo>>
    BY <1>3 DEF Pull, registry, books
  <2>3. q \in Plan BY <2>1 DEF SoakInv, Timers
  <2>4. plans' \in [Procs -> SUBSET Plan] /\ job' \in [Procs -> Plan \cup {NoJob}]
    BY <2>1, <2>3 DEF SoakInv, Timers
  <2>5. \A r \in Procs : UpdatePlans(r)' \subseteq UpdatePlans(r)
    BY <2>1 DEF UpdatePlans, SoakInv, Timers
  <2> QED BY <2>2, <2>4, <2>5, QuietStep DEF SoakInv, Timers
<1>4. ASSUME NEW p \in Procs, RollBack(p) PROVE SoakInv'
  <2>1. UNCHANGED <<tag, published, firstSeen, todo, plans>>
    BY <1>4 DEF RollBack, Done, registry, books
  <2>2. job' \in [Procs -> Plan \cup {NoJob}] BY <1>4 DEF RollBack, Done, SoakInv, Timers
  <2>3. \A r \in Procs : UpdatePlans(r)' \subseteq UpdatePlans(r)
    BY <1>4, <2>1 DEF RollBack, Done, UpdatePlans, NoJob, SoakInv, Timers
  <2> QED BY <2>1, <2>2, <2>3, QuietStep DEF SoakInv, Timers
<1>5. ASSUME NEW p \in Procs, Crash(p) PROVE SoakInv'
  <2>1. UNCHANGED <<tag, published, firstSeen>> BY <1>5 DEF Crash, registry, books
  <2>2. /\ todo' \in [Procs -> SUBSET Services] /\ plans' \in [Procs -> SUBSET Plan]
        /\ job' \in [Procs -> Plan \cup {NoJob}]
    BY <1>5 DEF Crash, SoakInv, Timers
  <2>3. \A r \in Procs : UpdatePlans(r)' \subseteq UpdatePlans(r)
    BY <1>5 DEF Crash, UpdatePlans, NoJob, SoakInv, Timers
  <2> QED BY <2>1, <2>2, <2>3, QuietStep
<1>6. ASSUME Damage \/ UNCHANGED vars PROVE SoakInv'
  <2>1. UNCHANGED <<tag, published, firstSeen, todo, plans, job>>
    BY <1>6 DEF Damage, vars, registry, books, mind
  <2> QED BY <2>1, QuietStep DEF SoakInv, Timers, UpdatePlans
<1> QED
  BY <1>1, <1>2, <1>3, <1>4, <1>5, <1>6, EvaluateStep, RunStep, LoadStep, PushStep, TickStep
     DEF Next, Cycle

\* Whatever the processes, restarts, failing saves and damaged files, an update
\* is only ever planned, or under way, for a digest published at least the
\* service's soak window ago.
THEOREM UpdatesSoak == Spec => []SoakHonoured
<1>1. SoakInv /\ [Next]_vars => SoakInv'
  BY SoakStep
<1>2. SoakInv => SoakHonoured
  BY DEF SoakInv
<1> QED BY SoakInit, <1>1, <1>2, PTL DEF Spec

-----------------------------------------------------------------------------
(* Control: where a process is in its cycle, and what it holds there.      *)

\* A plan is applied at the gate and nowhere else, is an update and has left
\* the list; between cycles the list is empty; a viewer never acts on one.
Orderly(p) ==
    /\ job[p] # NoJob <=> pc[p] = "gate"
    /\ job[p] # NoJob => job[p].action = "update"
    /\ job[p] \notin plans[p]
    /\ pc[p] \in {"down", "idle"} => plans[p] = {}
    /\ p \in Viewers => pc[p] \in {"down", "idle", "plan"}

Control ==
    /\ pc \in [Procs -> {"down", "idle", "plan", "act", "gate"}]
    /\ \A p \in Procs : Orderly(p)

\* No plan is the absence of one.
LEMMA NoJobIsNoPlan == NoJob \notin Plan
BY DEF NoJob, Plan

\* A step of one process leaves the others where they are.
LEMMA ControlAt ==
  ASSUME Control, NEW p \in Procs, NEW v, pc' = [pc EXCEPT ![p] = v],
         v \in {"down", "idle", "plan", "act", "gate"},
         \A q \in Procs \ {p} : plans'[q] = plans[q] /\ job'[q] = job[q],
         Orderly(p)'
  PROVE  Control'
<1>1. \A q \in Procs \ {p} : pc'[q] = pc[q] BY DEF Control
<1>2. \A q \in Procs \ {p} : Orderly(q)' BY <1>1 DEF Control, Orderly
<1>3. pc' \in [Procs -> {"down", "idle", "plan", "act", "gate"}] BY DEF Control
<1> QED BY <1>2, <1>3 DEF Control

LEMMA ControlStep ==
  ASSUME Timers, Control, [Next]_vars
  PROVE  Control'
<1> USE NoJobIsNoPlan
<1>1. plans \in [Procs -> SUBSET Plan] /\ job \in [Procs -> Plan \cup {NoJob}]
  BY DEF Timers
<1>2. pc \in [Procs -> {"down", "idle", "plan", "act", "gate"}] BY DEF Control
<1>3. \A p \in Procs : Orderly(p) BY DEF Control
<1>4. \A p \in Procs : pc[p] # "gate" => job[p] = NoJob BY <1>3 DEF Orderly
<1>5. ASSUME UNCHANGED <<pc, plans, job>> PROVE Control'
  BY <1>5 DEF Control, Orderly
<1>6. ASSUME NEW p \in Procs, Load(p) PROVE Control'
  <2>1. CASE UNCHANGED pc BY <1>6, <2>1, <1>5 DEF Load
  <2>2. CASE pc' = [pc EXCEPT ![p] = "idle"]
    <3>1. Orderly(p)' BY <1>6, <2>2, <1>2, <1>3 DEF Load, Orderly
    <3> QED BY <1>6, <2>2, <3>1, ControlAt DEF Load
  <2> QED BY <1>6, <2>1, <2>2 DEF Load
<1>7. ASSUME NEW p \in Procs, StartCycle(p) PROVE Control'
  <2>1. Orderly(p)' BY <1>7, <1>2, <1>3 DEF StartCycle, Orderly
  <2> QED BY <1>7, <2>1, ControlAt DEF StartCycle
<1>8. ASSUME NEW p \in Procs, NEW s \in Services, Evaluate(p, s) PROVE Control'
  <2>1. UNCHANGED <<pc, job>> /\ pc[p] = "plan" BY <1>8 DEF Evaluate
  <2>2. \A q \in Procs \ {p} : plans'[q] = plans[q] BY <1>8, <1>1 DEF Evaluate
  <2>3. plans'[p] \subseteq Plan
    <3>1. plans' = plans \/ plans' = [plans EXCEPT ![p] = @ \cup {PlanFor(p, s, tag[ImageOf[s]])}]
      BY <1>8 DEF Evaluate
    <3>2. PlanFor(p, s, tag[ImageOf[s]]) \in Plan
      <4>1. tag[ImageOf[s]] \in Digests BY DEF Timers
      <4>2. PICK a \in {"update", "soaking", "monitor"} :
               PlanFor(p, s, tag[ImageOf[s]]) = [svc |-> s, to |-> tag[ImageOf[s]], action |-> a]
        BY DEF PlanFor
      <4>3. [svc |-> s, to |-> tag[ImageOf[s]], action |-> a] \in Plan BY <4>1 DEF Plan
      <4> QED BY <4>2, <4>3
    <3> QED BY <3>1, <3>2, <1>1
  <2>4. job[p] = NoJob BY <2>1, <1>4
  <2>5. Orderly(p)' BY <2>1, <2>3, <2>4, <1>3 DEF Orderly
  <2>6. \A q \in Procs \ {p} : Orderly(q)' BY <2>1, <2>2, <1>3 DEF Orderly
  <2> QED BY <2>1, <2>5, <2>6, <1>2 DEF Control
<1>9. ASSUME NEW p \in Procs, NEW s \in Services, Unreachable(p, s) PROVE Control'
  BY <1>9, <1>5 DEF Unreachable
<1>10. ASSUME NEW p \in Procs, Planned(p) PROVE Control'
  <2> DEFINE v == IF p \in Viewers THEN AfterCycle(p) ELSE "act"
  <2>1. v \in {"down", "idle", "act"} /\ (p \in Viewers => v # "act") /\ (p \notin Viewers => v = "act")
    BY DEF AfterCycle
  <2>2. pc' = [pc EXCEPT ![p] = v] /\ UNCHANGED job /\ job[p] = NoJob BY <1>10, <1>4 DEF Planned
  <2>3. /\ \A q \in Procs \ {p} : plans'[q] = plans[q]
        /\ plans'[p] \subseteq plans[p] /\ (p \in Viewers => plans'[p] = {})
    BY <1>10, <1>1 DEF Planned
  <2> HIDE DEF v
  <2>4. pc'[p] = v BY <2>2, <1>2
  <2>5. Orderly(p)' BY <2>1, <2>2, <2>3, <2>4, <1>1 DEF Orderly
  <2> QED BY <2>1, <2>2, <2>3, <2>5, ControlAt
<1>11. ASSUME NEW p \in Procs, Report(p) PROVE Control'
  <2>1. UNCHANGED <<pc, job>> /\ pc[p] = "act" BY <1>11 DEF Report
  <2>2. PICK q \in plans[p] : plans' = [plans EXCEPT ![p] = @ \ {q}] BY <1>11 DEF Report
  <2>3. Orderly(p)' BY <2>1, <2>2, <1>1, <1>3 DEF Orderly
  <2>4. \A r \in Procs \ {p} : Orderly(r)' BY <2>1, <2>2, <1>1, <1>3 DEF Orderly
  <2> QED BY <2>1, <2>3, <2>4, <1>2 DEF Control
<1>12. ASSUME NEW p \in Procs, Pull(p) PROVE Control'
  <2>1. pc[p] = "act" BY <1>12 DEF Pull
  <2>2. PICK q \in plans[p] :
           /\ plans' = [plans EXCEPT ![p] = @ \ {q}] /\ q.action = "update"
           /\ \/ job' = [job EXCEPT ![p] = q] /\ pc' = [pc EXCEPT ![p] = "gate"]
              \/ UNCHANGED <<job, pc>>
    BY <1>12 DEF Pull
  <2>3. q \in Plan /\ q # NoJob BY <2>2, <1>1
  <2>4. CASE job' = [job EXCEPT ![p] = q] /\ pc' = [pc EXCEPT ![p] = "gate"]
    <3>1. job'[p] = q /\ pc'[p] = "gate" /\ plans'[p] = plans[p] \ {q} BY <2>2, <2>4, <1>1, <1>2
    <3>2. p \notin Viewers BY <2>1, <1>3 DEF Orderly
    <3>3. Orderly(p)' BY <3>1, <3>2, <2>2, <2>3 DEF Orderly
    <3>4. \A r \in Procs \ {p} : plans'[r] = plans[r] /\ job'[r] = job[r] BY <2>2, <2>4, <1>1
    <3> QED BY <2>4, <3>3, <3>4, ControlAt
  <2>5. CASE UNCHANGED <<job, pc>>
    <3>1. Orderly(p)' BY <2>1, <2>2, <2>5, <1>1, <1>3 DEF Orderly
    <3>2. \A r \in Procs \ {p} : Orderly(r)' BY <2>2, <2>5, <1>1, <1>3 DEF Orderly
    <3> QED BY <2>5, <3>1, <3>2, <1>2 DEF Control
  <2> QED BY <2>2, <2>4, <2>5
<1>13. ASSUME NEW p \in Procs, Succeed(p) \/ FailGate(p) \/ RollBack(p) PROVE Control'
  <2>1. /\ pc[p] = "gate" /\ pc' = [pc EXCEPT ![p] = "act"]
        /\ job' = [job EXCEPT ![p] = NoJob] /\ UNCHANGED plans
    BY <1>13 DEF Succeed, FailGate, RollBack, Done
  <2>2. pc'[p] = "act" /\ job'[p] = NoJob /\ NoJob \notin plans[p] BY <2>1, <1>1, <1>2
  <2>3. p \notin Viewers BY <2>1, <1>3 DEF Orderly
  <2>4. Orderly(p)' BY <2>1, <2>2, <2>3 DEF Orderly
  <2> QED BY <2>1, <2>4, <1>1, ControlAt
<1>14. ASSUME NEW p \in Procs, EndCycle(p) PROVE Control'
  <2>1. /\ pc[p] = "act" /\ pc' = [pc EXCEPT ![p] = AfterCycle(p)] /\ plans[p] = {}
        /\ UNCHANGED <<plans, job>>
    BY <1>14 DEF EndCycle
  <2>2. AfterCycle(p) \in {"down", "idle"} BY DEF AfterCycle
  <2>3. Orderly(p)' BY <2>1, <2>2, <1>2, <1>4 DEF Orderly
  <2> QED BY <2>1, <2>2, <2>3, ControlAt
<1>15. ASSUME NEW p \in Procs, Crash(p) PROVE Control'
  <2>1. /\ pc' = [pc EXCEPT ![p] = "down"] /\ plans' = [plans EXCEPT ![p] = {}]
        /\ job' = [job EXCEPT ![p] = NoJob]
    BY <1>15 DEF Crash
  <2>2. pc'[p] = "down" /\ plans'[p] = {} /\ job'[p] = NoJob BY <2>1, <1>1, <1>2
  <2>3. Orderly(p)' BY <2>2 DEF Orderly
  <2> QED BY <2>1, <2>3, <1>1, ControlAt
<1>16. ASSUME (\E i \in Images, d \in Digests : Push(i, d)) \/ Tick \/ Damage \/ UNCHANGED vars
       PROVE  Control'
  BY <1>16, <1>5 DEF Push, Tick, Damage, vars, mind
<1> QED
  BY <1>6, <1>7, <1>8, <1>9, <1>10, <1>11, <1>12, <1>13, <1>14, <1>15, <1>16 DEF Next, Cycle

LEMMA ControlInit == Init => Control
BY DEF Init, Control, Orderly

-----------------------------------------------------------------------------
(* Type correctness.                                                       *)

\* The books beside the timers, and the count of failures that a save bounds.
Ledgers ==
    /\ badDigests \in [Holders -> SUBSET Digests]
    /\ lastApplied \in [Holders -> [Services -> Digests \cup {Absent}]]
    /\ notified \in [Holders -> SUBSET Keys]
    /\ file \in {"ok", "absent", "corrupt"}
    /\ faults \in 0..MaxFaults

\* What runs, and what a cycle believes to run.
Hosts ==
    /\ local \in [Images -> Digests] /\ cur \in [Services -> Digests]
    /\ view \in [Procs -> [Services -> Digests]]

Tallies ==
    /\ failed \subseteq Digests /\ sent \in [Keys -> 0..2]
    /\ pushes \in 0..MaxPushes /\ crashes \in 0..MaxCrashes /\ damage \in 0..MaxDamage

\* A failure stays within its bound, and so does one more count.
LEMMA BoundsAreNat ==
  MaxPushes \in Nat /\ MaxFaults \in Nat /\ MaxCrashes \in Nat /\ MaxDamage \in Nat
OBVIOUS

LEMMA SaveTyped ==
  ASSUME Ledgers, NEW p \in Procs, NEW seen, NEW bad \in SUBSET Digests,
         NEW applied \in [Services -> Digests \cup {Absent}], NEW told \in SUBSET Keys,
         Save(p, seen, bad, applied, told)
  PROVE  Ledgers'
<1>1. PICK saved \in BOOLEAN :
         /\ saved \/ faults < MaxFaults
         /\ faults' = IF saved THEN faults ELSE faults + 1
         /\ badDigests'  = Keep(badDigests, p, bad, saved)
         /\ lastApplied' = Keep(lastApplied, p, applied, saved)
         /\ notified'    = Keep(notified, p, told, saved)
         /\ file' = IF saved THEN "ok" ELSE file
  BY DEF Save
<1>2. File \in Holders /\ p \in Holders BY DEF Holders
<1>3. faults' \in 0..MaxFaults
  <2>1. CASE saved BY <1>1, <2>1 DEF Ledgers
  <2>2. CASE ~saved BY <1>1, <2>2, BoundsAreNat DEF Ledgers
  <2> QED BY <2>1, <2>2
<1>4. badDigests' \in [Holders -> SUBSET Digests] BY <1>1, <1>2 DEF Keep, Ledgers
<1>5. lastApplied' \in [Holders -> [Services -> Digests \cup {Absent}]]
  BY <1>1, <1>2 DEF Keep, Ledgers
<1>6. notified' \in [Holders -> SUBSET Keys] BY <1>1, <1>2 DEF Keep, Ledgers
<1> QED BY <1>1, <1>3, <1>4, <1>5, <1>6 DEF Ledgers

\* What a process holds itself is well typed, and so is what a save adds to it.
LEMMA OwnBooks ==
  ASSUME Ledgers, NEW p \in Procs
  PROVE  /\ badDigests[p] \in SUBSET Digests /\ notified[p] \in SUBSET Keys
         /\ lastApplied[p] \in [Services -> Digests \cup {Absent}]
BY DEF Ledgers, Holders

LEMMA LedgersStep ==
  ASSUME Timers, Control, Ledgers, [Next]_vars
  PROVE  Ledgers'
<1>1. ASSUME UNCHANGED <<books, file, faults>> PROVE Ledgers'
  BY <1>1 DEF Ledgers, books
<1>2. ASSUME NEW p \in Procs, Load(p) PROVE Ledgers'
  <2>1. UNCHANGED faults /\ file' \in {"ok", "absent", "corrupt"}
    BY <1>2 DEF Load, budget, Ledgers
  <2>2. /\ NothingApplied \in [Services -> Digests \cup {Absent}]
        /\ badDigests[File] \in SUBSET Digests /\ notified[File] \in SUBSET Keys
        /\ lastApplied[File] \in [Services -> Digests \cup {Absent}]
    BY DEF Ledgers, NothingApplied, Holders
  <2>3. CASE UNCHANGED books
    BY <2>1, <2>3 DEF Ledgers, books
  <2>4. CASE ~UNCHANGED books
    <3>1. PICK bad \in SUBSET Digests, told \in SUBSET Keys,
               applied \in [Services -> Digests \cup {Absent}] :
             /\ badDigests' = [badDigests EXCEPT ![p] = bad]
             /\ lastApplied' = [lastApplied EXCEPT ![p] = applied]
             /\ notified' = [notified EXCEPT ![p] = told]
      BY <1>2, <2>2, <2>4 DEF Load
    <3> QED BY <2>1, <3>1 DEF Ledgers
  <2> QED BY <2>3, <2>4
<1>3. ASSUME NEW p \in Procs, NEW s \in Services, Evaluate(p, s) PROVE Ledgers'
  <2> DEFINE d == tag[ImageOf[s]]
  <2>1. CASE UNCHANGED <<books, file, faults>> BY <2>1, <1>1
  <2>2. CASE SeenAt(p, s, d) /\ ~UNCHANGED <<books, file, faults>>
    <3>1. PICK seen : Save(p, seen, badDigests[p], lastApplied[p], notified[p])
      BY <2>2 DEF SeenAt
    <3> QED BY <3>1, OwnBooks, SaveTyped
  <2> QED BY <1>3, <2>1, <2>2 DEF Evaluate
<1>4. ASSUME NEW p \in Procs, NEW s \in Services, Unreachable(p, s) PROVE Ledgers'
  BY <1>4, BoundsAreNat DEF Unreachable, Ledgers, books
<1>5. ASSUME NEW p \in Procs, Report(p) PROVE Ledgers'
  <2>1. PICK q \in plans[p] : FirstNotify(p, q.svc, q.to) BY <1>5 DEF Report
  <2>2. CASE UNCHANGED <<books, file, faults>> BY <2>2, <1>1
  <2>3. CASE Save(p, firstSeen[p], badDigests[p], lastApplied[p],
                  notified[p] \cup {<<q.svc, q.to>>})
    <3>1. q \in Plan BY DEF Timers
    <3>2. <<q.svc, q.to>> \in Keys BY <3>1 DEF Plan, Keys
    <3> QED BY <2>3, <3>2, OwnBooks, SaveTyped
  <2> QED BY <2>1, <2>2, <2>3 DEF FirstNotify
<1>6. ASSUME NEW p \in Procs, Pull(p) PROVE Ledgers'
  <2>1. UNCHANGED <<books, file>> /\ (UNCHANGED faults \/ (faults < MaxFaults /\ faults' = faults + 1))
    BY <1>6 DEF Pull
  <2> QED BY <2>1, BoundsAreNat DEF Ledgers, books
<1>7. ASSUME NEW p \in Procs, pc[p] = "gate"
      PROVE  job[p].svc \in Services /\ job[p].to \in Digests
  <2>1. job[p] \in Plan BY <1>7 DEF Control, Orderly, Timers
  <2> QED BY <2>1 DEF Plan
<1>8. ASSUME NEW p \in Procs, Succeed(p) PROVE Ledgers'
  <2>1. [lastApplied[p] EXCEPT ![job[p].svc] = job[p].to] \in [Services -> Digests \cup {Absent}]
    BY <1>7, <1>8, OwnBooks DEF Succeed
  <2>2. PICK seen : Save(p, seen, badDigests[p],
                         [lastApplied[p] EXCEPT ![job[p].svc] = job[p].to], notified[p])
    BY <1>8 DEF Succeed, MarkApplied
  <2> QED BY <2>1, <2>2, OwnBooks, SaveTyped
<1>9. ASSUME NEW p \in Procs, FailGate(p) PROVE Ledgers'
  <2>1. badDigests[p] \cup {job[p].to} \in SUBSET Digests
    BY <1>7, <1>9, OwnBooks DEF FailGate
  <2>2. Save(p, firstSeen[p], badDigests[p] \cup {job[p].to}, lastApplied[p], notified[p])
    BY <1>9 DEF FailGate, MarkBad
  <2> QED BY <2>1, <2>2, OwnBooks, SaveTyped
<1>10. ASSUME NEW p \in Procs, RollBack(p) PROVE Ledgers'
  <2>1. UNCHANGED <<books, file>> /\ (UNCHANGED faults \/ (faults < MaxFaults /\ faults' = faults + 1))
    BY <1>10 DEF RollBack
  <2> QED BY <2>1, BoundsAreNat DEF Ledgers, books
<1>11. ASSUME NEW p \in Procs, StartCycle(p) \/ Planned(p) \/ EndCycle(p) \/ Crash(p) PROVE Ledgers'
  BY <1>11, <1>1 DEF StartCycle, Planned, EndCycle, Crash, budget
<1>12. ASSUME NEW i \in Images, NEW d \in Digests, Push(i, d) PROVE Ledgers'
  BY <1>12, <1>1 DEF Push
<1>13. ASSUME Tick \/ UNCHANGED vars PROVE Ledgers'
  BY <1>13 DEF Tick, vars, Ledgers, books, budget
<1>14. ASSUME Damage PROVE Ledgers'
  BY <1>14 DEF Damage, Ledgers, books
<1> QED
  BY <1>2, <1>3, <1>4, <1>5, <1>6, <1>8, <1>9, <1>10, <1>11, <1>12, <1>13, <1>14
     DEF Next, Cycle

LEMMA HostsStep ==
  ASSUME Timers, Control, Hosts, [Next]_vars
  PROVE  Hosts'
<1>1. ASSUME UNCHANGED <<local, cur, view>> PROVE Hosts'
  BY <1>1 DEF Hosts
<1>2. ASSUME NEW p \in Procs, StartCycle(p) \/ Crash(p) PROVE Hosts'
  <2>1. UNCHANGED <<local, cur>> /\ view' = [view EXCEPT ![p] = cur]
    BY <1>2 DEF StartCycle, Crash, host
  <2> QED BY <2>1 DEF Hosts
<1>3. ASSUME NEW p \in Procs, Pull(p) PROVE Hosts'
  <2>1. UNCHANGED <<cur, view>> BY <1>3 DEF Pull
  <2>2. CASE UNCHANGED local BY <2>1, <2>2, <1>1
  <2>3. CASE ~UNCHANGED local
    <3>1. PICK q \in plans[p] : local' = [local EXCEPT ![ImageOf[q.svc]] = tag[ImageOf[q.svc]]]
      BY <1>3, <2>3 DEF Pull, PulledDigest
    <3>2. q \in Plan BY DEF Timers
    <3>3. tag[ImageOf[q.svc]] \in Digests BY <3>2 DEF Plan, Timers
    <3> QED BY <2>1, <3>1, <3>3 DEF Hosts
  <2> QED BY <2>2, <2>3
<1>4. ASSUME NEW p \in Procs, Succeed(p) PROVE Hosts'
  <2>1. job[p] \in Plan BY <1>4 DEF Succeed, Control, Orderly, Timers
  <2>2. Ran(p) \in Digests BY <2>1 DEF Ran, Plan, Hosts
  <2>3. cur' = [cur EXCEPT ![job[p].svc] = Ran(p)] /\ UNCHANGED <<local, view>>
    BY <1>4 DEF Succeed, Done
  <2> QED BY <2>2, <2>3 DEF Hosts
<1>5. ASSUME NEW p \in Procs,
             \/ Load(p) \/ Planned(p) \/ Report(p) \/ FailGate(p) \/ RollBack(p) \/ EndCycle(p)
             \/ \E s \in Services : Evaluate(p, s) \/ Unreachable(p, s)
      PROVE  Hosts'
  <2>1. UNCHANGED <<local, cur, view>>
    BY <1>5 DEF Load, Planned, Report, FailGate, RollBack, EndCycle, Evaluate, Unreachable,
                Done, host
  <2> QED BY <2>1, <1>1
<1>6. ASSUME (\E i \in Images, d \in Digests : Push(i, d)) \/ Tick \/ Damage \/ UNCHANGED vars
      PROVE  Hosts'
  BY <1>6, <1>1 DEF Push, Tick, Damage, vars, host, mind
<1> QED BY <1>2, <1>3, <1>4, <1>5, <1>6 DEF Next, Cycle

LEMMA TalliesStep ==
  ASSUME Timers, Control, Tallies, [Next]_vars
  PROVE  Tallies'
<1> USE BoundsAreNat
<1>1. ASSUME NEW p \in Procs,
             \/ Load(p) \/ StartCycle(p) \/ Planned(p) \/ Pull(p) \/ Succeed(p)
             \/ RollBack(p) \/ EndCycle(p)
             \/ \E s \in Services : Evaluate(p, s) \/ Unreachable(p, s)
      PROVE  Tallies'
  <2>1. UNCHANGED <<failed, sent, pushes, crashes, damage>>
    BY <1>1 DEF Load, StartCycle, Planned, Pull, Succeed, RollBack, EndCycle, Evaluate,
                Unreachable, Done, history, budget
  <2> QED BY <2>1 DEF Tallies
<1>2. ASSUME NEW p \in Procs, Report(p) PROVE Tallies'
  <2>1. UNCHANGED <<failed, pushes, crashes, damage>> BY <1>2 DEF Report, FirstNotify, Save
  <2>2. sent' \in [Keys -> 0..2]
    BY <1>2 DEF Report, FirstNotify, Tallies
  <2> QED BY <2>1, <2>2 DEF Tallies
<1>3. ASSUME NEW p \in Procs, FailGate(p) PROVE Tallies'
  <2>1. job[p] \in Plan BY <1>3 DEF FailGate, Control, Orderly, Timers
  <2>2. failed' \subseteq Digests BY <1>3, <2>1 DEF FailGate, Tallies, Plan
  <2>3. UNCHANGED <<sent, pushes, crashes, damage>> BY <1>3 DEF FailGate, Done
  <2> QED BY <2>2, <2>3 DEF Tallies
<1>4. ASSUME NEW p \in Procs, Crash(p) PROVE Tallies'
  BY <1>4 DEF Crash, Tallies, history
<1>5. ASSUME NEW i \in Images, NEW d \in Digests, Push(i, d) PROVE Tallies'
  BY <1>5 DEF Push, Tallies, history
<1>6. ASSUME Tick \/ Damage \/ UNCHANGED vars PROVE Tallies'
  BY <1>6 DEF Tick, Damage, vars, Tallies, history, budget
<1> QED BY <1>1, <1>2, <1>3, <1>4, <1>5, <1>6 DEF Next, Cycle

\* What the processes hold and believe, beside the soak's own invariant.
BookInv == Control /\ Ledgers /\ Hosts /\ Tallies

LEMMA BookInit == Init => Ledgers /\ Hosts /\ Tallies
<1> SUFFICES ASSUME Init PROVE Ledgers /\ Hosts /\ Tallies
  OBVIOUS
<1>1. Ledgers
  <2>1. NothingApplied \in [Services -> Digests \cup {Absent}] BY DEF NothingApplied
  <2> QED BY <2>1, BoundsAreNat DEF Init, Ledgers
<1>2. Hosts BY DEF Init, Hosts
<1>3. Tallies BY BoundsAreNat DEF Init, Tallies
<1> QED BY <1>1, <1>2, <1>3

LEMMA BookInvariant == Spec => [](SoakInv /\ BookInv)
<1>1. Init => SoakInv /\ BookInv
  BY SoakInit, ControlInit, BookInit DEF BookInv
<1>2. SoakInv /\ BookInv /\ [Next]_vars => SoakInv' /\ BookInv'
  BY SoakStep, ControlStep, LedgersStep, HostsStep, TalliesStep DEF BookInv, SoakInv
<1> QED BY <1>1, <1>2, PTL DEF Spec

\* The registry, the containers, every process's books, state.json and what
\* each process is about stay in their ranges, the counters within their bounds.
THEOREM UpdateCycleTypeCorrect == Spec => []TypeOK
<1>1. SoakInv /\ BookInv => TypeOK
  BY DEF SoakInv, BookInv, Timers, Control, Ledgers, Hosts, Tallies, TypeOK
<1> QED BY <1>1, BookInvariant, PTL
=============================================================================
