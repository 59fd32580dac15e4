--------------------------- MODULE SelectionProofs ---------------------------
(***************************************************************************)
(* Theorems about Selection, for any containers, labels, scopes, digests   *)
(* and bounds.                                                             *)
(***************************************************************************)
EXTENDS Selection, WellFoundedInduction, TLAPS

\* The assumptions on the constants, one by one.
LEMMA Sizes ==
  /\ MaxPushes \in Nat /\ MaxReplaced \in Nat /\ MaxFaults \in Nat
  /\ Pilot \in Names /\ None \notin Names /\ Absent \notin Digests
  /\ RepoOf \in [Names -> Repos] /\ ContentOf \in [Digests -> Contents]
  /\ \A n \in Names : ProjectOf[n] # None
BY NamesAssumption, RegistryAssumption, DigestsAssumption, BoundAssumption

USE Sizes DEF settings, host, call, mind, history, budget

-----------------------------------------------------------------------------
(* Who PullPilot takes itself for, and which containers it works on.       *)

\* The hostname is the one chosen at first; a process that has looked for its
\* container takes itself for one it recognised.
SelfInv ==
    /\ hostname = (IF named THEN "custom" ELSE "id")
    /\ self # None => self \in Recognised
    /\ sighted /\ pc \in {"idle", "plan", "act"} => self \in Recognised

\* One target at a time is asked for.  Only containers in scope and eligible
\* are evaluated or planned for, and PullPilot's own only to be reported.
WorkInv ==
    /\ IF at = "none" THEN target = None ELSE target \in todo
    /\ \A n \in todo : pc = "plan" /\ Listed(n) /\ Eligible(n)
    /\ \A q \in plans :
         /\ pc \in {"plan", "act"}
         /\ Listed(q.name) /\ Eligible(q.name)
         /\ q.name = self => q.action = "monitor"

ChoiceInv == SelfInv /\ WorkInv

LEMMA ChoiceInit == Init => ChoiceInv
BY DEF Init, Reg!Init, ChoiceInv, SelfInv, WorkInv

\* What is listed and eligible depends on the settings and on selfID alone.
LEMMA SameScope ==
  ASSUME UNCHANGED <<settings, self>>, NEW n
  PROVE  Listed(n)' = Listed(n) /\ Eligible(n)' = Eligible(n)
<1>1. Project' = Project
  BY DEF Project
<1>2. OptedOut(n)' = OptedOut(n)
  BY DEF OptedOut, Disabled, Wears, Honours
<1> QED BY <1>1, <1>2 DEF Listed, Eligible

LEMMA SameRecognised ==
  ASSUME UNCHANGED <<settings, hostname>>
  PROVE  Recognised' = Recognised
BY DEF Recognised, Wears

\* Work that goes on, or shrinks, stays within bounds.
LEMMA WorkKept ==
  ASSUME WorkInv, UNCHANGED <<settings, self, pc>>,
         todo' \subseteq todo, plans' \subseteq plans,
         IF at' = "none" THEN target' = None ELSE target' \in todo'
  PROVE  WorkInv'
BY SameScope DEF WorkInv

LEMMA ChoiceStep ==
  ASSUME ChoiceInv, [Next]_vars
  PROVE  ChoiceInv'
<1> USE DEF ChoiceInv
<1>1. UNCHANGED settings
  <2>1. ASSUME NEW n \in Names, Lookup(n) \/ Decide(n) PROVE UNCHANGED settings
    BY <2>1 DEF Lookup, Decide
  <2>2. ASSUME NEW q \in plans, Apply(q) \/ Pass(q) PROVE UNCHANGED settings
    BY <2>2 DEF Apply, Pass
  <2> QED BY <2>1, <2>2 DEF Next, vars, Boot, Refuse, Discover, Request, Planned, EndCycle,
        Replaced, Rescued, Push
<1>2. hostname' = hostname
  <2>1. ASSUME NEW n \in Names, Lookup(n) \/ Decide(n) PROVE hostname' = hostname
    BY <2>1 DEF Lookup, Decide
  <2>2. ASSUME NEW q \in plans, Apply(q) \/ Pass(q) PROVE hostname' = hostname
    BY <2>2 DEF Apply, Pass
  <2> QED BY <2>1, <2>2 DEF Next, vars, Boot, Refuse, Discover, Request, Planned, EndCycle,
        Replaced, HostnameKept, Rescued, Push
<1>3. Recognised' = Recognised
  BY <1>1, <1>2, SameRecognised
<1>4. ASSUME Boot PROVE ChoiceInv'
  <2>1. SelfInv'
    BY <1>1, <1>2, <1>3, <1>4 DEF Boot, SelfInv
  <2>2. todo = {} /\ plans = {} /\ target = None
    BY <1>4 DEF Boot, WorkInv
  <2> QED BY <1>4, <2>1, <2>2 DEF Boot, WorkInv
<1>5. ASSUME Discover PROVE ChoiceInv'
  <2>1. SelfInv'
    BY <1>1, <1>2, <1>3, <1>5 DEF Discover, SelfInv
  <2>2. target = None
    BY <1>5 DEF Discover, WorkInv
  <2>3. todo' \subseteq {n \in Names : Listed(n) /\ Eligible(n)}
    BY <1>5 DEF Discover
  <2>4. \A n \in todo' : Listed(n)' /\ Eligible(n)'
    BY <1>5, <2>3, SameScope DEF Discover
  <2> QED BY <1>5, <2>1, <2>2, <2>4 DEF Discover, WorkInv
<1>6. ASSUME NEW n \in Names, Lookup(n) PROVE ChoiceInv'
  <2>1. SelfInv'
    BY <1>1, <1>2, <1>3, <1>6 DEF Lookup, SelfInv
  <2>2. todo' \subseteq todo /\ (IF at' = "none" THEN target' = None ELSE target' \in todo')
    <3>1. CASE Current(n) = Absent
      BY <1>6, <3>1 DEF Lookup, WorkInv
    <3>2. CASE Current(n) # Absent
      BY <1>6, <3>2 DEF Lookup, Reg!Ask
    <3> QED BY <3>1, <3>2
  <2> QED BY <1>6, <2>1, <2>2, WorkKept DEF Lookup
<1>7. ASSUME NEW n \in Names, Decide(n) PROVE ChoiceInv'
  <2>1. SelfInv'
    BY <1>1, <1>2, <1>3, <1>7 DEF Decide, SelfInv
  <2>2. pc = "plan" /\ Listed(n) /\ Eligible(n)
    BY <1>7 DEF Decide, Reg!Return, WorkInv
  <2>3. \A q \in plans' \ plans : q.name = n /\ (n = self => q.action = "monitor")
    BY <1>7 DEF Decide, OnlyReported
  <2>4. \A q \in plans' : Listed(q.name)' /\ Eligible(q.name)' /\ (q.name = self' => q.action = "monitor")
    BY <1>7, <2>2, <2>3, SameScope DEF Decide, WorkInv
  <2>5. \A m \in todo' : pc' = "plan" /\ Listed(m)' /\ Eligible(m)'
    BY <1>7, SameScope DEF Decide, WorkInv
  <2> QED BY <1>7, <2>1, <2>2, <2>4, <2>5 DEF Decide, Reg!Return, WorkInv
<1>8. ASSUME Request PROVE ChoiceInv'
  <2>1. at # "none" /\ at' # "none"
    BY <1>8 DEF Request, Reg!Head, Reg!Authenticate, Reg!HeadAgain, Reg!Returns, Reg!Fails
  <2> QED BY <1>1, <1>2, <1>3, <1>8, <2>1, WorkKept DEF Request, SelfInv, WorkInv
<1>9. ASSUME Planned PROVE ChoiceInv'
  <2>1. \A q \in plans : Listed(q.name)' /\ Eligible(q.name)'
    BY <1>9, SameScope DEF Planned, WorkInv
  <2> QED BY <1>1, <1>2, <1>3, <1>9, <2>1 DEF Planned, SelfInv, WorkInv
<1>10. ASSUME NEW q \in plans, Apply(q) PROVE ChoiceInv'
  <2>1. CASE q.name = Pilot
    BY <1>1, <1>2, <1>3, <1>10, <2>1 DEF Apply, Strand, SelfInv, WorkInv
  <2>2. CASE q.name # Pilot
    BY <1>1, <1>2, <1>3, <1>10, <2>2, WorkKept DEF Apply, SelfInv, WorkInv
  <2> QED BY <2>1, <2>2
<1>11. ASSUME NEW q \in plans, Pass(q) PROVE ChoiceInv'
  BY <1>1, <1>2, <1>3, <1>11, WorkKept DEF Pass, SelfInv, WorkInv
<1>12. ASSUME EndCycle PROVE ChoiceInv'
  BY <1>1, <1>2, <1>3, <1>12 DEF EndCycle, SelfInv, WorkInv
<1>13. ASSUME NEW r \in Repos, NEW d \in Digests, Push(r, d) PROVE ChoiceInv'
  BY <1>1, <1>2, <1>3, <1>13, WorkKept DEF Push, Reg!Push, Reg!call, SelfInv, WorkInv
<1>14. ASSUME Replaced PROVE ChoiceInv'
  BY <1>1, <1>2, <1>3, <1>14 DEF Replaced, SelfInv, WorkInv
<1>15. ASSUME Rescued PROVE ChoiceInv'
  BY <1>1, <1>2, <1>3, <1>15 DEF Rescued, SelfInv, WorkInv
<1>16. ASSUME UNCHANGED vars PROVE ChoiceInv'
  BY <1>1, <1>2, <1>3, <1>16, WorkKept DEF vars, SelfInv, WorkInv
<1> QED BY <1>4, <1>5, <1>6, <1>7, <1>8, <1>9, <1>10, <1>11, <1>12, <1>13, <1>14, <1>15, <1>16
    DEF Next, Refuse

LEMMA ChoiceAlways == Spec => []ChoiceInv
BY ChoiceInit, ChoiceStep, PTL DEF Spec

-----------------------------------------------------------------------------
LEMMA RecognisedPilot ==
  ASSUME SelfInv, Recognisable
  PROVE  Recognised = {Pilot}
<1>1. CASE ~named
  BY <1>1 DEF SelfInv, Recognised
<1>2. CASE named /\ OnlyPilotWears
  <2>1. {n \in Names : Wears(n, "self")} = {Pilot}
    BY <1>2 DEF OnlyPilotWears
  <2> QED BY <1>2, <2>1 DEF SelfInv, Recognised
<1> QED BY <1>1, <1>2 DEF Recognisable

\* PullPilot knows its container, whatever another PullPilot does to it.
THEOREM PilotKnowsItself == Spec => []KnowsItself
<1>1. ChoiceInv => KnowsItself
  BY RecognisedPilot DEF ChoiceInv, SelfInv, KnowsItself
<1> QED BY <1>1, ChoiceAlways, PTL

\* PullPilot never sets about recreating its own container.
THEOREM PilotSparesItself == Spec => []SelfSpared
<1>1. ASSUME ChoiceInv, sighted, Recognisable, NEW q \in plans, q.name = Pilot
      PROVE  q.action = "monitor" /\ selfUpdate
  <2>1. self = Pilot
    BY <1>1, RecognisedPilot DEF ChoiceInv, SelfInv, WorkInv
  <2> QED BY <1>1, <2>1 DEF ChoiceInv, WorkInv, Eligible
<1>2. ChoiceInv => SelfSpared
  BY <1>1 DEF SelfSpared
<1> QED BY <1>2, ChoiceAlways, PTL

-----------------------------------------------------------------------------
(* Types, and what a plan has heard.                                       *)

\* A tag has been heard as long as its cycle lasts; a call is for its target
\* and returns what was heard, and so do plans.
HeardInv ==
    /\ pc \in {"plan", "act"} => \A r \in Repos : tag[r] \in heard[r]
    /\ target # None => asked = RepoOf[target]
    /\ at = "answered" /\ ~failed => answer \in heard[asked]
    /\ \A q \in plans : q.to \in heard[RepoOf[q.name]]

KnownInv == TypeOK /\ ChoiceInv /\ HeardInv

LEMMA KnownInit == Init => KnownInv
<1>1. ASSUME Init PROVE TypeOK
  <2>1. store \in [Contents -> SUBSET (Repos \X Digests)]
    <3>1. PICK known \in KnownChoices :
              store = [c \in Contents |-> {e \in known : ContentOf[e[2]] = c}]
      BY <1>1 DEF Init
    <3>2. known \in SUBSET (Repos \X Digests)
      BY <3>1, DigestsAssumption
    <3> QED BY <3>1, <3>2
  <2>2. Reg!TypeOK
    BY <1>1 DEF Init, Reg!Init, Reg!TypeOK
  <2>3. runs \in [Names -> Contents]
    BY <1>1, <2>2 DEF Init, Reg!TypeOK
  <2>4. hostname \in {"id", "old", "custom"}
    BY <1>1 DEF Init
  <2>5. heard \in [Repos -> SUBSET Digests]
    BY <1>1 DEF Init
  <2>6. {selfUpdate, compat, named, sighted} \subseteq BOOLEAN /\ scope \in ScopeChoices
    BY <1>1 DEF Init
  <2>7. pushes \in 0..MaxPushes /\ replaced \in 0..MaxReplaced /\ faults \in 0..MaxFaults
    BY <1>1 DEF Init
  <2> QED BY <1>1, <2>1, <2>2, <2>3, <2>4, <2>5, <2>6, <2>7 DEF Init, TypeOK
<1>2. Init => HeardInv
  BY DEF Init, HeardInv, Reg!Init
<1> QED BY <1>1, <1>2, ChoiceInit DEF KnownInv

LEMMA KnownStep ==
  ASSUME KnownInv, [Next]_vars
  PROVE  KnownInv'
<1> USE DEF KnownInv, TypeOK, Reg!TypeOK
<1> ChoiceInv'
  BY ChoiceStep
<1>1. ASSUME Boot PROVE TypeOK' /\ HeardInv'
  <2>1. Recognised \subseteq Names \cup {None}
    BY DEF Recognised
  <2>2. self' \in Names \cup {None} /\ sighted' \in BOOLEAN
    BY <1>1, <2>1 DEF Boot
  <2>3. faults' \in 0..MaxFaults
    BY <1>1 DEF Boot, Fault
  <2> QED BY <1>1, <2>2, <2>3 DEF Boot, HeardInv
<1>2. ASSUME Discover PROVE TypeOK' /\ HeardInv'
  <2>1. todo' \subseteq Names /\ faults' \in 0..MaxFaults
    BY <1>2 DEF Discover, Fault
  <2>2. heard' \in [Repos -> SUBSET Digests] /\ \A r \in Repos : tag[r] \in heard'[r]
    BY <1>2 DEF Discover
  <2>3. target = None /\ at = "none"
    BY <1>2 DEF Discover, ChoiceInv, WorkInv
  <2>4. HeardInv'
    BY <1>2, <2>2, <2>3 DEF Discover, HeardInv
  <2> QED BY <1>2, <2>1, <2>2, <2>4 DEF Discover
<1>3. ASSUME NEW n \in Names, Lookup(n) PROVE TypeOK' /\ HeardInv'
  <2>1. CASE Current(n) = Absent
    BY <1>3, <2>1 DEF Lookup, HeardInv
  <2>2. CASE Current(n) # Absent
    BY <1>3, <2>2 DEF Lookup, Reg!Ask, HeardInv
  <2> QED BY <2>1, <2>2
<1>4. ASSUME Request PROVE TypeOK' /\ HeardInv'
  <2>1. faults' \in 0..MaxFaults
    BY <1>4 DEF Request, Fault
  <2>2. target # None
    BY <1>4, NamesAssumption DEF Request, Reg!Head, Reg!Authenticate, Reg!HeadAgain, ChoiceInv, WorkInv
  <2>3. pc = "plan" /\ asked \in Repos
    BY <1>4, <2>2 DEF ChoiceInv, WorkInv, HeardInv
  <2>4. Reg!TypeOK' /\ (at' = "answered" /\ ~failed' => answer' \in heard[asked]) /\ asked' = asked
    BY <1>4, <2>3 DEF Request, Reg!Head, Reg!Authenticate, Reg!HeadAgain, Reg!Returns, Reg!Fails,
       Reg!Header, HeardInv
  <2>5. HeardInv'
    <3>1. UNCHANGED <<pc, tag, heard, target, plans>>
      BY <1>4 DEF Request, Reg!Head, Reg!Authenticate, Reg!HeadAgain, Reg!Returns, Reg!Fails
    <3> QED BY <2>4, <3>1 DEF HeardInv
  <2> QED BY <1>4, <2>1, <2>4, <2>5 DEF Request
<1>5. ASSUME NEW n \in Names, Decide(n) PROVE TypeOK' /\ HeardInv'
  <2>1. Reg!TypeOK' /\ todo' \subseteq Names
    BY <1>5 DEF Decide, Reg!Return
  <2>2. pc = "plan" /\ at = "answered" /\ asked = RepoOf[n]
    BY <1>5 DEF Decide, Reg!Return, ChoiceInv, WorkInv, HeardInv
  <2>3. \A q \in plans' \ plans : q \in Plan /\ q.to \in heard[RepoOf[q.name]]
    <3>1. CASE failed \/ answer = Current(n)
      BY <1>5, <3>1 DEF Decide
    <3>2. CASE ~failed /\ answer # Current(n)
      <4>1. answer \in heard[RepoOf[n]] /\ answer \in Digests
        BY <2>2, <3>2 DEF HeardInv
      <4>2. \A q \in plans' \ plans : q = [name |-> n, to |-> answer,
                                    action |-> IF OnlyReported(n) THEN "monitor" ELSE "update"]
        BY <1>5, <3>2 DEF Decide
      <4> QED BY <4>1, <4>2 DEF Plan
    <3> QED BY <3>1, <3>2
  <2>4. plans' \subseteq Plan /\ \A q \in plans' : q.to \in heard[RepoOf[q.name]]
    BY <2>3 DEF HeardInv
  <2> QED BY <1>5, <2>1, <2>2, <2>4 DEF Decide, Reg!Return, HeardInv
<1>6. ASSUME Planned PROVE TypeOK' /\ HeardInv'
  BY <1>6 DEF Planned, HeardInv
<1>7. ASSUME NEW q \in plans, Apply(q) PROVE TypeOK' /\ HeardInv'
  <2>1. q.name \in Names /\ tag[RepoOf[q.name]] \in Digests
    BY DEF Plan
  <2>2. store' \in [Contents -> SUBSET (Repos \X Digests)]
    <3>1. <<RepoOf[q.name], tag[RepoOf[q.name]]>> \in Repos \X Digests
      BY <2>1
    <3>2. store' = [store EXCEPT ![Pulled(q.name)] = @ \cup {<<RepoOf[q.name], tag[RepoOf[q.name]]>>}]
      BY <1>7 DEF Apply
    <3> QED BY <3>1, <3>2
  <2>3. runs' \in [Names -> Contents] /\ plans' \subseteq plans
    BY <1>7, <2>1 DEF Apply, Strand, Pulled
  <2>4. (UNCHANGED <<pc, self>> \/ (pc' = "stranded" /\ self' = None /\ plans' = {}))
    BY <1>7 DEF Apply, Strand
  <2> QED BY <1>7, <2>2, <2>3, <2>4 DEF Apply, HeardInv
<1>8. ASSUME NEW q \in plans, Pass(q) PROVE TypeOK' /\ HeardInv'
  <2>1. faults' \in 0..MaxFaults
    BY <1>8 DEF Pass, Fault
  <2> QED BY <1>8, <2>1 DEF Pass, HeardInv
<1>9. ASSUME EndCycle PROVE TypeOK' /\ HeardInv'
  BY <1>9 DEF EndCycle, HeardInv
<1>10. ASSUME NEW r \in Repos, NEW d \in Digests, Push(r, d) PROVE TypeOK' /\ HeardInv'
  <2>1. \A s \in Repos : heard[s] \subseteq heard'[s]
    BY <1>10 DEF Push
  <2>2. tag' \in [Repos -> Digests] /\ heard' \in [Repos -> SUBSET Digests] /\ pushes' \in 0..MaxPushes
    BY <1>10 DEF Push, Reg!Push
  <2>3. pc \in {"plan", "act"} => \A s \in Repos : tag'[s] \in heard'[s]
    BY <1>10, <2>1 DEF Push, Reg!Push, HeardInv
  <2>4. UNCHANGED <<at, asked, answer, failed, bearer>>
    BY <1>10 DEF Push, Reg!Push, Reg!call
  <2>5. at = "answered" /\ ~failed => answer \in heard'[asked]
    <3>1. at = "answered" => asked \in Repos
      BY NamesAssumption DEF ChoiceInv, WorkInv, HeardInv
    <3> QED BY <2>1, <3>1 DEF HeardInv
  <2>6. \A q \in plans : q.to \in heard'[RepoOf[q.name]]
    BY <2>1 DEF HeardInv, Plan
  <2> QED BY <1>10, <2>2, <2>3, <2>4, <2>5, <2>6 DEF Push, HeardInv
<1>11. ASSUME Replaced PROVE TypeOK' /\ HeardInv'
  <2>1. replaced' \in 0..MaxReplaced
    BY <1>11 DEF Replaced
  <2> QED BY <1>11, <2>1 DEF Replaced, HostnameKept, HeardInv
<1>12. ASSUME Rescued PROVE TypeOK' /\ HeardInv'
  BY <1>12 DEF Rescued, HeardInv
<1>13. ASSUME UNCHANGED vars PROVE TypeOK' /\ HeardInv'
  BY <1>13 DEF vars, HeardInv
<1> QED BY <1>1, <1>2, <1>3, <1>4, <1>5, <1>6, <1>7, <1>8, <1>9, <1>10, <1>11, <1>12, <1>13
    DEF Next, Refuse

LEMMA KnownAlways == Spec => []KnownInv
BY KnownInit, KnownStep, PTL DEF Spec

\* Type correctness.
THEOREM WellTyped == Spec => []TypeOK
BY KnownAlways, PTL DEF KnownInv

\* A plan never names a digest its tag has not had since the cycle began.
THEOREM PlansWereHeard == Spec => []NoPhantom
<1>1. KnownInv => NoPhantom
  BY DEF KnownInv, HeardInv, NoPhantom
<1> QED BY <1>1, KnownAlways, PTL

\* Nothing outside the scope is planned for.
THEOREM StaysInScope == Spec => []ScopeKept
<1>1. ASSUME ChoiceInv, Unmistakable PROVE self \in {Pilot, None}
  <2>1. CASE ~named
    BY <1>1, <2>1 DEF ChoiceInv, SelfInv, Recognised
  <2>2. CASE \A n \in Names \ {Pilot} : ~Wears(n, "self")
    BY <1>1, <2>2 DEF ChoiceInv, SelfInv, Recognised
  <2> QED BY <1>1, <2>1, <2>2 DEF Unmistakable
<1>2. ASSUME ChoiceInv, Unmistakable, TypeOK, NEW q \in plans PROVE InScope(q.name)
  <2>1. Listed(q.name) /\ q.name \in Names
    BY <1>2 DEF ChoiceInv, WorkInv, TypeOK, Plan
  <2>2. CASE scope.mode = "all"
    BY <2>2 DEF InScope
  <2>3. CASE scope.mode # "all" /\ scope.project # None
    BY <2>1, <2>3 DEF InScope, Listed, Project
  <2>4. CASE scope.mode # "all" /\ scope.project = None
    BY <1>1, <1>2, <2>1, <2>4 DEF InScope, Listed, Project
  <2> QED BY <2>2, <2>3, <2>4
<1>3. ChoiceInv /\ TypeOK => ScopeKept
  BY <1>2 DEF ScopeKept
<1> QED BY <1>3, KnownAlways, PTL DEF KnownInv

-----------------------------------------------------------------------------
(* What a container's digest tells about its image.                        *)

\* What the host and the registry have are digests a repository ever has, and
\* an image's RepoDigests are of that image.
StoreInv ==
    /\ \A c \in Contents : \A e \in store[c] : e[2] \in DigestsOf[e[1]] /\ ContentOf[e[2]] = c
    /\ \A r \in Repos : tag[r] \in DigestsOf[r] /\ heard[r] \subseteq DigestsOf[r]

LEMMA StoreInit == Init => StoreInv
<1> SUFFICES ASSUME Init PROVE StoreInv
  OBVIOUS
<1>1. PICK known \in KnownChoices :
          store = [c \in Contents |-> {e \in known : ContentOf[e[2]] = c}]
  BY DEF Init
<1>2. \A e \in known : e[2] \in DigestsOf[e[1]]
  BY DigestsAssumption
<1> QED BY <1>1, <1>2 DEF Init, StoreInv

LEMMA StoreStep ==
  ASSUME KnownInv, StoreInv, [Next]_vars
  PROVE  StoreInv'
<1> USE DEF StoreInv
<1>1. ASSUME NEW q \in plans, Apply(q) PROVE StoreInv'
  <2> DEFINE r == RepoOf[q.name]
  <2>1. r \in Repos /\ tag[r] \in DigestsOf[r]
    BY DEF KnownInv, TypeOK, Plan
  <2>2. store' = [store EXCEPT ![ContentOf[tag[r]]] = @ \cup {<<r, tag[r]>>}]
    BY <1>1 DEF Apply, Pulled
  <2>3. ASSUME NEW c \in Contents, NEW e \in store'[c]
        PROVE  e[2] \in DigestsOf[e[1]] /\ ContentOf[e[2]] = c
    <3>1. CASE e \in store[c]
      BY <3>1
    <3>2. CASE e \notin store[c]
      <4>1. e = <<r, tag[r]>> /\ c = ContentOf[tag[r]]
        BY <2>2, <2>3, <3>2 DEF KnownInv, TypeOK
      <4> QED BY <2>1, <4>1
    <3> QED BY <3>1, <3>2
  <2> QED BY <1>1, <2>3 DEF Apply
<1>2. ASSUME Discover PROVE StoreInv'
  BY <1>2 DEF Discover
<1>3. ASSUME NEW r \in Repos, NEW d \in Digests, Push(r, d) PROVE StoreInv'
  BY <1>3 DEF Push, Reg!Push, KnownInv, TypeOK, Reg!TypeOK
<1>4. ASSUME NEW n \in Names, Lookup(n) \/ Decide(n) PROVE StoreInv'
  BY <1>4 DEF Lookup, Decide, Reg!Ask, Reg!Return
<1>5. ASSUME NEW q \in plans, Pass(q) PROVE StoreInv'
  BY <1>5 DEF Pass
<1>6. ASSUME Request PROVE StoreInv'
  BY <1>6 DEF Request, Reg!Head, Reg!Authenticate, Reg!HeadAgain, Reg!Returns, Reg!Fails
<1>7. ASSUME Boot \/ Planned \/ EndCycle \/ Replaced \/ Rescued \/ UNCHANGED vars PROVE StoreInv'
  BY <1>7 DEF Boot, Planned, EndCycle, Replaced, Rescued, vars
<1> QED BY <1>1, <1>2, <1>3, <1>4, <1>5, <1>6, <1>7 DEF Next, Refuse

\* Some RepoDigests have a first.
LEMMA FirstIsIn ==
  ASSUME NEW some \in SUBSET (Repos \X Digests), some # {}
  PROVE  First(some) \in some
<1> DEFINE T == {Rank[e[2]] : e \in some}
<1>1. T \subseteq Nat /\ T # {}
  BY DigestsAssumption
<1>2. \E x \in T : \A y \in T : <<y, x>> \notin OpToRel(<, Nat)
  BY <1>1, NatLessThanWellFounded, WFMin
<1>3. PICK x \in T : \A y \in T : <<y, x>> \notin OpToRel(<, Nat)
  BY <1>2
<1>4. \A y \in T : ~(y < x)
  BY <1>1, <1>3 DEF OpToRel
<1>5. PICK e \in some : Rank[e[2]] = x
  BY <1>3
<1>6. \A f \in some : Rank[e[2]] <= Rank[f[2]]
  <2> SUFFICES ASSUME NEW f \in some PROVE x <= Rank[f[2]]
    BY <1>5
  <2>1. Rank[f[2]] \in T /\ Rank[f[2]] \in Nat /\ x \in Nat
    BY <1>1, <1>5
  <2>2. ~(Rank[f[2]] < x)
    BY <1>4, <2>1
  <2> HIDE DEF T
  <2> QED BY <2>1, <2>2
<1> QED BY <1>6 DEF First

\* An image known under a repository is told by a digest of that repository.
LEMMA CurrentIsOwn ==
  ASSUME KnownInv, StoreInv, NEW n \in Names, NEW d \in Digests,
         <<RepoOf[n], d>> \in store[runs[n]]
  PROVE  Current(n) \in DigestsOf[RepoOf[n]] /\ ContentOf[Current(n)] = runs[n]
<1> DEFINE own == {e \in store[runs[n]] : e[1] = RepoOf[n]}
<1>1. runs[n] \in Contents /\ own \in SUBSET (Repos \X Digests) /\ own # {}
  BY DEF KnownInv, TypeOK
<1>2. First(own) \in own
  BY <1>1, FirstIsIn
<1>3. Current(n) = First(own)[2]
  BY <1>1 DEF Current, MatchRepoDigest
<1> QED BY <1>1, <1>2, <1>3 DEF StoreInv

\* No plan is made for the image a container runs already.
THEOREM NothingTwice == Spec => NoChurn
<1> DEFINE Step == \A q \in plans' \ plans :
                     (\E d \in Digests : <<RepoOf[q.name], d>> \in store[runs[q.name]]) =>
                         ContentOf[q.to] # runs[q.name]
<1>1. ASSUME KnownInv, StoreInv, [Next]_vars PROVE Step
  <2>1. ASSUME NEW n \in Names, Decide(n) PROVE Step
    <3> SUFFICES ASSUME NEW q \in plans' \ plans, NEW d \in Digests,
                        <<RepoOf[q.name], d>> \in store[runs[q.name]]
                 PROVE  ContentOf[q.to] # runs[q.name]
      OBVIOUS
    <3>1. q.name = n /\ q.to = answer /\ answer # Current(n) /\ ~failed
      BY <2>1 DEF Decide
    <3>2. answer \in DigestsOf[RepoOf[n]]
      BY <1>1, <2>1, <3>1 DEF Decide, Reg!Return, KnownInv, ChoiceInv, WorkInv, HeardInv, StoreInv
    <3>3. Current(n) \in DigestsOf[RepoOf[n]] /\ ContentOf[Current(n)] = runs[n]
      BY <1>1, <3>1, CurrentIsOwn
    <3> QED BY <3>1, <3>2, <3>3, ContentAssumption
  <2>2. (\E n \in Names : Decide(n)) \/ plans' \subseteq plans
    <3>1. ASSUME NEW n \in Names, Lookup(n) PROVE plans' \subseteq plans
      BY <3>1 DEF Lookup
    <3>2. ASSUME NEW q \in plans, Apply(q) \/ Pass(q) PROVE plans' \subseteq plans
      BY <3>2 DEF Apply, Strand, Pass
    <3> QED BY <1>1, <3>1, <3>2 DEF Next, vars, Boot, Refuse, Discover, Request, Planned, EndCycle,
          Replaced, Rescued, Push
  <2> QED BY <2>1, <2>2
<1>2. Spec => []StoreInv
  BY StoreInit, StoreStep, KnownAlways, PTL DEF Spec
<1> QED BY <1>1, <1>2, KnownAlways, PTL DEF Spec, NoChurn
=============================================================================
