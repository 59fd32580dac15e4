------------------------------- MODULE Selection -------------------------------
(***************************************************************************)
(* Which containers a cycle touches: config.Load and labels.Parse as far   *)
(* as they decide it, and identifySelf, discover, eligible, evaluate with  *)
(* runningDigest of internal/engine/engine.go, over the registry client    *)
(* (Registry).  PullPilot runs in a container itself, which it has to find *)
(* among the others: its project is the default scope, and recreating it   *)
(* would end the process in the middle.                                    *)
(*                                                                         *)
(* UpdateCycle has the soak and the books, Recreate the recreate; here a   *)
(* newer digest is due or not due, and a recreate succeeds or does nothing. *)
(***************************************************************************)
EXTENDS Integers

CONSTANTS
    Names,          \* containers, by name
    Pilot,          \* the one PullPilot runs in
    ProjectOf,      \* [Names -> Compose projects]
    LabelChoices,   \* [Names -> sets of labels the container may wear]
    ScopeChoices,   \* values of PP_SCOPE
    None,           \* nothing: no project, no container
    RepoOf,         \* [Names -> Repos], the image reference
    Repos, Digests, Absent, Guarded, Private, Creds,  \* see Registry
    DigestsOf,      \* [Repos -> the digests a repository ever has]
    Contents,       \* image ids
    KnownChoices,   \* sets of <<repository, digest>> the host may start with
    ContentOf,      \* [Digests -> Contents]
    Rank,           \* [Digests -> Nat], the order of an image's RepoDigests
    MaxPushes,      \* bound: how often tags move
    MaxReplaced,    \* bound: how often another PullPilot recreates this one
    MaxFaults       \* bound: requests to Docker or a registry that fail

Labels == {"self", "exclude", "oneoff", "monitor", "enabled", "disabled",
           "wt-enabled", "wt-disabled", "wt-monitor"}

ASSUME NamesAssumption ==
    /\ Pilot \in Names /\ None \notin Names
    /\ None \notin {ProjectOf[n] : n \in Names}
    /\ RepoOf \in [Names -> Repos]
    /\ \A n \in Names : LabelChoices[n] \subseteq SUBSET Labels
ASSUME ScopeAssumption ==
    \A s \in ScopeChoices : s.mode \in {"project", "all", "invalid"}
ASSUME RegistryAssumption == Guarded \subseteq Repos /\ Absent \notin Digests
ASSUME DigestsAssumption ==
    /\ \A r \in Repos : DigestsOf[r] \subseteq Digests
    /\ ContentOf \in [Digests -> Contents] /\ Rank \in [Digests -> Nat]
    /\ KnownChoices \subseteq SUBSET (Repos \X Digests)
    /\ \A known \in KnownChoices : \A e \in known : e[2] \in DigestsOf[e[1]]
\* No repository holds the same image under two digests (an index pushed again
\* for the sake of another platform would): see NoChurn.
ASSUME ContentAssumption ==
    \A r \in Repos : \A d, e \in DigestsOf[r] : ContentOf[d] = ContentOf[e] => d = e
ASSUME BoundAssumption == {MaxPushes, MaxReplaced, MaxFaults} \subseteq Nat

VARIABLES
    \* the settings, fixed once made
    scope,      \* cfg.Scope, or mode "invalid"
    selfUpdate, compat,     \* PP_SELF_UPDATE, PP_COMPAT_WATCHTOWER
    labels,     \* [Names -> labels]
    named,      \* PullPilot's service has a hostname of its own
    \* the Docker host
    runs,       \* [Names -> image id]
    store,      \* [Contents -> RepoDigests, a set of <<repository, digest>>]
    hostname,   \* PullPilot's: its container's "id", an "old" one's, or "custom"
    \* the registry and the call
    tag, asked, at, bearer, answer, failed,
    \* the process
    pc,         \* "down", "idle", "plan", "act" or, stopped by itself, "stranded"
    self,       \* selfID, as a name
    todo,       \* containers still to evaluate
    target,     \* the one whose digest is being asked for, or None
    plans,
    \* history
    sighted,    \* Docker answered when the process started
    heard,      \* [Repos -> what the tag has been since the cycle began]
    pushes, replaced, faults

Reg == INSTANCE Registry

settings == <<scope, selfUpdate, compat, labels, named>>
host     == <<runs, store, hostname>>
call     == <<asked, at, bearer, answer, failed>>
mind     == <<pc, self, todo, target, plans>>
history  == <<sighted, heard>>
budget   == <<pushes, replaced, faults>>
vars     == <<settings, host, tag, call, mind, history, budget>>

Plan == [name : Names, to : Digests, action : {"update", "monitor"}]

TypeOK ==
    /\ scope \in ScopeChoices /\ {selfUpdate, compat, named} \subseteq BOOLEAN
    /\ \A n \in Names : labels[n] \in LabelChoices[n]
    /\ runs \in [Names -> Contents] /\ store \in [Contents -> SUBSET (Repos \X Digests)]
    /\ hostname \in {"id", "old", "custom"}
    /\ Reg!TypeOK
    /\ pc \in {"down", "idle", "plan", "act", "stranded"}
    /\ self \in Names \cup {None}
    /\ todo \subseteq Names /\ target \in Names \cup {None} /\ plans \subseteq Plan
    /\ sighted \in BOOLEAN /\ heard \in [Repos -> SUBSET Digests]
    /\ pushes \in 0..MaxPushes /\ replaced \in 0..MaxReplaced /\ faults \in 0..MaxFaults

\* One more failing request.
Fault == faults < MaxFaults /\ faults' = faults + 1

-----------------------------------------------------------------------------
(* labels.Parse.                                                           *)

Wears(n, l) == l \in labels[n]
Honours(n, l) == compat /\ Wears(n, l)

\* An explicit enable label decides, Watchtower's only in its absence.
Disabled(n) ==
    IF Wears(n, "enabled") THEN FALSE
    ELSE Wears(n, "disabled") \/ Honours(n, "wt-disabled")
OptedOut(n)    == Wears(n, "oneoff") \/ Wears(n, "exclude") \/ Disabled(n)
MonitorOnly(n) == Wears(n, "monitor") \/ Honours(n, "wt-monitor")

-----------------------------------------------------------------------------
(* identifySelf.                                                           *)

\* The container whose id the hostname is, or else the first that is labelled.
Recognised ==
    IF hostname = "id" THEN {Pilot}
    ELSE LET labelled == {n \in Names : Wears(n, "self")}
         IN  IF labelled = {} THEN {None} ELSE labelled

\* The process starts.  It looks for itself once, and only if Docker answers.
Boot ==
    /\ pc = "down" /\ scope.mode # "invalid" /\ pc' = "idle"
    /\ \/ sighted' = TRUE /\ self' \in Recognised /\ UNCHANGED faults
       \/ sighted' = FALSE /\ self' = None /\ Fault
    /\ UNCHANGED <<settings, host, tag, call, todo, target, plans, heard, pushes, replaced>>

\* config.Load refuses the scope, and the process exits.
Refuse == pc = "down" /\ scope.mode = "invalid" /\ UNCHANGED vars

-----------------------------------------------------------------------------
(* discover.                                                               *)

Project == IF scope.project # None THEN scope.project
           ELSE IF self # None THEN ProjectOf[self] ELSE None

\* Slip: without a project, the list is not filtered.
ListedAnyway(n) == scope.mode = "all" \/ Project \in {None, ProjectOf[n]}

\* An unknown project is nobody's.
Listed(n) == scope.mode = "all" \/ Project = ProjectOf[n]

Eligible(n) == (n = self => selfUpdate) /\ ~OptedOut(n)

\* A container that cannot be inspected is left out.
Discover ==
    /\ pc = "idle" /\ pc' = "plan"
    /\ LET targets == {n \in Names : Listed(n) /\ Eligible(n)}
       IN  \/ todo' = targets /\ UNCHANGED faults
          \/ \E n \in targets : todo' = targets \ {n} /\ Fault
    /\ plans' = {}
    /\ heard' = [r \in Repos |-> {tag[r]}]
    /\ UNCHANGED <<settings, host, tag, call, self, target, sighted, pushes, replaced>>

-----------------------------------------------------------------------------
(* evaluate.                                                               *)

\* The first of some RepoDigests.
First(some) == CHOOSE e \in some : \A f \in some : Rank[e[2]] <= Rank[f[2]]

\* Slip: the repository is not looked at.
BlindDigest(repo, entries) == IF entries = {} THEN Absent ELSE First(entries)[2]

\* matchRepoDigest: the first digest of the repository, or else the only one.
MatchRepoDigest(repo, entries) ==
    LET own == {e \in entries : e[1] = repo}
    IN  IF own # {} THEN First(own)[2]
        ELSE IF \E e \in entries : entries = {e} THEN First(entries)[2]
        ELSE Absent

Current(n) == MatchRepoDigest(RepoOf[n], store[runs[n]])

\* A target whose digest is known is looked up; one that was built here (or is
\* pinned by digest, which comes to the same) is skipped.
Lookup(n) ==
    /\ pc = "plan" /\ at = "none" /\ n \in todo
    /\ IF Current(n) = Absent
         THEN todo' = todo \ {n} /\ UNCHANGED <<tag, call, target>>
         ELSE Reg!Ask(RepoOf[n]) /\ target' = n /\ UNCHANGED todo
    /\ UNCHANGED <<settings, host, pc, self, plans, history, budget>>

Request ==
    /\ Reg!Head \/ Reg!Authenticate \/ Reg!HeadAgain
    /\ IF failed' /\ (at = "again" => Reg!Admitted) THEN Fault ELSE UNCHANGED faults
    /\ UNCHANGED <<settings, host, mind, history, pushes, replaced>>

\* Slip: PullPilot treats itself like any other.
ReportedUnlessDue(n) == MonitorOnly(n)

\* Its own container and monitor-only ones are only reported.
OnlyReported(n) == n = self \/ MonitorOnly(n)

\* The answer for a target: an error, no news, or a digest that is reported,
\* due, or not due (soaking, or known to be bad).
Decide(n) ==
    /\ n = target /\ Reg!Return
    /\ todo' = todo \ {n} /\ target' = None
    /\ IF failed \/ answer = Current(n)
         THEN UNCHANGED plans
         ELSE \/ plans' = plans \cup
                   {[name |-> n, to |-> answer,
                     action |-> IF OnlyReported(n) THEN "monitor" ELSE "update"]}
              \/ n # self /\ UNCHANGED plans
    /\ UNCHANGED <<settings, host, pc, self, history, budget>>

Planned ==
    /\ pc = "plan" /\ todo = {} /\ pc' = "act"
    /\ UNCHANGED <<settings, host, tag, call, self, todo, target, plans, history, budget>>

-----------------------------------------------------------------------------
(* Run's loop, and apply.                                                  *)

\* apply pulls by tag.
Pulled(n) == ContentOf[tag[RepoOf[n]]]

\* Stopping the container one runs in is the end: no restart policy starts it
\* again, and nobody is left to.
Strand ==
    /\ pc' = "stranded" /\ self' = None /\ plans' = {} /\ UNCHANGED runs

Apply(q) ==
    /\ pc = "act" /\ q \in plans /\ q.action = "update"
    /\ LET r == RepoOf[q.name]
       IN  store' = [store EXCEPT ![Pulled(q.name)] = @ \cup {<<r, tag[r]>>}]
    /\ IF q.name = Pilot
         THEN Strand
         ELSE /\ plans' = plans \ {q} /\ UNCHANGED <<pc, self>>
              /\ runs' = [runs EXCEPT ![q.name] = Pulled(q.name)]
    /\ UNCHANGED <<settings, hostname, tag, call, todo, target, history, budget>>

\* A notification, or an update that fails and is undone.
Pass(q) ==
    /\ pc = "act" /\ q \in plans
    /\ IF q.action = "monitor" THEN UNCHANGED faults ELSE Fault
    /\ plans' = plans \ {q}
    /\ UNCHANGED <<settings, host, tag, call, pc, self, todo, target, history, pushes, replaced>>

EndCycle ==
    /\ pc = "act" /\ plans = {} /\ pc' = "idle"
    /\ UNCHANGED <<settings, host, tag, call, self, todo, target, plans, history, budget>>

-----------------------------------------------------------------------------
(* Others.                                                                 *)

Push(r, d) ==
    /\ pushes < MaxPushes /\ pushes' = pushes + 1
    /\ d \in DigestsOf[r] /\ Reg!Push(r, d)
    /\ heard' = [heard EXCEPT ![r] = @ \cup {d}]
    /\ UNCHANGED <<settings, host, mind, sighted, replaced, faults>>

\* Slip: the old container's hostname is used as it is.
HostnameCopied == IF hostname = "id" THEN "old" ELSE hostname

\* What apply makes of the hostname in a container's config: an id of the old
\* container is cleared, and Docker fills in that of the new one.
HostnameKept == hostname

\* PullPilot's own container is recreated by another PullPilot on the host (or
\* started again by its user, or Docker): the process starts anew.
Replaced ==
    /\ replaced < MaxReplaced /\ replaced' = replaced + 1
    /\ hostname' = HostnameKept
    /\ pc' = "down" /\ self' = None /\ todo' = {} /\ target' = None /\ plans' = {}
    /\ asked' = Absent /\ at' = "none" /\ bearer' = "none"
    /\ answer' = Absent /\ failed' = FALSE
    /\ UNCHANGED <<settings, runs, store, tag, history, pushes, faults>>

\* Somebody finds PullPilot stopped and starts it.
Rescued ==
    /\ pc = "stranded" /\ pc' = "down"
    /\ UNCHANGED <<settings, host, tag, call, self, todo, target, plans, history, budget>>

-----------------------------------------------------------------------------
\* Every container runs what its tag points at, be the image known by that name,
\* by others (it was tagged by hand) or by none (it was built on the host).
Init ==
    /\ scope \in ScopeChoices /\ selfUpdate \in BOOLEAN /\ compat \in BOOLEAN
    /\ labels \in [Names -> UNION {LabelChoices[n] : n \in Names}]
    /\ \A n \in Names : labels[n] \in LabelChoices[n]
    /\ named \in BOOLEAN /\ hostname = IF named THEN "custom" ELSE "id"
    /\ Reg!Init /\ \A r \in Repos : tag[r] \in DigestsOf[r]
    /\ \E known \in KnownChoices :
         store = [c \in Contents |-> {e \in known : ContentOf[e[2]] = c}]
    /\ runs = [n \in Names |-> ContentOf[tag[RepoOf[n]]]]
    /\ pc = "down" /\ self = None /\ todo = {} /\ target = None /\ plans = {}
    /\ sighted = FALSE /\ heard = [r \in Repos |-> {}]
    /\ pushes = 0 /\ replaced = 0 /\ faults = 0

Next ==
    \/ Boot \/ Refuse \/ Discover \/ Request \/ Planned \/ EndCycle \/ Replaced \/ Rescued
    \/ \E n \in Names : Lookup(n) \/ Decide(n)
    \/ \E q \in plans : Apply(q) \/ Pass(q)
    \/ \E r \in Repos, d \in Digests : Push(r, d)

Spec == Init /\ [][Next]_vars

-----------------------------------------------------------------------------
(* Properties.                                                             *)

\* PullPilot can be told from other containers: by its hostname, or by a label
\* no other container on the host wears.
OnlyPilotWears == \A n \in Names : Wears(n, "self") <=> n = Pilot
Recognisable   == ~named \/ OnlyPilotWears
Unmistakable   == ~named \/ \A n \in Names \ {Pilot} : ~Wears(n, "self")

\* PullPilot knows its container, also when another PullPilot has recreated it.
KnowsItself ==
    pc \in {"idle", "plan", "act"} /\ sighted /\ Recognisable => self = Pilot

\* PullPilot never sets about recreating the container it runs in.
SelfSpared ==
    sighted /\ Recognisable =>
        \A q \in plans : q.name = Pilot => q.action = "monitor" /\ selfUpdate

\* No container outside the scope is touched; in the default scope that is
\* PullPilot's own project, and nothing at all when it is not known.
InScope(n) ==
    \/ scope.mode = "all"
    \/ ProjectOf[n] = IF scope.project # None THEN scope.project ELSE ProjectOf[Pilot]
ScopeKept == Unmistakable => \A q \in plans : InScope(q.name)

\* What a plan names is a digest the tag has had since the cycle began, though
\* it was asked in up to three requests, any of which may fail.
NoPhantom == \A q \in plans : q.to \in heard[RepoOf[q.name]]

\* No plan is made for the image a container runs already, when Docker has it
\* under the container's repository: the other repositories it is known under
\* do not make it look old for ever.
NoChurn ==
    [][\A q \in plans' \ plans :
          (\E d \in Digests : <<RepoOf[q.name], d>> \in store[runs[q.name]]) =>
              ContentOf[q.to] # runs[q.name]]_vars
=============================================================================
