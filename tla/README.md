# PullPilot in TLA+

A formal model of PullPilot, the updater for Docker containers in this
repository: TLA+ modules translated from its source, TLC configurations that
check them on small instances, and theorems about them that the TLA+ proof
system TLAPS checks for every instance. Source lines below are given as
`engine.go:539`; `PROJECT.json` maps every definition of the model to its lines.

## 1. Inventory

| Part | Source | State it keeps | Operations | Talks to |
|---|---|---|---|---|
| Recreate protocol | `internal/engine/engine.go` (`apply`, `rollback`, `healthGate`, `reconcileOrphans`) | none of its own: container names, ids and run states in Docker | stop, rename, create, attach networks, start, gate, remove; undo; repair of `_pp_old` leftovers | Docker, one API call at a time |
| Update cycle | `engine.go` (`buildPlan`, `evaluate`, `Run`, `Status`) | the plans of one cycle | discover, evaluate, notify, apply | State, Docker, registry |
| State file | `internal/state/state.go` | first-seen times, bad digests, last applied, notified; in memory and in `state.json` | load, `SeenAt`, `MarkBad`, `MarkApplied`, `FirstNotify`, save | the update cycle |
| Self-identification and scope | `engine.go` (`New`, `identifySelf`, `discover`, `eligible`) | own container id and project, found once | which containers are considered | Docker |
| Daemon | `cmd/pullpilot/main.go` | the single-flight mutex | `serve` (schedule, jitter, start-up cycle, shutdown), `run`, `status` | the update cycle, the webhook client |
| Webhook client | `internal/webhook/webhook.go` | key, registration, connection, backoff, debounce timer | provision, dial, authenticate, heartbeat, schedule a check | the relay, the daemon |
| Relay Worker | `worker/src/index.ts` | webhook records in KV, with an expiry | provision, listen, poke | the Durable Object |
| Relay Durable Object | `worker/src/relay.ts` | sockets and their attachments; pending flag, poke window, alarm in storage; the webhook id in memory | upgrade, login, poke, flush, alarm | KV, the connected daemons |
| Registry client | `internal/registry/registry.go` | none | digest of a tag: HEAD, token, retry | registries |
| Labels, configuration | `internal/labels`, `internal/config` | none | parse | |
| Notifications, logging, version | `internal/notify`, `internal/logging`, `internal/version` | none | output | |

How they meet: the daemon starts a cycle at start-up, by cron and on a poke, and
its mutex lets one run at a time (`main.go:151-157`). A cycle first repairs what
an interrupted recreate left behind, then evaluates every container against its
registry and the State, and applies the plans due, one after the other. `run`
and `status` are processes of their own: they share the Docker socket and
`state.json` with the daemon, and not its mutex. A poke goes through the Worker to
the Durable Object of its webhook, over a WebSocket to the daemon, and ends as
one more cycle.

### What makes them correct, and what makes that hard

- *Recreate*: the service is never lost; a container that works is kept until
  its replacement has proved itself; old and new never run together; what was
  interrupted is repaired; a digest is blamed only for its own failure. Hard: a
  crash between any two calls, a failing call after others took effect, an
  answer that is lost, the deadline passing in the middle, a host reboot under
  `restart: always`, leftovers of leftovers.
- *Update cycle and state file*: nothing is rolled out before its soak is over;
  a bad digest is not tried again; each digest is announced once; looking
  changes nothing; every service catches up. Hard: tags that move between check
  and pull, or away and back; two processes that overwrite each other's file;
  failing saves, damaged files, restarts with a stale file.
- *Relay*: an accepted poke is delivered or kept; sockets stay bounded; nobody
  stays connected without logging in; the record of a webhook in use does not
  expire. Hard: other events run while a handler awaits KV or WebCrypto; the
  object leaves memory between events; KV calls fail; connections die silently.
- *Webhook client and daemon*: every accepted poke is followed by a check; a
  poke URL that was shown stays good; after a signal nothing new is begun and
  the process ends. Hard: two windows on two machines that have to fit (the
  relay's 5 s, the client's 10 s), connections that end on one side first, a
  process that dies between two files, a timer racing a shutdown, a mutex many
  wait for.
- *Health gate*: a container passes only if it is well, is blamed only for what
  it did, and is given its time. Hard: what happens between two polls, and one
  deadline for steps of any length.
- *Self-identification and scope*: PullPilot knows its own container, never
  stops it, touches nothing outside its scope and updates nothing for ever.
  Hard: it is one container among others and may be recreated itself; an image
  has several digests under several names; tags move in the middle of a look-up.

`PROJECT.json` lists the hazards one by one, each at the line where it bites,
with the properties that cover it.

## 2. Plan

| Step | Modules | State |
|---|---|---|
| 1 | `ServiceUpdate`, `Recreate`, `MCRecreate`: what an update promises of one service, and the protocol | done |
| 2 | `RecreateProofs`: type correctness, no service lost | done |
| 3 | `UpdateCycle`, `MCUpdateCycle`: cycles, soak, blacklist, state file | done |
| 4 | `UpdateCycleProofs`: the soak window is honoured | done |
| 5 | `Relay`, `MCRelay`, `RelayProofs`: Worker look-up and Durable Object; caps, reaper, pokes | done |
| 6 | `WebhookClient`, `PokeRelay`, `Daemon`, `PokePath`: the client, what the relay promises, and the way of a poke through all three to a check | done |
| 7 | `Relay` implements `PokeRelay` (`KeepsPromise`, proved in `RelayProofs`) | done |
| 8 | `HealthGate`, `Shutdown`, `ShutdownProofs`: the gate's clock under a daemon that is told to stop | done |
| 9 | `Registry`, `Selection`, `SelectionProofs`: a look-up, PullPilot among the containers, scope, and which digest a container runs | done |
| 10 | `CalmProofs`: `Recreate` implements `ServiceUpdate`; `PokePathProofs`: the parts of the composition, pokes, identity | done |
| 11 | `BookProofs`: announcements, verdicts and views of `UpdateCycle`; `Relay` implements `PokeRelay`; `OneAtATime`; type correctness everywhere | done |
| 12 | More theorems: what two processes that both record can still be promised; `Recreate` under failing calls, beyond `NeverLost` | later |

`PokeRelay` and `ServiceUpdate` are the abstract specifications: what a relay
promises those who poke and listen, what an update promises of a service. The
detailed modules are shown to implement them, and `PokePath` composes the
client and the daemon with the promise and not with the relay's sockets.

## 3. The modules

### `Recreate`: one service, one Docker call per step

A container's name is the service's name with a number of `_pp_old` suffixes;
`nameOf[c]` is that number, 0 for the service's own name, `Gone` when the
container does not exist. `run` is the set of running containers, `sick` those
whose image will not become healthy, which is settled when they first run.
Each process has a `pc`, the Docker call it makes next, and the local variables
the code holds at that point: `snap` and `todo` (`reconcileOrphans`), `plans`
(`Run`), `cur`, `new` and `expired` (`apply`: the plan, `newID`, the deadline of
`opCtx`), `journal` (what it told the State).

| Actions | Code |
|---|---|
| `StartCycle`, `Reconcile`, `StartRestored` | `reconcileOrphans`: list once, then handle each leftover by the names in that list |
| `Discover`, `EndCycle` | `discover`, `Run` |
| `Pull`, `StopOld`, `RenameOld`, `CreateNew`, `AttachNetworks`, `StartNew`, `GatePass`, `GateFail`, `Commit` | `apply` and `healthGate`, in order, with the early returns and rollbacks of each |
| `UndoStop`, `UndoRemove`, `Restore`, `RestartOld` | `rollback`, whose errors are ignored |
| `Expire` | the deadline of `opCtx` passes |
| `Crash`, `Restart`, `Reboot` | the process dies, Docker restarts it, the host reboots |

Docker is external. `Answer(p, legal, err, hit)` is its side of a call: accepted
and in effect; refused because it is not legal or the deadline has passed;
failing for a reason of its own; or, with `MayLose`, in effect with the answer
lost. Which containers are due is any subset: that is `UpdateCycle`'s subject.

`ServiceUpdate` is the abstract specification: a keeper, perhaps a replacement
beside it, and a take-over only by one that is trusted. `Keeper` and `Promise` are the
refinement mapping. `Recreate` implements it in calm, that is when no call fails, no
process dies and no deadline passes (`KeepsPromise`); with crashes it does not, see
section 6.

### `UpdateCycle`: which digest runs where

`tag` and `published` are the registry, `local` and `cur` the host. The four maps
of `State` are functions of the holder: each process, and `File` for
`state.json`. `Save` copies a process's maps to `File`, or fails; `Load` reads
them back and starts empty if the file is absent; a corrupt file it puts aside and
fails, so that the start after it finds none. A process goes through `StartCycle`
(`discover`), one `Evaluate` or `Unreachable` per container in the order of
evaluation, `Planned`, then `Report`, `Pull` and one of `Succeed`, `FailGate`,
`RollBack` per plan in the order of `sort`, and `EndCycle`. A read-only view
(`status`, `PP_DRY_RUN`) goes the same way with `record = false` and stops at
`Planned`. Times are ages, counted in `Tick` and cut off at `MaxAge`, no
less than the longest soak, where nothing in the code tells them apart any more.
What a gate says is given by the digest: `Broken` ones fail, `Doubtful` ones may (an inspect without
an answer is a verdict to `apply`, 682-688 and 583-585), and a service of `MayStop` may
be stopped and then is not gated at all (574), so that even a broken digest gets in.

The two meet in `apply`: `UpdateCycle` takes a recreate as one step with three
outcomes, `Recreate` shows what becomes of the containers in each of them.

### `Relay`: one webhook

`sock`, `age` are the sockets and their attachments, `pending`, `lastPoke`,
`windowAge`, `windowCount`, `alarm` the object's storage, `knows` says whether
the field `webhookId` is set, `record` is the age of the KV record. JavaScript
runs a handler without interruption up to an `await`; awaits of the object's own
storage hold other events back, awaits of KV and WebCrypto do not. So a login is
`AuthBegin`, `AuthVerify`, `AuthFlush`, a poke `Poke`, `PokeLands`, and an alarm
`AlarmFires`, `AlarmEnds`, with everything else in between; a KV call that fails
ends its handler there. `Hibernate` clears what is in memory, `Recycle` also
closes the sockets, `Drop` and `Die` end a connection with and without notice.
`owed` and `heard` are history: whether an accepted poke has reached no daemon.
The Worker's part is the look-up that precedes listening and poking.

### `PokePath`: from the HTTP request to a check

Four modules. `PokeRelay` is the relay as those outside see it: connections that
listen (some of them `silent`, dead and not noticed), the pending flag, the time
since the last frame. `Relay` implements it: `listening` are the sockets logged
in, `settling` the logins whose `flushPending` is still to come.

`WebhookClient` is `webhook.go`: `at` is the place in `New` (`LoadKey`,
`CreateKey`, `LoadRegistration`, `Provision`, `Save`, each a file or a request
that may fail into `Disable`) or in `Run` (`Dial`, `LogIn`, `Disconnect`, `Wake`,
`Read`, `Return`). `keyFile` and `regFile` are the data dir and outlive the process; a
file torn by a crash reads as none. `owner` is the relay's record of which key a
webhook belongs to. `ReplaceKey` is what `loadOrCreateKey` does when it cannot read a
key that is there: it overwrites it, as if it were absent (89-98), and `replaced` says
so until a registration is saved for the new one; an overwriting that is itself cut
short, and leaves no key beside the registration, is left out. `timer` is `pendingTimer`, which a poke restarts (`Rescheduled`);
`Fire` ends it and the trigger is the daemon's.

`Daemon` is `serve` and, of `Run` and `apply`, where they look at `ctx`: the three
triggers queue for the mutex (`waiting`), one holds it (`cycle`, `phase`), a signal
sets `cancelled`, and serve waits `ShutdownWait` for the mutex, in line with the
triggers. `Pull` is still given `ctx`, `Recreate` is not.

`PokePath` joins their steps: a login on both sides, a frame from one into the
other, a timer into the queue, a process that starts, stops and dies as a whole.
A login may also be refused, for its key is not the webhook's (`Refused`), and its flush
may be skipped, for the KV store failed before it (`FlushFails`, `relay.ts:325-326`).
`due`, `fresh` and `astray` are history: whether an accepted poke has had no check
yet, whether it came after the present cycle began, whether a frame went into a
connection that was dead.

### `Shutdown`: a signal, a recreate and the gate's clock

`HealthGate` has the time in polls (2 s): `Budget` is `opTimeout`, `spent` what has
been used of it, by the setup first and then by the gate (`watched`). `Look` is one
turn of `healthGate`'s loop up to its select, `Verdict` its answer, `Base` the
restart count of the first look, `Cut` the end of `opCtx`. `LookFails` is an inspect
with an error or without a `State`, whose error `healthGate` returns and `apply` takes
for a verdict; `blind` remembers it. Nothing makes it happen and nothing bounds it:
Docker answers or it does not. The container is external:
it reports, exits, or exits and is restarted, between any two polls. `Shutdown`
joins a daemon to it: a recreate of `Daemon` lasts as long as `HealthGate` says.

### `Selection`: which containers a cycle touches

`Registry` is `RemoteDigest`: a HEAD, or a HEAD, a token and another HEAD, with
tags moving in between. `Selection` is what surrounds it: `Boot` (`New` with
`identifySelf`), `Discover`, per container `Lookup`, `Request` and `Decide` (`evaluate`), then
`Apply` or `Pass`. The labels, scope and switches are chosen at the start and fixed; a
container is a name, its image an image id with the repository digests Docker
keeps for it (`store`), `hostname` is what PullPilot's own container was given: its
id, or one of its own. Recreating one's own container ends in `stranded`: the process is gone
with the container stopped. `Replaced` is another PullPilot on the host recreating this
one, through the same `apply`, so its hostname is what `HostnameKept` makes of it. Of the
plan's possible outcomes `UpdateCycle` has the soak and the blacklist, here they
are "due or not".

## 4. The runs

| Run | Checks | Instance |
|---|---|---|
| `Recreate_faults` | `NeverLost`, `BadOnlyIfSick` | a failing or lost call, two crashes or reboots, deadlines; ids symmetric |
| `Recreate_heals` | `TypeOK`, `AllOrNothing`, `ProvenKeptInCalm`, `OneAtATime`, `NameComesBack`, `OrphansCleared`, `ServedAgain`, `KeepsPromise` | a failing or lost call and a crash, fair; images may be sick |
| `UpdateCycle_daemon` | `TypeOK`, `NotifiedOnce`, `NeverRetried`, `ViewersOnlyLook` | daemon and viewer; one service updated, one only monitored; two pushes, a crash |
| `UpdateCycle_converges` | `SoakHonoured`, `CatchesUp` | daemon; two pushes of three digests, a failure, a crash, a damaged file, fair |
| `Relay_delivers` | `TypeOK`, `AuthedBounded`, `ReaperArmed`, `PokesKept`, `PendingFlushed`, `Reaped`, `KeepsPromise` | three connections, caps 1 and 2, one trouble of any kind, fair |
| `PokePath_arrives` | `TypeOK`, `PokesRemembered`, `IdentityKept`, `PokesAnswered` | two connections, two keys and ids, two pokes, one trouble of any kind beside failing files and KV calls, fair but for the schedule |
| `Shutdown_gate` | `TypeOK`, `AtMostOneMore`, `PassMeansWell`, `BadMeansSick`, `NotCutShort`, `ShutsDown` | three triggers, two updates a cycle, two timeouts and graces, inspects without an answer, a restart of the container, a signal or crash, fair |
| `Selection_hosts` | `TypeOK`, `KnowsItself`, `SelfSpared`, `ScopeKept`, `NoPhantom`, `NoChurn` | PullPilot, a mate in its project, an alien; four scopes, six sets of labels, two repositories; a push, a recreate of PullPilot, a failing request |
| `Recreate_x_crash`, `Recreate_x_failed`, `UpdateCycle_x_moved`, `Relay_x_expires` | `ProvenKept`, `NoDowntimeLeft`, `RunsSoaked`, `RecordOutlives`: what the repository says and the code violates | section 6 |

What the properties say, beyond the comments beside them:

- `AllOrNothing` and `KeepsPromise` are about complete cycles without trouble of
  Docker's: the service ends under its own name, running if it ran, on a proven
  container, whether the update passed or was rolled back.
- `NeverLost` holds through every combination of failure, crash, expiry and
  repair. `ProvenKept`, which is stronger, holds only in calm, without crashes, failing
  calls and deadlines: `ProvenKeptInCalm`. A deadline between stop and rename leaves the
  container stopped, and the next update replaces a stopped one without a gate.
- `OneAtATime` holds through any crash and deadline, and is conditional on no failing
  call and on a restart policy that leaves stopped containers stopped: section 6 has
  what a repair that could not list the containers leads to.
- `ViewersOnlyLook` says that no step of a `status` or a dry run reaches the host,
  `state.json` or a soak timer in it, also between the steps of a daemon.
- `BadOnlyIfSick` is conditional on no failing call, since a failing inspect
  counts as unhealthy (`engine.go:580-585`).
- `SoakHonoured` compares a rollout with the registry's own history and not with
  the recorded first-seen time, so it also covers records that are lost, stale
  or written by another process: the run has one process that records, the theorem
  any number. It counts from the publication of a digest; that the tag pointed at it
  all the while does not hold (section 6).
- `NeverRetried` holds in the run with one updatable service. With two on one image
  it does not (section 6).
- `ServedAgain` is the self-healing the code has: after a crash with nobody under the
  service's name, one container is up again. Two failures in a row, a crash and a
  failing call or a second crash, may spoil it, and a crash elsewhere is not healed at
  all: section 6.
- `PokesKept` relates pokes to what daemons heard: it excludes runs in which a
  connection died unnoticed, for the protocol has no acknowledgement.
- `PokesRemembered` says who still knows of an accepted poke at every moment: the
  relay, a frame on its way, the timer, the queue, a cycle about to look, or a
  process about to start. It breaks if the client's timer is shorter than the
  window in which the relay drops pokes. `PokesAnswered` is the same as liveness,
  with no fairness for the schedule, which would answer for everything. The code keeps
  no such promise without exceptions, and the property names them, each a state and not
  a history: `astray`, a frame went to the dead; `HeldBack`, the flush after the last
  login was skipped, so the relay holds a poke although somebody listens; `Deaf`, the
  webhook of this process is disabled, or its key has been replaced. As long as one of
  them lasts only the schedule answers. `HeldBack` ends with the next login and a disabled
  webhook with the process, and the property is binding again.
- `IdentityKept` ties what was shown in the log to the two files and the relay's
  record, through crashes anywhere in `New`. After `ReplaceKey` only the webhook is the
  same: the key on file is not the one the relay knows.
- `ReaperArmed` says that an alarm is coming while a socket has not logged in, `Reaped`
  that it is closed in the end. That it is closed in time does not hold (section 6).
- `AtMostOneMore` counts recreates begun after a signal. It is 1, not 0: the pull
  before it is `ctx`'s, the recreate after it is not, and the signal may come in between.
- `PassMeansWell` and `BadMeansSick` compare a verdict with what the container did,
  seen or not, and not with what the gate looked at. `BadMeansSick` has one exception, an
  inspect Docker did not answer (`blind`): the code takes that for a verdict, although
  the documentation says otherwise (section 6).
- `NotCutShort` gives the condition under which a deadline may end a gate: grace and
  Docker have used up the slack, or the least budget.
- `KnowsItself`, `SelfSpared` and `ScopeKept` are conditional on PullPilot being
  told from other containers (`Recognisable`, `Unmistakable`) and, the first two,
  on Docker answering at start (`sighted`): section 6 has what happens otherwise.
- `NoChurn` rests on `ContentAssumption`, one digest per image and repository.

**Bounds.** Three container ids are the two a recreate needs and one more for a
leftover; ids of removed containers are used again. `MaxDepth` 2 lets a leftover
of a leftover be updated itself. One fault and two crashes put a second crash
into the repair of the first. In `UpdateCycle_daemon` and `UpdateCycle_converges` a good
digest may be blamed and a broken one may get into a stopped service, in the latter
without keeping either from settling. Two digests beside the running one are enough for
a tag that moves on in mid-soak, or away and back. `MaxAge` is the longest soak,
so "long enough" and "not yet" both occur. In the relay, one place for a listener
and two for logins make the two logins race for it with a third connection to
spare; the ticks keep only the order of the code's times (5 s, 30 s, a week, half
a year), which is all its comparisons use; `Grace` stands for both limits of 30 s.
`MaxTasks` 1 lets one poke and one finished login be in flight, and two logins
beside them. `MaxTroubles` of `PokePath` does not count what fails in `New` or after a
login: restarts and logins, which it does count, bound that. In `PokePath`, two connections are the one the client has and the one the
relay still believes in; two pokes let one be dropped for the other's sake;
`Coalesce` 1 and `Debounce` 2 keep the order of 5 s and 10 s, which is assumed, and
`QuickRestart` FALSE says that a process is not back within the window (section 6 has what
happens if it is). No updates are due there: recreates are `Shutdown`'s. In `Shutdown`, with
the shorter timeout the least budget counts, with the longer one the slack, and
the longer grace uses it up; one restart is enough to be missed. In `Selection`, the
mate's image is also the alien's, under a second repository that comes first;
images are known under both names, one or none; the mate wears each label that matters,
and Watchtower's against PullPilot's own; the registry of the first repository wants
a token of a user. All bounds are constants and guards.

**Deadlock** is checked in every run; in all of them cycles, ticks or restarts
go on for ever (a configuration that `Load` refuses is refused again at every
restart).

**Fairness.** `Recreate`: a process in a cycle goes on (its loop has no wait but
Docker calls, each under a deadline), cron starts the next cycle, and Docker
restarts the daemon (`restart: unless-stopped` in `deploy/`). `UpdateCycle`: the
same, and time passes. `Relay`: handlers and due alarms are run by Cloudflare, a
silent connection is noticed in the end (heartbeats, `webhook.go`), and the
client redials for ever (`webhook.go:156`). Strong fairness is asked once, of a
login in time: the client answers `hello` at once, and a network always too slow
for 30 s would keep any protocol from logging in. `PokePath`: the process
runs and is restarted, the client redials when a connection has ended or a login was
refused, relay and client notice dead connections (`webhook.go:267-287`, 312-316), time passes; the two pokes are all, for the
timer starts anew with each. `Shutdown`: goroutines run, Docker answers or its
deadline passes, time passes. No fairness is asked of pushes, pokes, failures,
unanswered inspects, crashes, signals, the schedule in `PokePath`, or viewers.

## 5. The proofs

| Theorem | Says | From |
|---|---|---|
| `TypeCorrect` | `Recreate` is type correct | invariant `Typed` |
| `ServiceNeverLost` | `Spec => []NeverLost`, assuming `SingleFlight` | invariant `Kept` |
| `OnlySickIsBad` | `BadOnlyIfSick`, assuming `SingleFlight` | invariant `JudgedInv` |
| `NeverTwoAtOnce` | `OneAtATime`, assuming `SingleFlight` | invariant `UpInv` |
| `CyclesAreAtomic`, `ProvenIsKept` | `AllOrNothing`, `ProvenKeptInCalm`, assuming `SingleFlight` | invariant `InCalm` |
| `RecreateKeepsPromise` | `Spec => KeepsPromise`, assuming `SingleFlight` | each step is `Allowed` |
| `UpdatesSoak` | `Spec => []SoakHonoured` in `UpdateCycle` | invariant `SoakInv` |
| `UpdateCycleTypeCorrect` | `UpdateCycle` is type correct | invariant `BookInv` beside `SoakInv` |
| `AnnouncedOnce` | `NotifiedOnce` as long as `SavesKept`, assuming `OneRecorder` | invariant `Known` |
| `FailuresNotRetried` | `NeverRetried` as long as `SavesKept` and `OwnDigests`, assuming `OneRecorder` | invariants `Fit`, `OnePlanEach` |
| `NothingLost` | `SavesKept`, assuming `OneRecorder`, no failing save and no damage | invariant `Whole` |
| `OneServiceRemembered` | `NotifiedOnce` and `NeverRetried`, assuming that and `OneUpdatable` | the three above |
| `PlannedOnce`, `NeverUpdatedUninvited` | `OnePlanEach`, `OnlyUpdatable`, for any processes | inductive with `BookInv` |
| `LookingChangesNothing` | `ViewersOnlyLook` as long as the file is not corrupt | who records, by `Control` |
| `RelayTypeCorrect` | `Relay` is type correct | invariant `TypeOK` |
| `ListenersBounded` | `Spec => []AuthedBounded` in `Relay` | invariant `Capped` |
| `ReaperAlwaysArmed` | `Spec => []ReaperArmed` in `Relay` | inductive with `TypeOK` |
| `PokesNeverForgotten` | `Spec => []PokesKept` in `Relay` | invariant `PokesInv` |
| `RelayKeepsPromise` | `Spec => KeepsPromise`: `Relay` implements `PokeRelay` | step by step, with `TypeOK` |
| `PilotKnowsItself`, `PilotSparesItself` | `KnowsItself`, `SelfSpared` in `Selection` | what the process knows of itself, and its plans |
| `StaysInScope` | `ScopeKept` in `Selection` | targets are in scope, plans are of targets |
| `PlansWereHeard` | `NoPhantom` in `Selection` | the answer of a look-up was heard |
| `NothingTwice` | `NoChurn` in `Selection` | repositories only hold digests they ever had |
| `OneMoreAtMost` | `AtMostOneMore` in `Shutdown` | invariant `LateInv` |
| `PassedIsWell`, `BlamedIsSick`, `DeadlineIsAmple` | `PassMeansWell`, `BadMeansSick` (with its exception), `NotCutShort` in `Shutdown` | invariant `GateInv` |
| `PartsBehave` | `PokePath` implies the specification of each of its parts | step by step |
| `PokesAreRemembered` | `PokesRemembered` in `PokePath`, assuming `~QuickRestart` | invariant `PokeInv` |
| `ShownStaysGood` | `IdentityKept` in `PokePath` | invariant `ClientInv` of the client alone |
| `PokePathTypeCorrect` | `PokePath` is type correct | the parts' own, and `Owing` |
| `WellTyped` (twice) | `Selection`, `Shutdown` are type correct | |

Each holds for every value of the constants that satisfies the named assumptions
at the head of its module: any number of containers, services, digests,
connections, tasks in flight and failures, and, but for the theorems about
`Recreate` that assume `SingleFlight`, any number of processes.

*A service is never lost.* `NeverLost` is not inductive: removing a container is
safe because of what the process that removes it knows. `Safe(p)` says that for
each stretch of the code: once the old container is renamed it keeps its temporary
name until rollback renames it; a replacement is a different container, under the
service's name until rollback removes it; and during the repair there is a
*bottom* container, one that exists and that the repair cannot take for
superseded. The last is the heart: the repair decides by the names it listed at
its start, which go stale as it renames and removes, and still there is always a
container with the fewest suffixes in that list, which no other can supersede
(`SomeBottom`, by well-founded induction through `LeastNat`). `Safe` speaks of
one process at a time, hence `SingleFlight`: what the mutex of `serve` gives one
daemon. With two processes the invariant fails, see section 6.

*Only the sick are blamed.* `Judged(p)` says that nothing has been recorded before the
gate speaks, and that what the gate watches was started. With `Safe`, by which the
replacement still exists, a gate that fails without an error has a sick container
before it; and nobody cures one between the verdict and the end of `rollback`.

*In calm.* `Shape(p, c)` draws the service at each point of a cycle: alone under its
name; aside, renamed and stopped; or paired with a replacement that holds the name. It
names `c`, the container the service stands on. Each call then has exactly one outcome
(`CalmAnswer`), and each step keeps the drawing and moves the service as `Allowed` says.
`Keeper` is that `c` (`KeeperIs`), and the cases of `Allowed` are the actions of
`ServiceUpdate`: the refinement holds for any number of containers.

*Never two at once.* `OneAtATime` says nothing of names, and only names keep it: `Front`
says that one container has the service's name and one at most stands aside, and that
the one aside does not run. Each start is then harmless if it is of a container under the
service's name, and each rename to the temporary one if it is of a stopped container,
which `OldAt` knows of the process. A crash takes nothing from `Front`, and the repair
after it finds what is aside: `UpToDate` says that it works through exactly the containers
aside (`Clear` when it is done), so a plan is only made for the service's own name, and is
still true when it is applied. All of that needs `faults = 0`: a repair that fails to list
goes on to plan (section 6). Deadlines may pass anywhere, for a call that was not sent has no
effect. TLC checked `UpInv` on the instance of `Recreate_heals` with four crashes and deadlines.

*Updates soak.* `SeenAfterPublished` says no holder, file included, claims to
have seen a digest before it was published. It survives every save, load, crash
and overwriting, since those copy claims or drop them; pruning drops them; and
time passes for claim and publication alike. A gate that opens on a claim is then
right, and a plan stays right, as ages only grow. That the claim concerns the
digest the tag had at the check, and not the one pulled, is the gap of section 6.

*What is written down.* `BookProofs` is about the books of the one process that
records (`OneRecorder`: the daemon), with any number of viewers. `Known` says that what was
announced and what failed is in its books; a restart keeps that if `state.json` says the
same (`SavesKept`), which `Whole` proves of saves that succeed: memory and file change in
one step, and viewers write neither. `NeverRetried` asks more, for the blacklist is
read when a plan is made: a plan made before must not be for a digest that has failed
since. `Fit` is that, and it needs that a service is planned for once in a cycle (`OnePlanEach`)
and that no two services are due for one digest (`OwnDigests`). Each hypothesis is there
because without it the theorem is false: two recorders announce twice and overwrite each
other's blacklist, a lost save and a restart forget, and of two services on one sick image
the second is tried in the cycle in which the first failed (section 6). `OneServiceRemembered`
puts them together for one service to update, the situation of run `UpdateCycle_daemon`,
where nothing but constants is assumed. `Control` carries the rest: a viewer never gets
to where books or containers are touched; the one step of a viewer that can reach the
data dir is loading a corrupt file, which `Load` moves away (section 6).

*The relay.* `Capped` adds up listeners and logins under way: a login passes the
test only below the cap on listeners, all logins under way are sockets not yet
logged in, of which there are at most their own cap, and finishing a login moves
one from the second to the first. `PokesInv` adds to `PokesKept` that a frame sent
within the coalescing time was heard, so coalescing a poke into it forgets
nothing. Both hold for any number of pokes and logins in flight, where the run
has one and two.

*The relay keeps its promise.* `PokeRelay` has no sockets, alarms or handlers; most steps
of `Relay` are nothing to it (`Unseen`). A login is seen when the socket becomes authed
(`LogInSeen`), its flush when the handler gets there (`FlushSeen`), a poke when it lands
(`PokeSeen`): a frame, a note, or neither within the window. A connection that
ends, alone or with the object's memory, ends a listener and the logins unfinished
(`EndSeen`, `QuietSeen`). `PokePath` composes with `PokeRelay`, and by this theorem what
it shows of pokes is about `Relay`.

*The way of a poke.* Each joint step of `PokePath` is a step of each part, or leaves it
alone (`RelaySteps`, `ClientSteps`, `MainSteps`); hence `PartsBehave`, and an invariant of
the client alone, as `ClientInv`, is one of the composition. `RecentInv` carries
`PokesRemembered`: a frame sent within the coalescing window, and not to the dead, is
still unread or has set a timer that outlasts the window, since the debounce is longer.
So a poke the relay drops for that frame is remembered by the client. A flush that is
skipped leaves the poke pending, which is remembered, too. `ClientInv` is indifferent
to a key that is replaced before the URL is shown, and gives the key up with `replaced`.

*The gate.* `GateInv` has two parts. `ClockInv` says how the clocks hang together: the
setup took no more than grace and `Overhead`, so `spent` is at most that ahead of
`watched`, and the gate ends with the first look past its timeout; a deadline that
ends it therefore finds the slack gone. `FallInv` says how an exit shows: the
container is down, or its restart count has grown past the one first seen, since
the count never falls. So no restart goes unnoticed, however it lies between polls. A
verdict without an inspect behind it is `blind`, and `BlamedIsSick` claims nothing of it.

*After a signal.* A second recreate needs a second pull, and none succeeds once
`ctx` is done (`LateInv`): the phase "pulled" is only reached before the signal.

*Self and scope.* The hostname is an id of PullPilot's own container as long as
`HostnameKept` clears the old one's; so the process identifies itself each time it
starts, or nothing; its targets are then in the scope and not itself, or itself and
reported. `NothingTwice` needs an order on an image's digests only to have a first
one (`Rank`, by a least natural number).

Every invariant of the runs is stated by a theorem, some with hypotheses, which
the table names. Only model-checked: liveness under fairness, and with it `ENABLED`, which are
out of the prover's reach (`NameComesBack`, `OrphansCleared`, `ServedAgain`, `CatchesUp`, `PendingFlushed`,
`Reaped`, `PokesAnswered`, `ShutsDown`). The modules proved about contain no recursive
operator, so no induction over data was needed beyond least elements.

## 6. Where the code falls short of what it says

Four runs exhibit a behaviour that contradicts a line of the repository:

- `Recreate_x_failed`: the rename after the stop fails, and `apply` returns
  without rollback (`engine.go:539`); the service stays down, against `apply`'s
  own comment at 490-491.
- `Recreate_x_crash`: the daemon dies between creating the replacement and the
  end of its gate; the repair deletes the old container because *a* container has
  the name (`engine.go:651`), and there is nothing left to roll back to, against
  README.md:64 and `engine.go:507`.
- `UpdateCycle_x_moved`: the tag moves between check and pull, and `apply` pulls
  the tag (`engine.go:500`); an unsoaked digest is rolled out, against
  README.md:58-59.
- `Relay_x_expires`: after hibernation the alarm does not know its webhook
  (`relay.ts:512`) and refreshes nothing; the record of a connected listener
  expires, against `relay.ts:511` and 12. Every login renews the record, so this
  needs one connection that lasts the whole term.

The same models show, or make plain, further differences that have no run of
their own:

- The daemon dies after the stop and before the rename (`engine.go:535-539`). No
  `_pp_old` is left, nothing starts the service again, and a later update takes it for
  stopped on purpose, against README.md:43 and `engine.go:656`. A crash between
  a rename back and its start, in rollback or in the repair, does the same. `ServedAgain` is
  what holds.
- A rollback caused by the deadline runs on the expired context: none of its
  calls is sent, and the service stays down until the next repair.
- An inspect that fails during the gate blacklists the digest (`engine.go:583`, from
  682-688), against 580-582 and README.md:255-256, "genuinely fails". The models have it
  (`LookFails`, `Doubtful`), and `BadMeansSick` excepts it (`blind`).
- If the repair's list fails (634-637) the cycle goes on, and may take the leftover itself for a
  container to update. Interrupted after renaming it, it has two suffixes; the next
  repair does not see the running replacement as its own (651), renames it back and
  starts it (661): old and new run together, against README.md:260-264. `OneAtATime` asks
  that no call fails; one failing call and two crashes are enough.
- Under `restart: always` a reboot starts a leftover and its replacement
  together, and the repair cannot remove a running leftover (653, no force).
- The repair starts what it restores even if the service was stopped before
  (661; `apply` does not, 573).
- A manual `run` beside the daemon (README.md:110), or another project's
  PullPilot, repairs a recreate of the daemon's in flight: the list covers the
  whole host (README.md:638 says nothing else is touched) and the mutex is the
  process's own.
- If the tag moves before the pull and the pulled image is sick, the digest that
  soaked is blacklisted and not the one that failed.
- Two services on one image both try a sick digest in the same cycle, the
  blacklist being read for all plans (`engine.go:421`) before the first is applied,
  against README.md:255-256.
- A process keeps the blacklist it loaded: what another one blacklisted it tries
  again, and its next save forgets.
- A corrupt `state.json` is put aside and the start fails, as the comment in
  `state.go:47-48` wants; but Docker restarts the daemon, which now finds no file
  and begins empty, the blacklist included. Also `status` puts it aside, which
  README.md:82 says changes nothing.
- A tag that moves away and back keeps the old first-seen time (`state.go:101`), so the
  digest is due without having been "the current digest for a window"
  (README.md:58-59), as long as the service was not updated meanwhile.
- `relay.ts:41` promises at most four logged-in sockets; the count is taken
  before two awaits and can be passed by logins under way. `AuthedBounded` is
  the bound that holds: the cap plus the logins that may be under way, less one.
- An upgrade during the alarm's KV call sets a 30 s alarm that `alarm()` then
  overwrites with its weekly one (`relay.ts:523`); the socket is reaped, but up to a
  week later, against 13-14, 213-215 and 474-476. `ReaperArmed` asks only that an alarm is
  coming.
- A poke sent into a connection that is already dead counts as delivered, and
  README.md:481-483 says none are lost.
- A KV failure after a login skips `flushPending` (`relay.ts:325-326`); the pending poke
  waits for the next login, while the connection stays up and healthy. The models have
  it (`FlushFails`), and `PokesAnswered` excepts it (`HeldBack`).
- With Docker down when it starts, a PullPilot never looks for itself again
  (`main.go:148` "will keep retrying on schedule"): in the default scope it
  manages nothing for ever, and under `all` or `project:<name>` it no longer knows
  which container is its own and would update it in place, which `engine.go:413-420` rules out.
- With a hostname of its own and no label, PullPilot takes the first container
  labelled `io.pullpilot.self` on the whole host for itself (`engine.go:107-114`), another
  stack's PullPilot included.
- An image with two digests in one repository (an index pushed again for another
  platform) reports the first (475) and may be updated every cycle, the "perpetual
  newer image" 479-481 is careful to avoid; `ContentAssumption` leaves it out. An image
  tagged by hand and known under one other repository only is compared with that
  one's digest (482) and recreated once for nothing.
- A long `stop-timeout` is not allowed for in the deadline of a recreate
  (`engine.go:510-513` speaks of the health timeout); `NotCutShort` has the condition.
- Serve waits 30 s for an update that may take five minutes or more (`main.go:200-208`): what
  is detached from `ctx` ends with the process all the same, and is left to the
  repair.
- Pokes that keep coming, five to ten seconds apart, postpone the check for ever:
  each restarts the timer (`webhook.go:293-300`).
- A process that is back within the relay's 5 s window may lose a poke: the relay
  drops it for a frame the process before had read and not yet acted on
  (`QuickRestart` TRUE violates `PokesRemembered`), unless the start-up cycle comes later.
- A key file that cannot be read for a moment, and not only one that is absent, is
  overwritten with a new key (`webhook.go:89-98`). The registration on file is kept, and
  the relay refuses every login with the new key until somebody deletes it. The
  models have it (`ReplaceKey`), and `IdentityKept` and `PokesAnswered` except it.
- A relay that has forgotten a webhook answers 404 for ever, and the client has no
  way to provision again but by hand.
- A registration that cannot be saved disables the webhook for the life of the
  process (147), although the relay has it.
- `webhook.New` is called before the scheduler and the start-up cycle (`main.go:161`) and
  may hold them up for its 20 s.
- While a cycle holds the mutex, triggers pile up behind it without bound, each a
  goroutine and then a cycle of its own (`main.go:152-157`); the models cut this off at
  `MaxWaiting`.

## 7. What is not modelled

Parsing: of labels, durations, booleans, image references, challenges and
`config.json`, whose results are constants or choices of the models. Output:
notifications, logs, the table of `status`, version, the boot summary; nothing depends
on them. The Worker's static pages, input validation and rate limit of
provisioning. The fields of a container's configuration that `CreateNew` copies,
its hostname apart, and which networks `buildNetworking` finds. The length of the
client's backoff and of the jitter, which are any. A webhook that the relay forgets
while the client keeps it, for which the code has no answer (section 6). Docker, the
registries, the network, the clock and Cloudflare's runtime are external and
modelled from how the code uses them; the map marks them so.
