-------------------------------- MODULE Relay --------------------------------
(***************************************************************************)
(* The webhook relay for one webhook: the Durable Object of                *)
(* worker/src/relay.ts (handshake, caps, poke delivery, alarm) behind the  *)
(* Worker of worker/src/index.ts, which looks the webhook up first.        *)
(*                                                                         *)
(* A handler runs without interruption up to an await of the KV store or   *)
(* of WebCrypto, where other events may run; awaits of the object's own    *)
(* storage hold other events back.  So every step below is one stretch of  *)
(* a handler, and what is in flight between two of them is a task.         *)
(* Times are ages or remaining times in ticks, longer than a KV call.      *)
(***************************************************************************)
EXTENDS Integers, FiniteSets

CONSTANTS
    Conns,          \* connections, used again and again
    MaxAuthed,      \* MAX_AUTHED_SOCKETS
    MaxUnauthed,    \* MAX_UNAUTHED_SOCKETS
    MaxPerWindow,   \* POKE_MAX_PER_WINDOW
    Coalesce,       \* POKE_COALESCE_MS
    Grace,          \* CHALLENGE_TTL_SECONDS and UNAUTHED_MAX_AGE_MS, both 30 s
    Weekly,         \* ALARM_INTERVAL_MS
    PruneAfter,     \* PRUNE_AFTER, the life of a KV record
    MaxTasks,       \* bound: pokes, and logins, in flight at once
    MaxTroubles     \* bound: hibernations, recyclings, bad signatures, broken
                    \* or dead connections and failing KV calls, together

ASSUME ConnsAssumption == IsFiniteSet(Conns)
ASSUME CapsAssumption  == {MaxAuthed, MaxUnauthed, MaxPerWindow, MaxTasks} \subseteq Nat \ {0}
ASSUME TimesAssumption ==
    /\ {Coalesce, Grace, Weekly, PruneAfter} \subseteq Nat \ {0}
    /\ Coalesce <= Grace /\ Grace < Weekly /\ Weekly < PruneAfter
ASSUME BoundAssumption == MaxTroubles \in Nat

VARIABLES
    \* the sockets and their attachments
    sock,       \* [Conns -> "off", "hello" (not authed) or "authed"]
    age,        \* [Conns -> time since a socket in "hello" was opened]
    dead,       \* connections that no longer carry anything, unnoticed
    \* the object's storage
    pending,    \* the pending-poke flag
    lastPoke,   \* time since lastPokeAt, Coalesce when long ago
    windowAge, windowCount,
    alarm,      \* time until the alarm, or NoAlarm
    \* the object's memory
    knows,      \* this.webhookId is set
    verifying,  \* handleAuth: awaiting the record and the signature check
    flushing,   \* handleAuth: logins awaiting touchRecord before flushPending
    poking,     \* handlePoke: pokes awaiting touchRecord
    alarmTask,  \* alarm: what to schedule after touchRecord, or "none"
    \* the KV store
    record,     \* age of the webhook's record; PruneAfter: it is gone
    \* history
    owed,       \* an accepted poke has reached no daemon since
    heard,      \* the last poke frame reached a daemon
    deaf,       \* some connection has died unnoticed
    failed,     \* some KV call has failed
    troubles

sockets == <<sock, age, dead>>
storage == <<pending, lastPoke, windowAge, windowCount, alarm>>
memory  == <<knows, verifying, flushing, poking, alarmTask>>
told    == <<owed, heard>>
mishaps == <<deaf, failed, troubles>>
vars    == <<sockets, storage, memory, record, told, mishaps>>

NoAlarm == -1
Authed == {c \in Conns : sock[c] = "authed"}
Hello  == {c \in Conns : sock[c] = "hello"}
Known  == record < PruneAfter

TypeOK ==
    /\ sock \in [Conns -> {"off", "hello", "authed"}]
    /\ age \in [Conns -> 0..(Grace + 1)]
    /\ dead \subseteq Conns /\ verifying \subseteq Conns
    /\ pending \in BOOLEAN /\ knows \in BOOLEAN
    /\ lastPoke \in 0..Coalesce /\ windowAge \in 0..(Coalesce + 1)
    /\ windowCount \in 0..MaxPerWindow
    /\ alarm \in 0..Weekly \cup {NoAlarm}
    /\ flushing \in 0..MaxTasks /\ poking \in 0..MaxTasks
    /\ alarmTask \in {"none", "reap", "weekly"}
    /\ record \in 0..PruneAfter
    /\ owed \in BOOLEAN /\ heard \in BOOLEAN
    /\ deaf \in BOOLEAN /\ failed \in BOOLEAN /\ troubles \in 0..MaxTroubles

\* One more of the bounded troubles.
Trouble == troubles < MaxTroubles /\ troubles' = troubles + 1

\* A KV call fails, which ends the handler that made it.
KVFails == Trouble /\ failed' = TRUE /\ UNCHANGED deaf

-----------------------------------------------------------------------------
(* Sockets.                                                                *)

\* Close every socket of S; a login still being verified dies with its socket.
Close(S) ==
    /\ sock' = [c \in Conns |-> IF c \in S THEN "off" ELSE sock[c]]
    /\ age' = [c \in Conns |-> IF c \in S THEN 0 ELSE age[c]]
    /\ dead' = dead \ S
    /\ verifying' = verifying \ S

\* scheduleReaperAlarm lowers the alarm and never raises it.
Sooner == IF alarm = NoAlarm \/ Grace < alarm THEN Grace ELSE alarm

\* The Worker passes requests for a webhook it knows on to the object, which
\* remembers the id in their path.
Forwarded == Known /\ knows' = TRUE

\* handleListen and handleUpgrade; beyond the cap the socket is closed at once.
Upgrade(c) ==
    /\ sock[c] = "off" /\ Forwarded
    /\ IF Cardinality(Hello) >= MaxUnauthed
         THEN UNCHANGED <<sock, age, alarm>>
         ELSE /\ sock' = [sock EXCEPT ![c] = "hello"]
              /\ age' = [age EXCEPT ![c] = 0]
              /\ alarm' = Sooner
    /\ UNCHANGED <<dead, pending, lastPoke, windowAge, windowCount, verifying, flushing,
                   poking, alarmTask, record, told, mishaps>>

\* Slip: the cap on listeners is tested one too late.
CapReachedLate == Cardinality(Authed) > MaxAuthed

CapReached == Cardinality(Authed) >= MaxAuthed

\* webSocketMessage and handleAuth up to its first await.
AuthBegin(c) ==
    /\ sock[c] = "hello" /\ c \notin dead \cup verifying
    /\ IF ~knows \/ age[c] > Grace \/ CapReached
         THEN Close({c})
         ELSE verifying' = verifying \cup {c} /\ UNCHANGED sockets
    /\ UNCHANGED <<storage, knows, flushing, poking, alarmTask, record, told, mishaps>>

\* The record and the signature are checked: the socket is authed, or closed
\* because one of them is no good, or left as it is when the KV store fails.
AuthVerify(c) ==
    /\ c \in verifying
    /\ \/ /\ Known
          /\ flushing < MaxTasks /\ flushing' = flushing + 1
          /\ sock' = [sock EXCEPT ![c] = "authed"] /\ age' = [age EXCEPT ![c] = 0]
          /\ verifying' = verifying \ {c}
          /\ UNCHANGED <<dead, mishaps>>
       \/ /\ IF Known THEN Trouble /\ UNCHANGED <<deaf, failed>> ELSE UNCHANGED mishaps
          /\ Close({c})
          /\ UNCHANGED flushing
       \/ /\ KVFails
          /\ verifying' = verifying \ {c}
          /\ UNCHANGED <<sockets, flushing>>
    /\ UNCHANGED <<storage, knows, poking, alarmTask, record, told>>

\* touchRecord renews a record that is still there.
Touched == IF Known THEN 0 ELSE record

\* deliverPoke; errors of send are ignored, and a dead connection shows none.
Deliver == heard' = (Authed \ dead # {})

\* Slip: coalescing applies to the pending poke, too.
FlushesCoalesced == pending /\ Authed # {} /\ lastPoke >= Coalesce

\* Slip: the pending flag is cleared although nobody listens.
FlushesBlindly == pending

Flushes == pending /\ Authed # {}

\* touchRecord and flushPending; a failing KV call ends the handler before it.
AuthFlush ==
    /\ flushing > 0 /\ flushing' = flushing - 1
    /\ \/ /\ KVFails
          /\ UNCHANGED <<pending, lastPoke, record, told>>
       \/ /\ record' = Touched
          /\ IF Flushes
               THEN pending' = FALSE /\ lastPoke' = 0 /\ Deliver /\ owed' = (owed /\ ~heard')
               ELSE UNCHANGED <<pending, lastPoke, told>>
          /\ UNCHANGED mishaps
    /\ UNCHANGED <<sockets, windowAge, windowCount, alarm, knows, verifying, poking,
                   alarmTask>>

-----------------------------------------------------------------------------
(* Pokes.                                                                  *)

\* The pokes counted in the current window; the first after it opens another.
Counted == IF windowAge > Coalesce THEN 0 ELSE windowCount

\* Slip: one poke too many is let through.
LimitedLate == Counted > MaxPerWindow

Limited == Counted >= MaxPerWindow

\* The Worker's handlePoke, and the object's up to touchRecord.
Poke ==
    /\ Forwarded /\ poking < MaxTasks
    /\ \/ /\ Limited
          /\ UNCHANGED <<windowAge, windowCount, poking>>
       \/ /\ ~Limited
          /\ windowAge' = IF windowAge > Coalesce THEN 0 ELSE windowAge
          /\ windowCount' = Counted + 1
          /\ poking' = poking + 1
    /\ UNCHANGED <<sockets, pending, lastPoke, alarm, verifying, flushing, alarmTask,
                   record, told, mishaps>>

Drops == Authed # {} /\ lastPoke < Coalesce

\* handlePoke after touchRecord: the poke is kept, coalesced or delivered.
PokeLands ==
    /\ poking > 0 /\ poking' = poking - 1
    /\ \/ /\ KVFails
          /\ UNCHANGED <<pending, lastPoke, record, told>>
       \/ /\ Drops
          /\ owed' = (owed \/ ~heard)
          /\ record' = Touched
          /\ UNCHANGED <<pending, lastPoke, heard, mishaps>>
       \/ /\ ~Drops /\ Authed = {}
          /\ pending' = TRUE /\ owed' = TRUE
          /\ record' = Touched
          /\ UNCHANGED <<lastPoke, heard, mishaps>>
       \/ /\ ~Drops /\ Authed # {}
          /\ lastPoke' = 0 /\ Deliver /\ owed' = ~heard'
          /\ record' = Touched
          /\ UNCHANGED <<pending, mishaps>>
    /\ UNCHANGED <<sockets, windowAge, windowCount, alarm, knows, verifying, flushing,
                   alarmTask>>

-----------------------------------------------------------------------------
(* The alarm.                                                              *)

\* Slip: a socket gets a week to log in.
StaleWeekly == {c \in Hello : age[c] > Weekly}

Stale == {c \in Hello : age[c] > Grace}

\* Slip: a listener's weekly refresh takes precedence over the reaper.
NextAlarmWeekly ==
    IF Authed # {} THEN "weekly" ELSE "none"

\* What is left decides what comes next: reap again, refresh in a week, or rest.
NextAlarm ==
    IF Hello \ Stale # {} THEN "reap" ELSE IF Authed # {} THEN "weekly" ELSE "none"

After(task) == CASE task = "reap" -> Grace [] task = "weekly" -> Weekly [] OTHER -> NoAlarm

\* alarm: close stale sockets, and touch the record if the webhook is known.
AlarmFires ==
    /\ alarm = 0 /\ alarmTask = "none"
    /\ Close(Stale)
    /\ IF Authed # {} /\ knows
         THEN alarmTask' = NextAlarm /\ alarm' = NoAlarm
         ELSE alarm' = After(NextAlarm) /\ UNCHANGED alarmTask
    /\ UNCHANGED <<pending, lastPoke, windowAge, windowCount, knows, flushing, poking,
                   record, told, mishaps>>

\* alarm after touchRecord.  A handler that failed is run again.
AlarmEnds ==
    /\ alarmTask # "none" /\ alarmTask' = "none"
    /\ \/ alarm' = After(alarmTask) /\ record' = Touched /\ UNCHANGED mishaps
       \/ /\ KVFails
          /\ alarm' = 0 /\ UNCHANGED record
    /\ UNCHANGED <<sockets, pending, lastPoke, windowAge, windowCount, knows, verifying,
                   flushing, poking, told>>

-----------------------------------------------------------------------------
(* The runtime and the network.                                            *)

Busy == verifying # {} \/ flushing > 0 \/ poking > 0 \/ alarmTask # "none"

\* An idle object leaves memory; sockets and storage stay.
Hibernate ==
    /\ knows /\ ~Busy /\ Trouble
    /\ knows' = FALSE
    /\ UNCHANGED <<sockets, storage, verifying, flushing, poking, alarmTask, record, told,
                   deaf, failed>>

\* Cloudflare recycles the object: sockets and tasks are gone, storage stays.
Recycle ==
    /\ Hello \cup Authed # {} /\ Trouble
    /\ Close(Conns)
    /\ knows' = FALSE /\ flushing' = 0 /\ poking' = 0 /\ alarmTask' = "none"
    /\ alarm' = IF alarmTask = "none" THEN alarm ELSE 0
    /\ UNCHANGED <<pending, lastPoke, windowAge, windowCount, record, told, deaf, failed>>

\* A connection breaks and both sides know, or a dead one is noticed at last.
Drop(c) ==
    /\ sock[c] # "off"
    /\ IF c \in dead THEN UNCHANGED troubles ELSE Trouble
    /\ Close({c})
    /\ UNCHANGED <<storage, knows, flushing, poking, alarmTask, record, told, deaf, failed>>

\* A connection dies and neither side is told.
Die(c) ==
    /\ sock[c] # "off" /\ c \notin dead /\ Trouble
    /\ dead' = dead \cup {c} /\ deaf' = TRUE
    /\ UNCHANGED <<sock, age, storage, memory, record, told, failed>>

Later(t, limit) == IF t < limit THEN t + 1 ELSE t

\* Time passes; a due alarm goes off first.
Tick ==
    /\ ~Busy /\ alarm # 0
    /\ age' = [c \in Conns |-> IF sock[c] = "hello" THEN Later(age[c], Grace + 1) ELSE 0]
    /\ lastPoke' = Later(lastPoke, Coalesce)
    /\ windowAge' = Later(windowAge, Coalesce + 1)
    /\ alarm' = IF alarm = NoAlarm THEN NoAlarm ELSE alarm - 1
    /\ record' = Later(record, PruneAfter)
    /\ UNCHANGED <<sock, dead, pending, windowCount, memory, told, mishaps>>

-----------------------------------------------------------------------------
\* handleProvision has just stored the record; nobody is connected.
Init ==
    /\ sock = [c \in Conns |-> "off"] /\ age = [c \in Conns |-> 0] /\ dead = {}
    /\ pending = FALSE /\ lastPoke = Coalesce
    /\ windowAge = Coalesce + 1 /\ windowCount = 0 /\ alarm = NoAlarm
    /\ knows = FALSE /\ verifying = {} /\ flushing = 0 /\ poking = 0 /\ alarmTask = "none"
    /\ record = 0
    /\ owed = FALSE /\ heard = FALSE
    /\ deaf = FALSE /\ failed = FALSE /\ troubles = 0

Next ==
    \/ \E c \in Conns : Upgrade(c) \/ AuthBegin(c) \/ AuthVerify(c) \/ Drop(c) \/ Die(c)
    \/ AuthFlush \/ Poke \/ PokeLands \/ AlarmFires \/ AlarmEnds
    \/ Hibernate \/ Recycle \/ Tick

Spec == Init /\ [][Next]_vars

\* Daemons reconnect for ever and now and then answer in time; tasks and due
\* alarms are run, time passes and a dead connection is noticed in the end.
Fairness ==
    /\ \A c \in Conns :
         WF_vars(Upgrade(c)) /\ SF_vars(age[c] <= Grace /\ AuthBegin(c)) /\ WF_vars(AuthVerify(c))
    /\ WF_vars(\E c \in dead : Drop(c))
    /\ WF_vars(AuthFlush) /\ WF_vars(PokeLands)
    /\ WF_vars(AlarmFires) /\ WF_vars(AlarmEnds) /\ WF_vars(Tick)

FairSpec == Spec /\ Fairness

-----------------------------------------------------------------------------
(* Properties.                                                             *)

\* The cap on listeners is tested before an await, so logins in flight may
\* exceed it, but only by as many as the cap on unauthed sockets lets through.
AuthedBounded == Cardinality(Authed) <= MaxAuthed + MaxUnauthed - 1

\* A socket that has not logged in always has an alarm coming that reaps it,
\* whatever handlers the alarm and the login interleave with.
ReaperArmed == Hello # {} => alarm # NoAlarm \/ alarmTask # "none"

\* Unless a connection died unnoticed, an accepted poke no daemon has heard of
\* is still pending: neither coalescing nor flushing ever forgets it.
PokesKept == ~deaf /\ owed => pending

\* A pending poke is flushed once a daemon logs in, unless a KV call fails or
\* the webhook is forgotten first.
PendingFlushed == pending ~> (~pending \/ failed \/ ~Known)

\* Again and again no socket is left that has been open for longer than it
\* may be without logging in, even if its daemon never answers.
Reaped == []<>(\A c \in Hello : age[c] <= Grace)

\* "While an authed listener exists, keep the KV record alive."
RecordOutlives == Authed # {} /\ ~failed => Known

\* PokeRelay sees the listeners, those of them that are dead and the logins
\* that have yet to flush.
Promise == INSTANCE PokeRelay
             WITH listening <- Authed, silent <- dead \cap Authed,
                  settling <- flushing, MaxLogins <- MaxTasks

\* Whatever its handlers interleave with, the relay sends a frame, takes note
\* of a poke and forgets a noted one only when PokeRelay does: a noted poke is
\* forgotten by sending it to somebody, and between frames lies the window.
KeepsPromise == Promise!Spec
=============================================================================
