------------------------------- MODULE PokePath -------------------------------
(***************************************************************************)
(* The way of a poke: from the HTTP request at the relay (PokeRelay) over  *)
(* a connection to the client (WebhookClient), through its timer into the  *)
(* daemon's queue (Daemon) and to a check of the registries.  The parts    *)
(* are instances; here are their joint steps, the network and the process  *)
(* they live in.  One webhook, one daemon, no updates to recreate.         *)
(***************************************************************************)
EXTENDS Integers, FiniteSets

CONSTANTS
    Conns, Keys, Ids, None,     \* see PokeRelay and WebhookClient
    Coalesce, Debounce,
    Triggers, ShutdownWait,     \* see Daemon
    QuickRestart,   \* whether a process may be back within the relay's window
    MaxLogins, MaxInbox, MaxUpdates, MaxWaiting,    \* the parts' bounds
    MaxPokes,       \* bound: pokes accepted
    MaxTroubles     \* bound: failing dials, broken, dead and recycled connections,
                    \* signals and crashes, together; what fails while webhook.New
                    \* runs or after a login is bounded by restarts and logins

ASSUME TriggersAssumption == Triggers = {"startup", "schedule", "webhook"}
ASSUME TimesAssumption ==
    {Coalesce, Debounce, ShutdownWait} \subseteq Nat \ {0} /\ Coalesce < Debounce
ASSUME BoundAssumption ==
    /\ {MaxPokes, MaxTroubles, MaxUpdates} \subseteq Nat
    /\ {MaxLogins, MaxInbox, MaxWaiting} \subseteq Nat \ {0}
ASSUME NoneAssumption == None \notin Conns \cup Keys \cup Ids \cup Triggers /\ QuickRestart \in BOOLEAN

VARIABLES
    listening, silent, pending, lastPoke, settling,
    keyFile, regFile, owner, at, priv, webhookID, link, inbox, timer, announced, replaced,
    life, cancelled, jitter, waiting, cycle, phase, left, patience, late, cold,
    \* history
    due,        \* a poke has been accepted and no check has followed yet
    fresh,      \* one of those came after the present cycle had begun
    astray,     \* a frame has been sent that never reached the client
    pokes, troubles

Relay  == INSTANCE PokeRelay
Client == INSTANCE WebhookClient
Main   == INSTANCE Daemon

relay  == <<listening, silent, pending, lastPoke, settling>>
client == <<keyFile, regFile, owner, at, priv, webhookID, link, inbox, timer, announced, replaced>>
main   == <<life, cancelled, jitter, waiting, cycle, phase, left, patience, late, cold>>
owing  == <<due, fresh, astray>>
vars   == <<relay, client, main, owing, pokes, troubles>>

TypeOK ==
    /\ Relay!TypeOK /\ Client!TypeOK /\ Main!TypeOK
    /\ {due, fresh, astray} \subseteq BOOLEAN
    /\ pokes \in 0..MaxPokes /\ troubles \in 0..MaxTroubles

\* One more of the bounded troubles.
Trouble == troubles < MaxTroubles /\ troubles' = troubles + 1

\* Steps of one part on its own.
OfRelay  == UNCHANGED <<client, main, owing, pokes>>
OfClient == UNCHANGED <<relay, main, owing, pokes>>
OfMain   == UNCHANGED <<relay, client, pokes>>

-----------------------------------------------------------------------------
(* The process.                                                            *)

\* serve gets to webhook.New; Docker may be back sooner than the relay's window.
Start ==
    /\ QuickRestart \/ lastPoke = Coalesce
    /\ Main!Start /\ Client!Begin
    /\ UNCHANGED <<relay, owing, pokes, troubles>>

\* webhook.New, one file or request at a time.
Boots ==
    /\ \/ Client!LoadKey \/ Client!CreateKey \/ Client!LoadRegistration
       \/ Client!Provision \/ Client!Save
    /\ OfClient /\ UNCHANGED troubles

BootFails == Client!Disable /\ OfClient /\ UNCHANGED troubles

\* The key on file cannot be read, and New makes another.
LosesKey == Client!ReplaceKey /\ OfClient /\ UNCHANGED troubles

\* Only then does serve start its scheduler.
Ready ==
    /\ at \notin Client!InNew
    /\ Main!Ready
    /\ OfMain /\ UNCHANGED <<owing, troubles>>

\* The client's connection ends on its side; the relay is yet to notice.
Vanish == IF link \in listening THEN Relay!FallSilent(link) ELSE UNCHANGED relay

Signal == Main!Signal /\ OfMain /\ UNCHANGED owing /\ Trouble

BeginShutdown == Main!BeginShutdown /\ OfMain /\ UNCHANGED <<owing, troubles>>

ClientReturns ==
    /\ cancelled /\ Client!Return /\ Vanish
    /\ UNCHANGED <<main, owing, pokes, troubles>>

Leave == Main!Leave /\ Client!Die /\ Vanish /\ UNCHANGED <<owing, pokes, troubles>>

Crash == Main!Crash /\ Client!Die /\ Vanish /\ UNCHANGED <<owing, pokes>> /\ Trouble

-----------------------------------------------------------------------------
(* The connection.                                                         *)

\* A connection the relay has no part in yet; which one makes no difference.
Unheld == Conns \ listening

Dials ==
    /\ Unheld # {} /\ Client!Dial(CHOOSE c \in Unheld : TRUE)
    /\ OfClient /\ UNCHANGED troubles

LogsIn ==
    /\ Client!LogIn /\ Relay!LogIn(link) /\ link \notin silent'
    /\ UNCHANGED <<main, owing, pokes, troubles>>

Wakes == Client!Wake /\ OfClient /\ UNCHANGED troubles

\* Frames not yet read are lost with their connection.
LosesInbox == astray' = (astray \/ inbox > 0) /\ UNCHANGED <<due, fresh>>

DialFails ==
    /\ at \in {"dial", "hello"} /\ Client!Disconnect
    /\ OfClient /\ Trouble

\* The relay has another key for this webhook, and closes the socket.
Refused ==
    /\ at = "hello" /\ ~Client!Signs /\ Client!Disconnect
    /\ OfClient /\ UNCHANGED troubles

\* Both sides learn that the connection is broken.
Breaks ==
    /\ at = "listen" /\ Client!Disconnect /\ Relay!Leave(link)
    /\ LosesInbox /\ UNCHANGED <<main, pokes>> /\ Trouble

\* A connection dies and neither side is told.
GoesSilent ==
    /\ link \in listening \ silent /\ Relay!FallSilent(link)
    /\ OfRelay /\ Trouble

\* A heartbeat that cannot be written, ninety seconds without a frame, or
\* a close from the relay.
ClientNotices ==
    /\ at = "listen" /\ link \notin listening \ silent
    /\ Client!Disconnect
    /\ LosesInbox /\ UNCHANGED <<relay, main, pokes, troubles>>

RelayNotices ==
    /\ \E c \in silent : Relay!Leave(c)
    /\ OfRelay /\ UNCHANGED troubles

Recycles == listening # {} /\ Relay!Recycle /\ OfRelay /\ Trouble

-----------------------------------------------------------------------------
(* The poke.                                                               *)

\* A frame goes to all who listen.  It goes astray when that is nobody but
\* the dead, unless the process is about to start anew and check anyway.
Sent ==
    IF listening \ silent # {}
      THEN Client!Hear /\ UNCHANGED astray
      ELSE /\ UNCHANGED client
           /\ astray' = (astray \/ (life # "down" /\ ~cancelled))

\* Somebody pokes a URL he was shown, and the relay accepts.
Poke ==
    /\ announced # None /\ pokes < MaxPokes /\ pokes' = pokes + 1
    /\ due' = TRUE /\ fresh' = TRUE
    /\ \/ (Relay!Keep \/ Relay!Drop) /\ UNCHANGED <<client, astray>>
       \/ Relay!Send /\ Sent
    /\ UNCHANGED <<main, troubles>>

Flushes ==
    /\ Relay!Flush
    /\ IF Relay!Flushes THEN Sent ELSE UNCHANGED <<client, astray>>
    /\ UNCHANGED <<main, due, fresh, pokes, troubles>>

\* A KV call fails after the login and ends its handler before the flush.
FlushFails == Relay!FlushLost /\ OfRelay /\ UNCHANGED troubles

Reads == Client!Read /\ OfClient /\ UNCHANGED troubles

\* pendingTimer fires and a cycle queues for the mutex.
Fires == Client!Fire /\ Main!WebhookTriggers /\ UNCHANGED <<relay, owing, pokes, troubles>>

\* The schedule; it owes nothing to a poke, and one firing at a time is enough.
Scheduled ==
    /\ \/ jitter = 0 /\ waiting["schedule"] = 0 /\ Main!CronFires
       \/ Main!JitterEnds
    /\ OfMain /\ UNCHANGED <<owing, troubles>>

Begins ==
    /\ \E t \in Triggers : Main!Begin(t)
    /\ fresh' = FALSE
    /\ OfMain /\ UNCHANGED <<due, astray, troubles>>

\* The registries are asked; what was accepted before the cycle began is dealt
\* with, unless ctx was done and nobody answered.
Looks ==
    /\ Main!Look
    /\ due' = (due /\ (fresh \/ cancelled))
    /\ OfMain /\ UNCHANGED <<fresh, astray, troubles>>

Works ==
    /\ Main!Pull \/ Main!Recreate \/ Main!Recreated \/ Main!End
    /\ OfMain /\ UNCHANGED <<owing, troubles>>

\* Time passes for all three.
Tick ==
    /\ Relay!Tick \/ (lastPoke = Coalesce /\ UNCHANGED relay)
    /\ Client!Tick /\ Main!Tick
    /\ UNCHANGED <<owing, pokes, troubles>>

-----------------------------------------------------------------------------
Init ==
    /\ Relay!Init /\ Client!Init /\ Main!Init
    /\ due = FALSE /\ fresh = FALSE /\ astray = FALSE
    /\ pokes = 0 /\ troubles = 0

Next ==
    \/ Start \/ Boots \/ BootFails \/ LosesKey \/ Ready \/ Signal \/ BeginShutdown
    \/ ClientReturns \/ Leave \/ Crash
    \/ Dials \/ LogsIn \/ Wakes \/ DialFails \/ Refused \/ Breaks \/ GoesSilent
    \/ ClientNotices \/ RelayNotices \/ Recycles
    \/ Poke \/ Flushes \/ FlushFails \/ Reads \/ Fires \/ Scheduled \/ Begins \/ Looks \/ Works \/ Tick

Spec == Init /\ [][Next]_vars

\* The process is restarted and runs on, the client redials and the relay
\* answers, dead connections are noticed and time passes.  Not the schedule:
\* it would answer for every poke.
Fairness ==
    /\ WF_vars(Start \/ Boots \/ Ready) /\ WF_vars(Begins \/ Looks \/ Works)
    /\ WF_vars(BeginShutdown) /\ WF_vars(ClientReturns) /\ WF_vars(Leave)
    /\ WF_vars(Dials \/ LogsIn \/ Refused \/ Wakes \/ ClientNotices) /\ WF_vars(RelayNotices)
    /\ WF_vars(Flushes) /\ WF_vars(Reads) /\ WF_vars(Fires) /\ WF_vars(Tick)

FairSpec == Spec /\ Fairness

-----------------------------------------------------------------------------
(* Properties.                                                             *)

\* Who still knows that a check is owed: the relay, the connection, the
\* client's timer, the daemon's queue, the cycle that is about to look, or a
\* process on its way out or in, whose first cycle looks anyway.
Remembered ==
    \/ pending \/ inbox > 0 \/ timer # Client!NoTimer
    \/ \E t \in Triggers : waiting[t] > 0
    \/ phase = "look" /\ ~fresh
    \/ life # "up" \/ cancelled

\* An accepted poke is forgotten by nobody before a check has followed it:
\* coalescing, debouncing, reconnecting and restarting all hand it on.
PokesRemembered == due /\ ~astray => Remembered

\* The flush after the last login has been skipped: the relay holds a poke although
\* somebody listens, until the next login.
HeldBack == pending /\ listening # {} /\ settling = 0

\* This process does not listen for pokes, or has not got the webhook's key.
Deaf == at = "disabled" \/ replaced

\* An accepted poke is followed by a check, even if the schedule never fires.  What
\* can come between are a frame sent to the dead, a KV call that fails after the
\* login, for as long as no other login follows, and a webhook.New that failed or
\* made a new key.
PokesAnswered == due ~> (~due \/ astray \/ HeldBack \/ Deaf)

\* A poke URL that was shown stays good (see WebhookClient).
IdentityKept == Client!IdentityKept
=============================================================================
