---------------------------- MODULE PokePathProofs ----------------------------
(***************************************************************************)
(* Theorems about PokePath, for any connections, keys, ids, times and      *)
(* bounds: its parts only do what they do alone, a poke is remembered, and *)
(* the URL that was shown stays good.                                      *)
(***************************************************************************)
EXTENDS PokePath, TLAPS

\* The assumptions on the constants, one by one.
LEMMA Sizes ==
  /\ Triggers = {"startup", "schedule", "webhook"}
  /\ Coalesce \in Nat \ {0} /\ Debounce \in Nat \ {0} /\ ShutdownWait \in Nat \ {0}
  /\ Coalesce < Debounce
  /\ MaxInbox \in Nat \ {0} /\ MaxWaiting \in Nat \ {0} /\ MaxLogins \in Nat \ {0}
  /\ MaxUpdates \in Nat /\ MaxPokes \in Nat /\ MaxTroubles \in Nat
  /\ None \notin Conns /\ None \notin Keys /\ None \notin Ids
BY TriggersAssumption, TimesAssumption, BoundAssumption, NoneAssumption

USE Sizes

-----------------------------------------------------------------------------
(* The composition is made of its parts' own steps.                        *)

LEMMA RelaySteps ==
  ASSUME listening \subseteq Conns, [Next]_vars
  PROVE  [Relay!Next]_(Relay!vars)
<1> SUFFICES Relay!Next \/ UNCHANGED relay
  BY DEF relay, Relay!vars
<1> USE DEF Relay!Next
<1>1. CASE Start \/ Boots \/ BootFails \/ LosesKey \/ Ready \/ Signal \/ BeginShutdown
  BY <1>1 DEF Start, Boots, BootFails, LosesKey, Ready, Signal, BeginShutdown, OfClient, OfMain
<1>2. CASE ClientReturns \/ Leave \/ Crash
  <2>1. ASSUME Vanish PROVE Relay!Next \/ UNCHANGED relay
    BY <2>1 DEF Vanish
  <2> QED BY <1>2, <2>1 DEF ClientReturns, Leave, Crash
<1>3. CASE Dials \/ Wakes \/ DialFails \/ Refused \/ ClientNotices
  BY <1>3 DEF Dials, Wakes, DialFails, Refused, ClientNotices, OfClient
<1>4. CASE LogsIn
  BY <1>4 DEF LogsIn, Relay!LogIn
<1>5. CASE Breaks \/ GoesSilent \/ RelayNotices \/ Recycles
  BY <1>5 DEF Breaks, GoesSilent, RelayNotices, Recycles, Relay!Leave, Relay!FallSilent
<1>6. CASE Poke \/ Flushes \/ FlushFails
  BY <1>6 DEF Poke, Flushes, FlushFails
<1>7. CASE Reads \/ Fires \/ Scheduled \/ Begins \/ Looks \/ Works
  BY <1>7 DEF Reads, Fires, Scheduled, Begins, Looks, Works, OfClient, OfMain
<1>8. CASE Tick \/ UNCHANGED vars
  BY <1>8 DEF Tick, vars
<1> QED BY <1>1, <1>2, <1>3, <1>4, <1>5, <1>6, <1>7, <1>8 DEF Next

LEMMA ClientSteps ==
  ASSUME [Next]_vars
  PROVE  [Client!Next]_(Client!vars)
<1> SUFFICES Client!Next \/ UNCHANGED client
  BY DEF client, Client!vars, Client!files, Client!mind
<1> USE DEF Client!Next
<1>1. CASE Start \/ Boots \/ BootFails \/ LosesKey \/ Ready \/ Signal \/ BeginShutdown
  BY <1>1 DEF Start, Boots, BootFails, LosesKey, Ready, Signal, BeginShutdown, OfMain
<1>2. CASE ClientReturns \/ Leave \/ Crash
  BY <1>2 DEF ClientReturns, Leave, Crash
<1>3. CASE Dials
  <2>1. (CHOOSE c \in Unheld : TRUE) \in Conns
    BY <1>3 DEF Dials, Unheld
  <2> QED BY <1>3, <2>1 DEF Dials
<1>4. CASE LogsIn \/ Wakes \/ DialFails \/ Refused \/ Breaks \/ ClientNotices
  BY <1>4 DEF LogsIn, Wakes, DialFails, Refused, Breaks, ClientNotices
<1>5. CASE GoesSilent \/ RelayNotices \/ Recycles
  BY <1>5 DEF GoesSilent, RelayNotices, Recycles, OfRelay
<1>6. CASE Poke \/ Flushes \/ FlushFails
  BY <1>6 DEF Poke, Flushes, FlushFails, Sent, OfRelay
<1>7. CASE Reads \/ Fires \/ Scheduled \/ Begins \/ Looks \/ Works
  BY <1>7 DEF Reads, Fires, Scheduled, Begins, Looks, Works, OfMain
<1>8. CASE Tick \/ UNCHANGED vars
  BY <1>8 DEF Tick, vars
<1> QED BY <1>1, <1>2, <1>3, <1>4, <1>5, <1>6, <1>7, <1>8 DEF Next

LEMMA MainSteps ==
  ASSUME [Next]_vars
  PROVE  [Main!Next]_(Main!vars)
<1> SUFFICES Main!Next \/ UNCHANGED main
  BY DEF main, Main!vars
<1> USE DEF Main!Next
<1>1. CASE Start \/ Boots \/ BootFails \/ LosesKey \/ Ready \/ Signal \/ BeginShutdown
  BY <1>1 DEF Start, Boots, BootFails, LosesKey, Ready, Signal, BeginShutdown, OfClient
<1>2. CASE ClientReturns \/ Leave \/ Crash
  BY <1>2 DEF ClientReturns, Leave, Crash
<1>3. CASE Dials \/ LogsIn \/ Wakes \/ DialFails \/ Refused \/ Breaks \/ ClientNotices
  BY <1>3 DEF Dials, LogsIn, Wakes, DialFails, Refused, Breaks, ClientNotices, OfClient
<1>4. CASE GoesSilent \/ RelayNotices \/ Recycles
  BY <1>4 DEF GoesSilent, RelayNotices, Recycles, OfRelay
<1>5. CASE Poke \/ Flushes \/ FlushFails
  BY <1>5 DEF Poke, Flushes, FlushFails, OfRelay
<1>6. CASE Reads \/ Fires \/ Scheduled
  BY <1>6 DEF Reads, Fires, Scheduled, OfClient
<1>7. CASE Begins \/ Looks \/ Works
  BY <1>7 DEF Begins, Looks, Works
<1>8. CASE Tick \/ UNCHANGED vars
  BY <1>8 DEF Tick, vars
<1> QED BY <1>1, <1>2, <1>3, <1>4, <1>5, <1>6, <1>7, <1>8 DEF Next

\* The relay, the client and the daemon of the composition each behave as their
\* own module says; so what is shown of one alone is true of it here.
THEOREM PartsBehave == Spec => Relay!Spec /\ Client!Spec /\ Main!Spec
<1>1. Init => listening \subseteq Conns /\ Relay!Init /\ Client!Init /\ Main!Init
  BY DEF Init, Relay!Init
<1>2. ASSUME listening \subseteq Conns, [Relay!Next]_(Relay!vars)
      PROVE  (listening \subseteq Conns)'
  <2>1. CASE \E c \in Conns : Relay!LogIn(c) \/ Relay!Leave(c) \/ Relay!FallSilent(c)
    BY <1>2, <2>1 DEF Relay!LogIn, Relay!Leave, Relay!FallSilent
  <2>2. CASE Relay!Flush \/ Relay!FlushLost \/ Relay!Keep \/ Relay!Send \/ Relay!Drop
             \/ Relay!Recycle \/ Relay!Tick \/ UNCHANGED Relay!vars
    BY <1>2, <2>2 DEF Relay!Flush, Relay!FlushLost, Relay!Keep, Relay!Send, Relay!Drop,
       Relay!Recycle, Relay!Tick, Relay!vars
  <2> QED BY <1>2, <2>1, <2>2 DEF Relay!Next
<1> QED BY <1>1, <1>2, RelaySteps, ClientSteps, MainSteps, PTL
    DEF Spec, Relay!Spec, Client!Spec, Main!Spec

-----------------------------------------------------------------------------
(* The webhook's identity.                                                 *)

\* What New has read or written so far, and what it owes it to.
FilesInv ==
    /\ keyFile \in Keys \cup {None} /\ owner \in [Ids -> Keys \cup {None}]
    /\ regFile # None => /\ regFile \in Ids /\ keyFile # None /\ owner[regFile] # None
                         /\ ~replaced => owner[regFile] = keyFile
MindInv ==
    /\ at \in {"reg", "provision", "save"} => keyFile # None /\ priv = keyFile
    /\ at \in {"provision", "save"} => regFile = None
    /\ at = "save" => webhookID \in Ids /\ owner[webhookID] = priv
ShownInv == announced # None => announced = regFile

ClientInv == FilesInv /\ MindInv /\ ShownInv

LEMMA ClientInit == Client!Init => ClientInv
BY DEF Client!Init, ClientInv, FilesInv, MindInv, ShownInv

LEMMA ClientStep ==
  ASSUME ClientInv, [Client!Next]_(Client!vars)
  PROVE  ClientInv'
<1> USE DEF ClientInv, FilesInv, MindInv, ShownInv, Client!files, Client!Goto
<1>1. CASE Client!Begin \/ Client!LoadKey
  BY <1>1 DEF Client!Begin, Client!LoadKey
<1>2. CASE Client!CreateKey
  <2>1. Client!NewKey \in Keys
    BY <1>2 DEF Client!CreateKey, Client!MakeKey, Client!NewKey, Client!Unmade
  <2>2. keyFile = None /\ regFile = None
    BY <1>2 DEF Client!CreateKey
  <2> QED BY <1>2, <2>1, <2>2 DEF Client!CreateKey, Client!MakeKey, Client!KeyWritten
<1>3. CASE Client!LoadRegistration
  BY <1>3 DEF Client!LoadRegistration
<1>4. ASSUME Client!Unused # {}, owner' = [owner EXCEPT ![Client!NewId] = priv],
             priv \in Keys, keyFile' = keyFile, regFile' = regFile, replaced' = replaced
      PROVE  FilesInv' /\ Client!NewId \in Ids /\ owner'[Client!NewId] = priv
  <2>1. Client!NewId \in Ids /\ owner[Client!NewId] = None
    BY <1>4 DEF Client!NewId, Client!Unused
  <2> QED BY <1>4, <2>1
<1>5. CASE Client!Provision
  <2>1. at = "provision" /\ priv \in Keys /\ keyFile' = keyFile /\ regFile' = regFile
        /\ replaced' = replaced
    BY <1>5 DEF Client!Provision
  <2>2. FilesInv' /\ Client!NewId \in Ids /\ owner'[Client!NewId] = priv
    BY <1>4, <1>5, <2>1 DEF Client!Provision
  <2> QED BY <1>5, <2>1, <2>2 DEF Client!Provision
<1>6. CASE Client!Save
  BY <1>6 DEF Client!Save
<1>7. CASE Client!Disable
  <2>1. FilesInv'
    <3>1. keyFile' = keyFile /\ regFile' = regFile /\ replaced' = replaced
      BY <1>7 DEF Client!Disable
    <3>2. CASE UNCHANGED owner
      BY <3>1, <3>2
    <3>3. CASE at = "provision" /\ Client!Unused # {}
               /\ owner' = [owner EXCEPT ![Client!NewId] = priv]
      BY <1>4, <3>1, <3>3
    <3> QED BY <1>7, <3>2, <3>3 DEF Client!Disable
  <2> QED BY <1>7, <2>1 DEF Client!Disable
<1>8. CASE (\E c \in Conns : Client!Dial(c)) \/ Client!LogIn \/ Client!Disconnect \/ Client!Wake
  BY <1>8 DEF Client!Dial, Client!LogIn, Client!Disconnect, Client!Wake, Client!InRun
<1>9. CASE Client!Hear \/ Client!Read \/ Client!Fire \/ Client!Return \/ Client!Die \/ Client!Tick
  BY <1>9 DEF Client!Hear, Client!Read, Client!Fire, Client!Return, Client!Die, Client!Tick
<1>10. CASE UNCHANGED Client!vars
  BY <1>10 DEF Client!vars, Client!mind
<1>11. CASE Client!ReplaceKey
  <2>1. Client!NewKey \in Keys /\ replaced'
    BY <1>11 DEF Client!ReplaceKey, Client!MakeKey, Client!NewKey, Client!Unmade
  <2> QED BY <1>11, <2>1 DEF Client!ReplaceKey, Client!MakeKey, Client!KeyWritten
<1> QED BY <1>1, <1>2, <1>3, <1>5, <1>6, <1>7, <1>8, <1>9, <1>10, <1>11 DEF Client!Next

\* A poke URL that was shown stays good: wherever New is cut short, and however
\* often, the data dir holds the webhook last shown and the key it belongs to,
\* unless that key could not be read and was overwritten.
THEOREM ShownStaysGood == Spec => []IdentityKept
<1>1. ClientInv => IdentityKept
  BY DEF ClientInv, FilesInv, ShownInv, IdentityKept, Client!IdentityKept
<1>2. Client!Spec => []ClientInv
  BY ClientInit, ClientStep, PTL DEF Client!Spec
<1> QED BY <1>1, <1>2, PartsBehave, PTL

-----------------------------------------------------------------------------
(* Pokes are remembered.                                                   *)

PlacesOK ==
    /\ lastPoke \in Nat /\ inbox \in Nat
    /\ timer \in Nat \cup {-1}
    /\ waiting \in [Triggers -> Nat]

\* Frames are only held for a connection that is up.
InboxInv == at # "listen" => inbox = 0

\* A frame that was sent just now, and not to the dead, still sits with a client
\* whose timer outlasts the relay's window.
JustSent == lastPoke < Coalesce /\ life # "down" /\ ~cancelled /\ ~astray
RecentInv == JustSent => inbox > 0 \/ timer >= Debounce - lastPoke

PokeInv == PlacesOK /\ InboxInv /\ RecentInv /\ PokesRemembered

LEMMA PokeInit == Init => PokeInv
BY DEF Init, Relay!Init, Client!Init, Main!Init, PokeInv, PlacesOK, InboxInv, RecentInv,
   JustSent, PokesRemembered, Main!Nobody, Client!NoTimer

LEMMA PokeStep ==
  ASSUME PokeInv, [Next]_vars, ~QuickRestart
  PROVE  PokeInv'
<1> USE DEF PlacesOK, InboxInv, RecentInv, JustSent, PokesRemembered, Remembered,
            Client!NoTimer, client, relay, main, owing
<1>0. PlacesOK /\ InboxInv /\ RecentInv /\ PokesRemembered
  BY DEF PokeInv
<1> SUFFICES PlacesOK' /\ InboxInv' /\ RecentInv' /\ PokesRemembered'
  BY DEF PokeInv
<1>1. CASE Start
  BY <1>0, <1>1 DEF Start, Main!Start, Client!Begin, Client!Goto
<1>2. CASE Boots \/ LosesKey
  BY <1>0, <1>2 DEF Boots, LosesKey, OfClient, Client!LoadKey, Client!CreateKey,
     Client!ReplaceKey, Client!MakeKey, Client!LoadRegistration, Client!Provision, Client!Save,
     Client!Goto, Client!files
<1>3. CASE BootFails
  BY <1>0, <1>3 DEF BootFails, OfClient, Client!Disable, Client!InNew, Client!Goto
<1>4. CASE Ready
  BY <1>0, <1>4 DEF Ready, OfMain, Main!Ready, Main!Queue
<1>5. CASE Signal \/ BeginShutdown
  BY <1>0, <1>5 DEF Signal, BeginShutdown, OfMain, Main!Signal, Main!BeginShutdown
<1>6. CASE ClientReturns
  BY <1>0, <1>6 DEF ClientReturns, Client!Return, Client!Goto, Vanish, Relay!FallSilent
<1>7. CASE Leave \/ Crash
  BY <1>0, <1>7 DEF Leave, Crash, Main!Leave, Main!Crash, Main!Gone, Main!Nobody, Client!Die,
     Vanish, Relay!FallSilent
<1>8. CASE Dials \/ Wakes
  BY <1>0, <1>8 DEF Dials, Wakes, OfClient, Client!Dial, Client!Wake, Client!Goto
<1>9. CASE LogsIn
  BY <1>0, <1>9 DEF LogsIn, Client!LogIn, Client!Goto, Relay!LogIn
<1>10. CASE DialFails \/ Refused
  BY <1>0, <1>10 DEF DialFails, Refused, OfClient, Client!Disconnect, Client!Goto
<1>11. CASE Breaks \/ ClientNotices
  <2>1. LosesInbox /\ Client!Disconnect /\ UNCHANGED <<main, pending, lastPoke>>
    BY <1>11 DEF Breaks, ClientNotices, Relay!Leave
  <2>2. ~astray' => ~astray /\ ~(inbox > 0)
    BY <2>1, Zenon DEF LosesInbox
  <2>3. due' = due /\ fresh' = fresh
    BY <2>1 DEF LosesInbox
  <2>4. at' = "sleep" /\ inbox' = 0 /\ timer' = timer
    BY <2>1 DEF Client!Disconnect, Client!Goto
  <2>5. PlacesOK' /\ InboxInv'
    BY <1>0, <2>1, <2>4
  <2>6. RecentInv'
    BY <1>0, <2>1, <2>2, <2>4
  <2>7. PokesRemembered'
    BY <1>0, <2>1, <2>2, <2>3, <2>4
  <2> QED BY <2>5, <2>6, <2>7
<1>12. CASE GoesSilent \/ RelayNotices \/ Recycles \/ FlushFails
  BY <1>0, <1>12 DEF GoesSilent, RelayNotices, Recycles, FlushFails, OfRelay, Relay!FallSilent,
     Relay!Leave, Relay!Recycle, Relay!FlushLost
<1>13. ASSUME Sent, UNCHANGED main
       PROVE  /\ inbox' \in Nat /\ timer' = timer /\ InboxInv'
              /\ ~astray' => ~astray /\ (inbox' > 0 \/ life' = "down" \/ cancelled')
  <2>1. CASE Client!Hear /\ UNCHANGED astray
    BY <1>0, <2>1 DEF Client!Hear
  <2>2. CASE UNCHANGED client /\ astray' = (astray \/ (life # "down" /\ ~cancelled))
    <3>1. ~astray' => ~astray /\ (life = "down" \/ cancelled)
      BY <2>2, Zenon
    <3> QED BY <1>0, <1>13, <2>2, <3>1
  <2> QED BY <1>13, <2>1, <2>2 DEF Sent
<1>14. CASE Poke
  <2>1. CASE Relay!Keep /\ UNCHANGED <<client, astray>>
    BY <1>0, <1>14, <2>1 DEF Poke, Relay!Keep
  <2>2. CASE Relay!Drop /\ UNCHANGED <<client, astray>>
    BY <1>0, <1>14, <2>2 DEF Poke, Relay!Drop, Relay!vars
  <2>3. CASE Relay!Send /\ Sent
    <3>1. lastPoke' = 0 /\ UNCHANGED main
      BY <1>14, <2>3 DEF Poke, Relay!Send
    <3> QED BY <1>0, <1>13, <2>3, <3>1
  <2> QED BY <1>14, <2>1, <2>2, <2>3 DEF Poke
<1>15. CASE Flushes
  <2>1. UNCHANGED <<main, due, fresh>>
    BY <1>15 DEF Flushes
  <2>2. CASE lastPoke' = 0 /\ Sent
    BY <1>0, <1>13, <2>1, <2>2
  <2>3. CASE UNCHANGED <<pending, lastPoke, client, astray>>
    BY <1>0, <2>1, <2>3
  <2> QED BY <1>15, <2>2, <2>3 DEF Flushes, Relay!Flush
<1>16. CASE Reads
  BY <1>0, <1>16 DEF Reads, OfClient, Client!Read, Client!Rescheduled
<1>17. CASE Fires
  BY <1>0, <1>17 DEF Fires, Client!Fire, Main!WebhookTriggers, Main!Queue
<1>18. CASE Scheduled
  BY <1>0, <1>18 DEF Scheduled, OfMain, Main!CronFires, Main!JitterEnds, Main!Queue
<1>19. CASE Begins
  BY <1>0, <1>19 DEF Begins, OfMain, Main!Begin
<1>20. CASE Looks
  BY <1>0, <1>20 DEF Looks, OfMain, Main!Look
<1>21. CASE Works
  BY <1>0, <1>21 DEF Works, OfMain, Main!Pull, Main!Recreate, Main!Recreated, Main!End
<1>22. CASE Tick
  BY <1>0, <1>22 DEF Tick, Relay!Tick, Client!Tick, Main!Tick
<1>23. CASE UNCHANGED vars
  BY <1>0, <1>23 DEF vars
<1> QED BY <1>1, <1>2, <1>3, <1>4, <1>5, <1>6, <1>7, <1>8, <1>9, <1>10, <1>11, <1>12, <1>14,
           <1>15, <1>16, <1>17, <1>18, <1>19, <1>20, <1>21, <1>22, <1>23 DEF Next

\* An accepted poke is forgotten by nobody before a check has followed it, as long
\* as a process is not back within the relay's window: coalescing, debouncing,
\* reconnecting and restarting all hand it on.
THEOREM PokesAreRemembered ==
  ASSUME ~QuickRestart
  PROVE  Spec => []PokesRemembered
<1>1. PokeInv => PokesRemembered
  BY DEF PokeInv
<1>2. PokeInv /\ [Next]_vars => PokeInv'
  BY PokeStep
<1> QED BY <1>1, <1>2, PokeInit, PTL DEF Spec

-----------------------------------------------------------------------------
(* Type correctness, part by part.                                         *)

LEMMA RelayTypes ==
  ASSUME Relay!TypeOK, [Relay!Next]_(Relay!vars)
  PROVE  Relay!TypeOK'
<1> USE DEF Relay!TypeOK
<1>1. ASSUME NEW c \in Conns, Relay!LogIn(c) \/ Relay!Leave(c) \/ Relay!FallSilent(c)
      PROVE  Relay!TypeOK'
  BY <1>1 DEF Relay!LogIn, Relay!Leave, Relay!FallSilent
<1>2. ASSUME Relay!Flush PROVE Relay!TypeOK'
  <2>1. settling' \in 0..MaxLogins /\ UNCHANGED <<listening, silent>>
    BY <1>2 DEF Relay!Flush
  <2>2. (pending' = FALSE /\ lastPoke' = 0) \/ UNCHANGED <<pending, lastPoke>>
    BY <1>2 DEF Relay!Flush
  <2>3. pending' \in BOOLEAN BY <2>2
  <2>4. lastPoke' \in 0..Coalesce BY <2>2
  <2> QED BY <2>1, <2>3, <2>4
<1>3. ASSUME Relay!FlushLost \/ Relay!Send \/ Relay!Recycle \/ Relay!Tick PROVE Relay!TypeOK'
  BY <1>3 DEF Relay!FlushLost, Relay!Send, Relay!Recycle, Relay!Tick
<1>4. ASSUME Relay!Keep \/ Relay!Drop \/ UNCHANGED Relay!vars PROVE Relay!TypeOK'
  <2>1. pending' \in BOOLEAN BY <1>4 DEF Relay!Keep, Relay!Drop, Relay!vars
  <2>2. UNCHANGED <<listening, silent, lastPoke, settling>>
    BY <1>4 DEF Relay!Keep, Relay!Drop, Relay!vars
  <2> QED BY <2>1, <2>2
<1> QED BY <1>1, <1>2, <1>3, <1>4 DEF Relay!Next

LEMMA ClientTypes ==
  ASSUME Client!TypeOK, [Client!Next]_(Client!vars)
  PROVE  Client!TypeOK'
<1> USE DEF Client!TypeOK, Client!files, Client!mind, Client!Goto, Client!InNew, Client!InRun,
            Client!NoTimer
<1>1. CASE Client!Begin \/ Client!LoadKey \/ Client!LoadRegistration \/ Client!Save
  BY <1>1 DEF Client!Begin, Client!LoadKey, Client!LoadRegistration, Client!Save
<1>2. CASE Client!CreateKey \/ Client!ReplaceKey
  <2>1. Client!NewKey \in Keys
    BY <1>2 DEF Client!CreateKey, Client!ReplaceKey, Client!MakeKey, Client!NewKey, Client!Unmade
  <2>2. replaced' \in BOOLEAN
    BY <1>2 DEF Client!CreateKey, Client!ReplaceKey
  <2> QED BY <1>2, <2>1, <2>2 DEF Client!CreateKey, Client!ReplaceKey, Client!MakeKey,
             Client!KeyWritten
<1>3. ASSUME Client!Unused # {} PROVE Client!NewId \in Ids
  BY <1>3 DEF Client!NewId, Client!Unused
<1>4. CASE Client!Provision
  <2>1. owner' \in [Ids -> Keys \cup {None}] BY <1>3, <1>4 DEF Client!Provision
  <2> QED BY <1>3, <1>4, <2>1 DEF Client!Provision
<1>5. CASE Client!Disable
  <2>1. owner' \in [Ids -> Keys \cup {None}] BY <1>3, <1>5 DEF Client!Disable
  <2> QED BY <1>5, <2>1 DEF Client!Disable
<1>6. ASSUME NEW c \in Conns, Client!Dial(c) PROVE Client!TypeOK'
  BY <1>6 DEF Client!Dial
<1>7. CASE Client!LogIn \/ Client!Disconnect \/ Client!Wake
  BY <1>7 DEF Client!LogIn, Client!Disconnect, Client!Wake
<1>8. CASE Client!Hear \/ Client!Read \/ Client!Fire
  BY <1>8 DEF Client!Hear, Client!Read, Client!Fire, Client!Rescheduled
<1>9. CASE Client!Return \/ Client!Die \/ Client!Tick \/ UNCHANGED Client!vars
  BY <1>9 DEF Client!Return, Client!Die, Client!Tick, Client!vars
<1> QED BY <1>1, <1>2, <1>4, <1>5, <1>6, <1>7, <1>8, <1>9 DEF Client!Next

\* The daemon's type invariant in parts: flags, then what is counted.
MainFlags == cancelled \in BOOLEAN /\ cold \in BOOLEAN
MainPlaces ==
    /\ life \in {"down", "boot", "up"} /\ cycle \in Triggers \cup {None}
    /\ phase \in {"none", "look", "act", "pulled", "recreate"}
MainCounts ==
    /\ jitter \in 0..MaxWaiting /\ waiting \in [Triggers -> 0..MaxWaiting]
    /\ left \in 0..MaxUpdates /\ patience \in 0..ShutdownWait \cup {-1} /\ late \in 0..2

LEMMA MainParts == Main!TypeOK <=> MainFlags /\ MainPlaces /\ MainCounts
BY Zenon DEF Main!TypeOK, Main!NoWait, MainFlags, MainPlaces, MainCounts

LEMMA MainTypes ==
  ASSUME MainFlags, MainPlaces, MainCounts, [Main!Next]_(Main!vars)
  PROVE  MainFlags' /\ MainPlaces' /\ MainCounts'
<1>1. ASSUME NEW t \in Triggers, Main!Begin(t) PROVE MainFlags' /\ MainPlaces' /\ MainCounts'
  <2>1. MainFlags' BY <1>1 DEF Main!Begin, MainFlags
  <2>2. MainPlaces' BY <1>1 DEF Main!Begin, MainPlaces
  <2>3. MainCounts' BY <1>1 DEF Main!Begin, MainCounts
  <2> QED BY <2>1, <2>2, <2>3
<1>2. CASE Main!Leave \/ Main!Crash
  <2>1. Main!Gone BY <1>2 DEF Main!Leave, Main!Crash
  <2>2. MainFlags' BY <2>1 DEF Main!Gone, MainFlags
  <2>3. MainPlaces' BY <2>1 DEF Main!Gone, MainPlaces
  <2>4. MainCounts' BY <2>1 DEF Main!Gone, Main!Nobody, Main!NoWait, MainCounts
  <2> QED BY <2>2, <2>3, <2>4
<1>3. CASE Main!Start \/ Main!Ready \/ Main!CronFires \/ Main!JitterEnds \/ Main!WebhookTriggers
           \/ Main!Signal \/ Main!BeginShutdown
  <2> USE DEF Main!Start, Main!Ready, Main!CronFires, Main!JitterEnds, Main!WebhookTriggers,
              Main!Signal, Main!BeginShutdown
  <2>1. MainFlags' BY <1>3 DEF MainFlags
  <2>2. MainPlaces' BY <1>3 DEF MainPlaces
  <2>3. ASSUME NEW t \in Triggers, Main!Queue(t) PROVE waiting' \in [Triggers -> 0..MaxWaiting]
    BY <2>3 DEF Main!Queue, MainCounts
  <2>4. waiting' \in [Triggers -> 0..MaxWaiting]
    <3>1. "startup" \in Triggers /\ "schedule" \in Triggers /\ "webhook" \in Triggers
      OBVIOUS
    <3>2. CASE UNCHANGED waiting BY <3>2 DEF MainCounts
    <3>3. CASE Main!Queue("startup") \/ Main!Queue("schedule") \/ Main!Queue("webhook")
      BY <2>3, <3>1, <3>3
    <3> QED BY <1>3, <3>2, <3>3
  <2>5. jitter' \in 0..MaxWaiting /\ UNCHANGED <<left, late>>
    BY <1>3 DEF MainCounts
  <2>6. patience' \in 0..ShutdownWait \cup {-1}
    BY <1>3 DEF MainCounts, Main!NoWait
  <2> QED BY <2>1, <2>2, <2>4, <2>5, <2>6 DEF MainCounts
<1>4. CASE Main!Look \/ Main!Pull \/ Main!Recreate \/ Main!Recreated \/ Main!End \/ Main!Tick
           \/ UNCHANGED Main!vars
  <2> USE DEF Main!Look, Main!Pull, Main!Recreate, Main!Recreated, Main!End, Main!Tick, Main!vars
  <2>1. MainFlags' BY <1>4 DEF MainFlags
  <2>2. MainPlaces' BY <1>4 DEF MainPlaces
  <2>3. UNCHANGED <<jitter, waiting>> BY <1>4
  <2>4. left' \in 0..MaxUpdates
    <3>1. CASE Main!Look
      <4>1. left' \in IF cancelled THEN {0} ELSE 0..MaxUpdates BY <3>1
      <4> QED BY <4>1
    <3>2. CASE Main!Pull BY <3>2 DEF MainCounts
    <3>3. CASE UNCHANGED left BY <3>3 DEF MainCounts
    <3> QED BY <1>4, <3>1, <3>2, <3>3
  <2>5. late' \in 0..2
    <3>1. (late' = late + 1 /\ late < 2) \/ UNCHANGED late
      BY <1>4
    <3> QED BY <3>1 DEF MainCounts
  <2>6. patience' \in 0..ShutdownWait \cup {-1}
    BY <1>4 DEF MainCounts, Main!NoWait
  <2> QED BY <2>1, <2>2, <2>3, <2>4, <2>5, <2>6 DEF MainCounts
<1> QED BY <1>1, <1>2, <1>3, <1>4 DEF Main!Next

\* What the composition adds.
Owing ==
    /\ {due, fresh, astray} \subseteq BOOLEAN
    /\ pokes \in 0..MaxPokes /\ troubles \in 0..MaxTroubles

LEMMA OwingStep ==
  ASSUME Owing, [Next]_vars
  PROVE  Owing'
<1>1. troubles' \in 0..MaxTroubles
  <2>1. Trouble \/ UNCHANGED troubles
    BY DEF Next, vars, Start, Boots, BootFails, LosesKey, Ready, Signal, BeginShutdown, ClientReturns, Leave,
       Crash, Dials, LogsIn, Wakes, DialFails, Refused, Breaks, GoesSilent, ClientNotices, RelayNotices,
       Recycles, Poke, Flushes, FlushFails, Reads, Fires, Scheduled, Begins, Looks, Works, Tick
  <2> QED BY <2>1 DEF Trouble, Owing
<1>2. pokes' \in 0..MaxPokes
  <2>1. (pokes < MaxPokes /\ pokes' = pokes + 1) \/ UNCHANGED pokes
    BY DEF Next, vars, Start, Boots, BootFails, LosesKey, Ready, Signal, BeginShutdown, ClientReturns, Leave,
       Crash, Dials, LogsIn, Wakes, DialFails, Refused, Breaks, GoesSilent, ClientNotices, RelayNotices,
       Recycles, Poke, Flushes, FlushFails, Reads, Fires, Scheduled, Begins, Looks, Works, Tick,
       OfRelay, OfClient, OfMain
  <2> QED BY <2>1 DEF Owing
<1>3. ASSUME Sent PROVE astray' \in BOOLEAN
  BY <1>3 DEF Sent, Owing
<1>4. {due', fresh', astray'} \subseteq BOOLEAN
  <2>1. CASE Poke
    BY <1>3, <2>1 DEF Poke, Owing
  <2>2. CASE Flushes
    BY <1>3, <2>2 DEF Flushes, Owing
  <2>3. CASE Breaks \/ ClientNotices
    BY <2>3 DEF Breaks, ClientNotices, LosesInbox, Owing
  <2>4. CASE Begins
    BY <2>4 DEF Begins, Owing
  <2>5. CASE Looks
    BY <2>5 DEF Looks, Owing
  <2>6. CASE UNCHANGED owing
    BY <2>6 DEF owing, Owing
  <2>7. \/ Poke \/ Flushes \/ Breaks \/ ClientNotices \/ Begins \/ Looks
        \/ UNCHANGED owing
    BY DEF Next, vars, Start, Boots, BootFails, LosesKey, Ready, Signal, BeginShutdown, ClientReturns, Leave,
       Crash, Dials, LogsIn, Wakes, DialFails, Refused, GoesSilent, RelayNotices, Recycles, FlushFails, Reads, Fires,
       Scheduled, Works, Tick, OfRelay, OfClient
  <2> QED BY <2>1, <2>2, <2>3, <2>4, <2>5, <2>6, <2>7
<1> QED BY <1>1, <1>2, <1>4 DEF Owing

\* Relay, client, daemon and what a poke is owed stay in their ranges, the
\* frames, logins and cycles under way within their bounds.
THEOREM PokePathTypeCorrect == Spec => []TypeOK
<1>1. Relay!Init => Relay!TypeOK
  <2> SUFFICES ASSUME Relay!Init PROVE Relay!TypeOK
    OBVIOUS
  <2>1. pending \in BOOLEAN BY DEF Relay!Init
  <2>2. lastPoke \in 0..Coalesce /\ settling \in 0..MaxLogins BY DEF Relay!Init
  <2> QED BY <2>1, <2>2 DEF Relay!Init, Relay!TypeOK
<1>2. Client!Init => Client!TypeOK
  <2> SUFFICES ASSUME Client!Init PROVE Client!TypeOK
    OBVIOUS
  <2>1. replaced \in BOOLEAN BY DEF Client!Init
  <2> QED BY <2>1 DEF Client!Init, Client!TypeOK, Client!NoTimer
<1>3. Main!Init => MainFlags /\ MainPlaces /\ MainCounts
  <2> SUFFICES ASSUME Main!Init PROVE MainFlags /\ MainPlaces /\ MainCounts
    OBVIOUS
  <2>1. MainFlags BY DEF Main!Init, MainFlags
  <2>2. MainPlaces BY DEF Main!Init, MainPlaces
  <2>3. MainCounts BY DEF Main!Init, Main!Nobody, Main!NoWait, MainCounts
  <2> QED BY <2>1, <2>2, <2>3
<1>4. Init => Owing
  <2> SUFFICES ASSUME Init PROVE Owing
    OBVIOUS
  <2>1. {due, fresh, astray} \subseteq BOOLEAN BY DEF Init
  <2>2. pokes \in 0..MaxPokes /\ troubles \in 0..MaxTroubles BY DEF Init
  <2> QED BY <2>1, <2>2 DEF Owing
<1>5. Relay!Spec => []Relay!TypeOK
  BY <1>1, RelayTypes, PTL DEF Relay!Spec
<1>6. Client!Spec => []Client!TypeOK
  BY <1>2, ClientTypes, PTL DEF Client!Spec
<1>7. Main!Spec => [](MainFlags /\ MainPlaces /\ MainCounts)
  BY <1>3, MainTypes, PTL DEF Main!Spec
<1>8. Spec => []Owing
  BY <1>4, OwingStep, PTL DEF Spec
<1>9. Relay!TypeOK /\ Client!TypeOK /\ Main!TypeOK /\ Owing => TypeOK
  BY DEF TypeOK, Owing
<1> QED BY <1>5, <1>6, <1>7, <1>8, <1>9, MainParts, PartsBehave, PTL
=============================================================================
