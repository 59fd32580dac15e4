---------------------------- MODULE WebhookClient ----------------------------
(***************************************************************************)
(* The daemon's end of the relay, internal/webhook/webhook.go: New makes   *)
(* or loads an ed25519 key and a registration in the data dir, Run holds   *)
(* one connection after another, and pokes heard on it restart a timer     *)
(* that triggers a check.  Network, relay and the rest of the daemon are   *)
(* PokePath's; what they have to agree to is named at each action.         *)
(***************************************************************************)
EXTENDS Integers

CONSTANTS
    Conns,          \* connections
    Keys, Ids,      \* ed25519 keys and webhook ids, each made up once
    None,           \* no key, no id, no connection
    Debounce,       \* debounce
    MaxInbox        \* bound: frames received and not yet read

VARIABLES
    \* the data dir; a torn file reads as none
    keyFile,        \* ed25519.key
    regFile,        \* webhook.json
    \* the relay's records
    owner,          \* [Ids -> the key a webhook was provisioned with, or None]
    \* Client
    at,             \* where New or Run is
    priv, webhookID,
    link,           \* the connection connectAndListen holds
    inbox,          \* poke frames received on it and not yet read
    timer,          \* time until pendingTimer fires, or NoTimer
    \* history
    announced,      \* the webhook of the poke URL last shown in the log
    replaced        \* a key on file has been overwritten since the URL was saved

files == <<keyFile, regFile>>
mind  == <<at, priv, webhookID, link, inbox, timer>>
vars  == <<files, owner, mind, announced, replaced>>

NoTimer == -1

InNew == {"key", "reg", "provision", "save"}
InRun == {"dial", "hello", "listen", "sleep"}

TypeOK ==
    /\ {keyFile, priv} \subseteq Keys \cup {None}
    /\ {regFile, webhookID, announced} \subseteq Ids \cup {None}
    /\ owner \in [Ids -> Keys \cup {None}]
    /\ at \in InNew \cup InRun \cup {"off", "disabled", "done"}
    /\ link \in Conns \cup {None}
    /\ inbox \in 0..MaxInbox
    /\ timer \in 0..Debounce \cup {NoTimer}
    /\ replaced \in BOOLEAN

Goto(where) == at' = where

-----------------------------------------------------------------------------
(* New.                                                                    *)

\* New is called, with the memory of a new process.
Begin ==
    /\ at = "off" /\ Goto("key")
    /\ UNCHANGED <<files, owner, priv, webhookID, link, inbox, timer, announced, replaced>>

\* A key nobody has made before; any one is as good as another.
Unmade == {k \in Keys : k # keyFile /\ \A i \in Ids : owner[i] # k}
NewKey == CHOOSE k \in Unmade : TRUE

\* Slip: a new key that cannot be written is used all the same.
KeyForgotten(k) == UNCHANGED keyFile

\* A new key is written before it is used.
KeyWritten(k) == keyFile' = k

\* loadOrCreateKey.
LoadKey ==
    /\ at = "key" /\ keyFile # None
    /\ priv' = keyFile /\ Goto("reg")
    /\ UNCHANGED <<files, owner, webhookID, link, inbox, timer, announced, replaced>>

MakeKey ==
    /\ at = "key" /\ Unmade # {}
    /\ KeyWritten(NewKey) /\ priv' = NewKey
    /\ Goto("reg")
    /\ UNCHANGED <<regFile, owner, webhookID, link, inbox, timer, announced>>

CreateKey == keyFile = None /\ MakeKey /\ UNCHANGED replaced

\* Any error in reading the file is taken for its absence, and so is a length
\* that is not a seed's: what is there is overwritten.
ReplaceKey == keyFile # None /\ MakeKey /\ replaced' = TRUE

\* loadOrProvision: a registration for the configured relay is used as it is.
LoadRegistration ==
    /\ at = "reg"
    /\ IF regFile # None
         THEN webhookID' = regFile /\ announced' = regFile /\ Goto("dial")
         ELSE Goto("provision") /\ UNCHANGED <<webhookID, announced>>
    /\ UNCHANGED <<files, owner, priv, link, inbox, timer, replaced>>

Unused == {i \in Ids : owner[i] = None}
NewId  == CHOOSE i \in Unused : TRUE

\* provision's request: the relay stores the public key under a new id.
Provision ==
    /\ at = "provision"
    /\ Unused # {}
    /\ owner' = [owner EXCEPT ![NewId] = priv] /\ webhookID' = NewId
    /\ Goto("save")
    /\ UNCHANGED <<files, priv, link, inbox, timer, announced, replaced>>

\* provision's end: the poke URL is shown once the registration is saved.
Save ==
    /\ at = "save"
    /\ regFile' = webhookID /\ announced' = webhookID /\ Goto("dial")
    /\ replaced' = FALSE
    /\ UNCHANGED <<keyFile, owner, priv, webhookID, link, inbox, timer>>

\* Any error of New disables the webhook for the life of the process: a file
\* that cannot be written, no answer from the relay, or a lost one.
Disable ==
    /\ at \in InNew \ {"reg"}
    /\ \/ UNCHANGED owner
       \/ at = "provision" /\ Unused # {} /\ owner' = [owner EXCEPT ![NewId] = priv]
    /\ Goto("disabled")
    /\ priv' = None /\ webhookID' = None
    /\ UNCHANGED <<files, link, inbox, timer, announced, replaced>>

-----------------------------------------------------------------------------
(* Run and connectAndListen.                                               *)

Dial(c) ==
    /\ at = "dial" /\ link' = c /\ Goto("hello")
    /\ UNCHANGED <<files, owner, priv, webhookID, inbox, timer, announced, replaced>>

\* The relay accepts the signature when the webhook is this key's.
Signs == webhookID # None /\ owner[webhookID] = priv

\* hello, auth, ready.
LogIn ==
    /\ at = "hello" /\ Signs /\ Goto("listen")
    /\ UNCHANGED <<files, owner, priv, webhookID, link, inbox, timer, announced, replaced>>

\* The dial fails, the handshake is refused or the connection breaks; frames
\* not yet read are gone with it.
Disconnect ==
    /\ at \in InRun \ {"sleep"} /\ Goto("sleep")
    /\ link' = None /\ inbox' = 0
    /\ UNCHANGED <<files, owner, priv, webhookID, timer, announced, replaced>>

\* The backoff ends, after anything between nothing and a minute.
Wake ==
    /\ at = "sleep" /\ Goto("dial")
    /\ UNCHANGED <<files, owner, priv, webhookID, link, inbox, timer, announced, replaced>>

\* A poke frame arrives.
Hear ==
    /\ at = "listen" /\ inbox < MaxInbox /\ inbox' = inbox + 1
    /\ UNCHANGED <<files, owner, at, priv, webhookID, link, timer, announced, replaced>>

\* Slip: the timer is shorter than the relay's window.
ShortDebounce == 0

\* Slip: every poke adds to what is left of the timer.
AddedDebounce == IF timer = NoTimer THEN Debounce ELSE timer + Debounce

\* schedule: every poke restarts the timer.
Rescheduled == Debounce

\* The receive loop hands a poke to schedule.
Read ==
    /\ at = "listen" /\ inbox > 0 /\ inbox' = inbox - 1
    /\ timer' = Rescheduled
    /\ UNCHANGED <<files, owner, at, priv, webhookID, link, announced, replaced>>

\* The timer fires; what it triggers is the daemon's.
Fire ==
    /\ timer = 0 /\ timer' = NoTimer
    /\ UNCHANGED <<files, owner, at, priv, webhookID, link, inbox, announced, replaced>>

\* Run returns when ctx is done, and stopPending stops the timer.
Return ==
    /\ at \in InRun /\ Goto("done")
    /\ link' = None /\ inbox' = 0 /\ timer' = NoTimer
    /\ UNCHANGED <<files, owner, priv, webhookID, announced, replaced>>

-----------------------------------------------------------------------------
\* The process ends, however it does: memory is gone.
Die ==
    /\ at' = "off" /\ priv' = None /\ webhookID' = None
    /\ link' = None /\ inbox' = 0 /\ timer' = NoTimer
    /\ UNCHANGED <<files, owner, announced, replaced>>

\* Time passes; a due timer fires first.
Tick ==
    /\ timer # 0
    /\ timer' = IF timer = NoTimer THEN NoTimer ELSE timer - 1
    /\ UNCHANGED <<files, owner, at, priv, webhookID, link, inbox, announced, replaced>>

\* An empty data dir, and no process.
Init ==
    /\ keyFile = None /\ regFile = None
    /\ owner = [i \in Ids |-> None]
    /\ at = "off" /\ priv = None /\ webhookID = None
    /\ link = None /\ inbox = 0 /\ timer = NoTimer
    /\ announced = None /\ replaced = FALSE

Next ==
    \/ Begin \/ LoadKey \/ CreateKey \/ ReplaceKey \/ LoadRegistration \/ Provision \/ Save \/ Disable
    \/ (\E c \in Conns : Dial(c)) \/ LogIn \/ Disconnect \/ Wake \/ Hear \/ Read \/ Fire
    \/ Return \/ Die \/ Tick

Spec == Init /\ [][Next]_vars

-----------------------------------------------------------------------------
\* A poke URL that was shown stays good: whatever dies in the middle of New,
\* the data dir still holds the webhook last shown and the key it belongs to,
\* so every later process answers for it, unless a key that could not be read
\* has been overwritten.
IdentityKept ==
    announced # None => /\ regFile = announced
                        /\ ~replaced => owner[announced] = keyFile
=============================================================================
