------------------------------ MODULE PokeRelay ------------------------------
(***************************************************************************)
(* What the relay promises the one who pokes and the daemon that listens,  *)
(* without sockets that have not logged in, KV records, alarms, caps and   *)
(* hibernation: a poke that is accepted is kept until somebody listens,    *)
(* or sent to everybody who does, or dropped because a frame was sent only *)
(* just before.  Relay implements it; PokePath builds on it.               *)
(***************************************************************************)
EXTENDS Integers

CONSTANTS
    Conns,          \* connections
    Coalesce,       \* POKE_COALESCE_MS
    MaxLogins       \* bound: logins still to be followed by a flush

VARIABLES
    listening,      \* connections that have logged in
    silent,         \* those among them that have died unnoticed
    pending,        \* the pending-poke flag
    lastPoke,       \* time since the last frame, Coalesce when long ago
    settling        \* logins whose flush is still to come

vars == <<listening, silent, pending, lastPoke, settling>>

TypeOK ==
    /\ listening \subseteq Conns /\ silent \subseteq listening
    /\ pending \in BOOLEAN /\ lastPoke \in 0..Coalesce
    /\ settling \in 0..MaxLogins

Init ==
    /\ listening = {} /\ silent = {}
    /\ pending = FALSE /\ lastPoke = Coalesce /\ settling = 0

-----------------------------------------------------------------------------
\* A daemon logs in; its connection may be dead by the time it does.
LogIn(c) ==
    /\ c \in Conns \ listening
    /\ settling < MaxLogins /\ settling' = settling + 1
    /\ listening' = listening \cup {c}
    /\ silent' \in {silent, silent \cup {c}}
    /\ UNCHANGED <<pending, lastPoke>>

\* What was pending is sent after a login, to everybody who listens.
Flushes == pending /\ listening # {}
Flush ==
    /\ settling > 0 /\ settling' = settling - 1
    /\ IF Flushes
         THEN pending' = FALSE /\ lastPoke' = 0
         ELSE UNCHANGED <<pending, lastPoke>>
    /\ UNCHANGED <<listening, silent>>

\* A failing KV call ends a login before its flush.
FlushLost ==
    /\ settling > 0 /\ settling' = settling - 1
    /\ UNCHANGED <<listening, silent, pending, lastPoke>>

\* The three ways to accept a poke.
Keep ==
    /\ listening = {} /\ pending' = TRUE
    /\ UNCHANGED <<listening, silent, lastPoke, settling>>

Send ==
    /\ listening # {} /\ lastPoke >= Coalesce /\ lastPoke' = 0
    /\ UNCHANGED <<listening, silent, pending, settling>>

Drop ==
    /\ listening # {} /\ lastPoke < Coalesce
    /\ UNCHANGED vars

\* A connection ends and the relay knows.
Leave(c) ==
    /\ c \in listening
    /\ listening' = listening \ {c} /\ silent' = silent \ {c}
    /\ UNCHANGED <<pending, lastPoke, settling>>

\* A connection dies and the relay does not.
FallSilent(c) ==
    /\ c \in listening /\ silent' = silent \cup {c}
    /\ UNCHANGED <<listening, pending, lastPoke, settling>>

\* Cloudflare recycles the object: connections and logins are gone.
Recycle ==
    /\ listening' = {} /\ silent' = {} /\ settling' = 0
    /\ UNCHANGED <<pending, lastPoke>>

Tick ==
    /\ lastPoke < Coalesce /\ lastPoke' = lastPoke + 1
    /\ UNCHANGED <<listening, silent, pending, settling>>

Next ==
    \/ \E c \in Conns : LogIn(c) \/ Leave(c) \/ FallSilent(c)
    \/ Flush \/ FlushLost \/ Keep \/ Send \/ Drop \/ Recycle \/ Tick

Spec == Init /\ [][Next]_vars
=============================================================================
