---------------------------- MODULE ServiceUpdate ----------------------------
(***************************************************************************)
(* What an update promises about one service, without a single Docker      *)
(* call: the service stands on one container, the keeper.  A replacement   *)
(* may be brought up beside it and is either thrown away again or, once    *)
(* trusted, takes over; the keeper is never given up for anything less.    *)
(***************************************************************************)
CONSTANT Ids
VARIABLES
    alive,      \* the service's containers
    keeper,     \* the one the service stands on
    trusted,    \* containers that have shown they work
    wanted      \* whether the service is meant to run

vars == <<alive, keeper, trusted, wanted>>

Init ==
    /\ keeper \in Ids
    /\ alive = {keeper} /\ trusted = {keeper}
    /\ wanted \in BOOLEAN

\* A replacement appears; a second one has to wait for the first to be settled.
Bring(c) ==
    /\ alive = {keeper} /\ c # keeper
    /\ alive' = alive \cup {c} /\ trusted' = trusted \ {c}
    /\ UNCHANGED <<keeper, wanted>>

Vouch(c) ==
    /\ c \in alive \ {keeper}
    /\ trusted' = trusted \cup {c}
    /\ UNCHANGED <<alive, keeper, wanted>>

Discard(c) ==
    /\ c \in alive \ {keeper}
    /\ alive' = alive \ {c}
    /\ UNCHANGED <<keeper, trusted, wanted>>

\* A service that is stopped anyway is replaced unseen.
TakeOver(c) ==
    /\ c \in alive \ {keeper}
    /\ wanted => c \in trusted
    /\ alive' = alive \ {keeper} /\ keeper' = c
    /\ UNCHANGED <<trusted, wanted>>

Next == \E c \in Ids : Bring(c) \/ Vouch(c) \/ Discard(c) \/ TakeOver(c)

Spec == Init /\ [][Next]_vars
=============================================================================
