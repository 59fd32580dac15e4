----------------------------- MODULE RelayProofs -----------------------------
(***************************************************************************)
(* Theorems about Relay, for any connections, caps, times and bounds.      *)
(***************************************************************************)
EXTENDS Relay, FiniteSetTheorems, TLAPS

\* The assumptions on the constants, one by one.
LEMMA Sizes ==
  /\ MaxAuthed \in Nat \ {0} /\ MaxUnauthed \in Nat \ {0} /\ MaxPerWindow \in Nat \ {0}
  /\ MaxTasks \in Nat \ {0} /\ MaxTroubles \in Nat
  /\ Coalesce \in Nat \ {0} /\ Grace \in Nat \ {0} /\ Weekly \in Nat \ {0}
  /\ PruneAfter \in Nat \ {0} /\ Grace < Weekly
BY CapsAssumption, TimesAssumption, BoundAssumption

USE Sizes

-----------------------------------------------------------------------------
(* Type correctness.                                                       *)

LEMMA TypeInit == Init => TypeOK
<1> SUFFICES ASSUME Init PROVE TypeOK
  OBVIOUS
<1>1. sock \in [Conns -> {"off", "hello", "authed"}] /\ age \in [Conns -> 0..(Grace + 1)]
  BY DEF Init
<1>2. /\ lastPoke \in 0..Coalesce /\ windowAge \in 0..(Coalesce + 1)
      /\ windowCount \in 0..MaxPerWindow /\ alarm \in 0..Weekly \cup {NoAlarm}
      /\ flushing \in 0..MaxTasks /\ poking \in 0..MaxTasks
      /\ record \in 0..PruneAfter /\ troubles \in 0..MaxTroubles
  BY DEF Init
<1> QED BY <1>1, <1>2 DEF Init, TypeOK

\* Closing sockets keeps the sockets well typed.
LEMMA CloseTyped ==
  ASSUME TypeOK, NEW S, Close(S)
  PROVE  /\ sock' \in [Conns -> {"off", "hello", "authed"}]
         /\ age' \in [Conns -> 0..(Grace + 1)]
         /\ dead' \subseteq Conns /\ verifying' \subseteq Conns
BY DEF TypeOK, Close

\* A trouble stays within its bound.
LEMMA TroubleTyped ==
  ASSUME TypeOK, Trouble
  PROVE  troubles' \in 0..MaxTroubles
BY DEF TypeOK, Trouble

LEMMA KVTyped ==
  ASSUME TypeOK, KVFails \/ UNCHANGED mishaps
  PROVE  deaf' \in BOOLEAN /\ failed' \in BOOLEAN /\ troubles' \in 0..MaxTroubles
BY TroubleTyped DEF TypeOK, KVFails, mishaps

LEMMA TypeStep ==
  ASSUME TypeOK, [Next]_vars
  PROVE  TypeOK'
<1> USE DEF sockets, storage, memory, told, mishaps
<1>1. ASSUME NEW c \in Conns, Upgrade(c) PROVE TypeOK'
  BY <1>1 DEF Upgrade, Forwarded, Sooner, NoAlarm, TypeOK
<1>2. ASSUME NEW c \in Conns, AuthBegin(c) PROVE TypeOK'
  <2>1. CASE Close({c})
    BY <1>2, <2>1, CloseTyped DEF AuthBegin, TypeOK
  <2>2. CASE verifying' = verifying \cup {c} /\ UNCHANGED sockets
    BY <1>2, <2>2 DEF AuthBegin, TypeOK
  <2> QED BY <1>2, <2>1, <2>2 DEF AuthBegin
<1>3. ASSUME NEW c \in Conns, AuthVerify(c) PROVE TypeOK'
  <2>1. CASE Close({c}) /\ UNCHANGED flushing
    <3>1. troubles' \in 0..MaxTroubles /\ deaf' \in BOOLEAN /\ failed' \in BOOLEAN
      BY <1>3, TroubleTyped, KVTyped DEF AuthVerify, TypeOK, KVFails
    <3> QED BY <1>3, <2>1, <3>1, CloseTyped DEF AuthVerify, TypeOK
  <2>2. CASE sock' = [sock EXCEPT ![c] = "authed"] /\ age' = [age EXCEPT ![c] = 0]
             /\ flushing < MaxTasks /\ flushing' = flushing + 1
             /\ verifying' = verifying \ {c} /\ UNCHANGED <<dead, mishaps>>
    BY <1>3, <2>2 DEF AuthVerify, TypeOK
  <2>3. CASE KVFails /\ verifying' = verifying \ {c} /\ UNCHANGED <<sockets, flushing>>
    BY <1>3, <2>3, KVTyped DEF AuthVerify, TypeOK
  <2> QED BY <1>3, <2>1, <2>2, <2>3 DEF AuthVerify
<1>4. ASSUME NEW c \in Conns, Drop(c) PROVE TypeOK'
  <2>1. troubles' \in 0..MaxTroubles
    BY <1>4, TroubleTyped DEF Drop, TypeOK
  <2> QED BY <1>4, <2>1, CloseTyped DEF Drop, TypeOK
<1>5. ASSUME NEW c \in Conns, Die(c) PROVE TypeOK'
  BY <1>5, TroubleTyped DEF Die, TypeOK
<1>6. ASSUME AuthFlush PROVE TypeOK'
  <2>1. deaf' \in BOOLEAN /\ failed' \in BOOLEAN /\ troubles' \in 0..MaxTroubles
    BY <1>6, KVTyped DEF AuthFlush
  <2>2. flushing' \in 0..MaxTasks /\ record' \in 0..PruneAfter
    BY <1>6 DEF AuthFlush, TypeOK, Touched
  <2>3. CASE UNCHANGED <<pending, lastPoke, told>>
    BY <1>6, <2>1, <2>2, <2>3 DEF AuthFlush, TypeOK
  <2>4. CASE pending' = FALSE /\ lastPoke' = 0 /\ Deliver /\ owed' = (owed /\ ~heard')
    <3>1. heard' \in BOOLEAN BY <2>4 DEF Deliver
    <3>2. owed' \in BOOLEAN BY <2>4
    <3>3. pending' \in BOOLEAN BY <2>4
    <3>4. lastPoke' \in 0..Coalesce BY <2>4
    <3> QED BY <1>6, <2>1, <2>2, <3>1, <3>2, <3>3, <3>4 DEF AuthFlush, TypeOK
  <2> QED BY <1>6, <2>3, <2>4 DEF AuthFlush
<1>7. ASSUME Poke PROVE TypeOK'
  BY <1>7 DEF Poke, Forwarded, Limited, Counted, TypeOK
<1>8. ASSUME PokeLands PROVE TypeOK'
  <2>1. deaf' \in BOOLEAN /\ failed' \in BOOLEAN /\ troubles' \in 0..MaxTroubles
    BY <1>8, KVTyped DEF PokeLands
  <2>2. poking' \in 0..MaxTasks /\ record' \in 0..PruneAfter
    BY <1>8 DEF PokeLands, TypeOK, Touched
  <2>3. pending' \in BOOLEAN /\ lastPoke' \in 0..Coalesce
    <3>1. pending' = TRUE \/ UNCHANGED pending BY <1>8 DEF PokeLands
    <3>2. lastPoke' = 0 \/ UNCHANGED lastPoke BY <1>8 DEF PokeLands
    <3>3. pending' \in BOOLEAN BY <3>1 DEF TypeOK
    <3>4. lastPoke' \in 0..Coalesce BY <3>2 DEF TypeOK
    <3> QED BY <3>3, <3>4
  <2>4. heard' \in BOOLEAN
    <3>1. CASE Deliver BY <3>1 DEF Deliver
    <3>2. CASE UNCHANGED heard BY <3>2 DEF TypeOK
    <3> QED BY <1>8, <3>1, <3>2 DEF PokeLands
  <2>5. owed' \in BOOLEAN
    <3>1. CASE UNCHANGED owed BY <3>1 DEF TypeOK
    <3>2. CASE owed' = (owed \/ ~heard) BY <3>2
    <3>3. CASE owed' = TRUE BY <3>3
    <3>4. CASE owed' = ~heard' BY <3>4
    <3> QED BY <1>8, <3>1, <3>2, <3>3, <3>4 DEF PokeLands
  <2> QED BY <1>8, <2>1, <2>2, <2>3, <2>4, <2>5 DEF PokeLands, TypeOK
<1>9. ASSUME AlarmFires PROVE TypeOK'
  <2>1. alarmTask' \in {"none", "reap", "weekly"} /\ alarm' \in 0..Weekly \cup {NoAlarm}
    BY <1>9 DEF AlarmFires, NextAlarm, After, TypeOK
  <2> QED BY <1>9, <2>1, CloseTyped DEF AlarmFires, TypeOK
<1>10. ASSUME AlarmEnds PROVE TypeOK'
  <2>1. alarm' \in 0..Weekly \cup {NoAlarm} /\ record' \in 0..PruneAfter
    BY <1>10 DEF AlarmEnds, After, TypeOK, Touched
  <2> QED BY <1>10, <2>1, KVTyped DEF AlarmEnds, TypeOK
<1>11. ASSUME Hibernate PROVE TypeOK'
  BY <1>11, TroubleTyped DEF Hibernate, TypeOK
<1>12. ASSUME Recycle PROVE TypeOK'
  <2>1. alarm' \in 0..Weekly \cup {NoAlarm} /\ troubles' \in 0..MaxTroubles
    BY <1>12, TroubleTyped DEF Recycle, TypeOK
  <2>2. Close(Conns) BY <1>12 DEF Recycle
  <2>3. /\ sock' \in [Conns -> {"off", "hello", "authed"}]
        /\ age' \in [Conns -> 0..(Grace + 1)]
        /\ dead' \subseteq Conns /\ verifying' \subseteq Conns
    BY <2>2, CloseTyped
  <2>4. knows' = FALSE /\ flushing' = 0 /\ poking' = 0
    BY <1>12 DEF Recycle
  <2>5. knows' \in BOOLEAN BY <2>4
  <2>6. flushing' \in 0..MaxTasks /\ poking' \in 0..MaxTasks BY <2>4
  <2> QED BY <1>12, <2>1, <2>3, <2>5, <2>6 DEF Recycle, TypeOK
<1>13. ASSUME Tick PROVE TypeOK'
  BY <1>13 DEF Tick, Later, NoAlarm, TypeOK
<1>14. ASSUME UNCHANGED vars PROVE TypeOK'
  BY <1>14 DEF vars, TypeOK
<1> QED
  BY <1>1, <1>2, <1>3, <1>4, <1>5, <1>6, <1>7, <1>8, <1>9, <1>10, <1>11, <1>12, <1>13,
     <1>14 DEF Next

\* Sockets, storage, memory and the KV record stay in their ranges, the
\* counters within the limits the code tests.
THEOREM RelayTypeCorrect == Spec => []TypeOK
BY TypeInit, TypeStep, PTL DEF Spec

-----------------------------------------------------------------------------
(* The caps.                                                               *)

\* Sockets that have not logged in are capped when they open, so logins under
\* way are capped, too; each of them was let in below the cap on listeners.
Capped ==
    /\ verifying \subseteq Hello
    /\ Cardinality(Hello) <= MaxUnauthed
    /\ Cardinality(Authed) + Cardinality(verifying) <= MaxAuthed + MaxUnauthed - 1

\* Sets of connections are finite, and their sizes are as expected.
LEMMA Sized ==
  ASSUME NEW S \in SUBSET Conns
  PROVE  /\ IsFiniteSet(S) /\ Cardinality(S) \in Nat
         /\ \A T \in SUBSET S : Cardinality(T) <= Cardinality(S) /\ Cardinality(T) \in Nat
         /\ \A c \in Conns \ S : Cardinality(S \cup {c}) = Cardinality(S) + 1
         /\ \A c \in S : Cardinality(S \ {c}) = Cardinality(S) - 1
<1>1. IsFiniteSet(S) BY ConnsAssumption, FS_Subset
<1>2. Cardinality(S) \in Nat BY <1>1, FS_CardinalityType
<1>3. ASSUME NEW T \in SUBSET S PROVE Cardinality(T) <= Cardinality(S) /\ Cardinality(T) \in Nat
  <2>1. IsFiniteSet(T) BY <1>1, FS_Subset
  <2> QED BY <1>1, <2>1, FS_Subset, FS_CardinalityType
<1>4. ASSUME NEW c \in Conns \ S PROVE Cardinality(S \cup {c}) = Cardinality(S) + 1
  BY <1>1, FS_AddElement
<1>5. ASSUME NEW c \in S PROVE Cardinality(S \ {c}) = Cardinality(S) - 1
  BY <1>1, FS_RemoveElement
<1> QED BY <1>1, <1>2, <1>3, <1>4, <1>5

\* A step that opens no socket, lets nobody in and begins no login keeps the caps.
LEMMA CappedFrame ==
  ASSUME Capped, TypeOK, Authed' \subseteq Authed, Hello' \subseteq Hello,
         verifying' \subseteq verifying, verifying' \subseteq Hello'
  PROVE  Capped'
<1>1. Authed \subseteq Conns /\ Hello \subseteq Conns /\ verifying \subseteq Conns
  BY DEF Authed, Hello, TypeOK
<1>2. /\ Cardinality(Hello') <= Cardinality(Hello)
      /\ Cardinality(Authed') <= Cardinality(Authed)
      /\ Cardinality(verifying') <= Cardinality(verifying)
      /\ Cardinality(Hello) \in Nat /\ Cardinality(Authed) \in Nat /\ Cardinality(verifying) \in Nat
      /\ Cardinality(Hello') \in Nat /\ Cardinality(Authed') \in Nat
      /\ Cardinality(verifying') \in Nat
  BY <1>1, Sized
<1> QED BY <1>2 DEF Capped

LEMMA CappedClose ==
  ASSUME Capped, TypeOK, NEW S, Close(S)
  PROVE  Capped'
<1>1. Authed' \subseteq Authed /\ Hello' \subseteq Hello
  BY DEF Close, Authed, Hello
<1>2. verifying' \subseteq verifying /\ verifying' \subseteq Hello'
  BY DEF Close, Capped, Hello
<1> QED BY <1>1, <1>2, CappedFrame

LEMMA CappedStep ==
  ASSUME Capped, TypeOK, [Next]_vars
  PROVE  Capped'
<1>1. /\ Authed \in SUBSET Conns /\ Hello \in SUBSET Conns /\ verifying \in SUBSET Conns
      /\ Authed' \in SUBSET Conns /\ Hello' \in SUBSET Conns
  BY DEF Authed, Hello, TypeOK
<1>2. /\ Cardinality(Authed) \in Nat /\ Cardinality(Hello) \in Nat
      /\ Cardinality(verifying) \in Nat
  BY <1>1, Sized
<1>3. ASSUME UNCHANGED <<sock, verifying>> PROVE Capped'
  BY <1>3 DEF Capped, Authed, Hello
<1>4. ASSUME NEW c \in Conns, Upgrade(c) PROVE Capped'
  <2>1. CASE UNCHANGED sock
    BY <1>4, <2>1, <1>3 DEF Upgrade
  <2>2. CASE Cardinality(Hello) < MaxUnauthed /\ sock' = [sock EXCEPT ![c] = "hello"]
    <3>1. Hello' = Hello \cup {c} /\ Authed' = Authed /\ verifying' = verifying /\ c \notin Hello
      BY <1>4, <2>2 DEF Upgrade, Hello, Authed, TypeOK
    <3>2. Cardinality(Hello') = Cardinality(Hello) + 1
      BY <3>1, <1>1, Sized
    <3> QED BY <3>1, <3>2, <2>2, <1>2 DEF Capped
  <2> QED BY <1>4, <2>1, <2>2, <1>2 DEF Upgrade
<1>5. ASSUME NEW c \in Conns, AuthBegin(c) PROVE Capped'
  <2>1. CASE Close({c})
    BY <2>1, CappedClose
  <2>2. CASE ~CapReached /\ verifying' = verifying \cup {c} /\ UNCHANGED sockets
    <3>1. Hello' = Hello /\ Authed' = Authed /\ verifying' \subseteq Hello
      BY <1>5, <2>2 DEF AuthBegin, Hello, Authed, sockets, Capped
    <3>2. Cardinality(verifying') <= Cardinality(Hello) /\ Cardinality(verifying') \in Nat
      BY <3>1, <1>1, Sized
    <3>3. Cardinality(Authed) < MaxAuthed
      BY <2>2, <1>2 DEF CapReached
    <3> QED BY <3>1, <3>2, <3>3, <1>2 DEF Capped
  <2> QED BY <1>5, <2>1, <2>2 DEF AuthBegin
<1>6. ASSUME NEW c \in Conns, AuthVerify(c) PROVE Capped'
  <2>1. CASE Close({c})
    BY <2>1, CappedClose
  <2>2. CASE sock' = [sock EXCEPT ![c] = "authed"] /\ verifying' = verifying \ {c}
    <3>1. c \in verifying /\ c \in Hello /\ c \notin Authed
      BY <1>6 DEF AuthVerify, Capped, Hello, Authed
    <3>2. Hello' = Hello \ {c} /\ Authed' = Authed \cup {c}
      BY <2>2 DEF Hello, Authed, TypeOK
    <3>3. /\ Cardinality(Authed') = Cardinality(Authed) + 1
          /\ Cardinality(verifying') = Cardinality(verifying) - 1
          /\ Cardinality(Hello') = Cardinality(Hello) - 1
      BY <3>1, <3>2, <2>2, <1>1, Sized
    <3> QED BY <3>2, <3>3, <2>2, <1>2 DEF Capped
  <2>3. CASE verifying' = verifying \ {c} /\ UNCHANGED sockets
    <3>1. Hello' = Hello /\ Authed' = Authed BY <2>3 DEF sockets, Hello, Authed
    <3> QED BY <2>3, <3>1, CappedFrame DEF Capped
  <2> QED BY <1>6, <2>1, <2>2, <2>3 DEF AuthVerify
<1>7. ASSUME NEW c \in Conns, Drop(c) PROVE Capped'
  BY <1>7, CappedClose DEF Drop
<1>8. ASSUME AlarmFires PROVE Capped'
  BY <1>8, CappedClose DEF AlarmFires
<1>9. ASSUME Recycle PROVE Capped'
  BY <1>9, CappedClose DEF Recycle
<1>10. ASSUME \/ \E c \in Conns : Die(c)
              \/ AuthFlush \/ Poke \/ PokeLands \/ AlarmEnds \/ Hibernate \/ Tick
              \/ UNCHANGED vars
       PROVE  Capped'
  BY <1>10, <1>3 DEF Die, AuthFlush, Poke, PokeLands, AlarmEnds, Hibernate, Tick, vars,
                     sockets, memory
<1> QED BY <1>4, <1>5, <1>6, <1>7, <1>8, <1>9, <1>10 DEF Next

LEMMA CappedInit == Init => Capped
<1> SUFFICES ASSUME Init PROVE Capped
  OBVIOUS
<1>1. Authed = {} /\ Hello = {} /\ verifying = {}
  BY DEF Init, Authed, Hello
<1> QED BY <1>1, FS_EmptySet DEF Capped

\* However logins interleave at their awaits, there are never more listeners
\* than the cap plus the logins that may have passed the test before, less one.
THEOREM ListenersBounded == Spec => []AuthedBounded
<1>1. Capped /\ TypeOK => AuthedBounded
  <2> SUFFICES ASSUME Capped, TypeOK PROVE AuthedBounded
    OBVIOUS
  <2>1. Authed \in SUBSET Conns /\ verifying \in SUBSET Conns
    BY DEF Authed, TypeOK
  <2>2. Cardinality(Authed) \in Nat /\ Cardinality(verifying) \in Nat
    BY <2>1, Sized
  <2> QED BY <2>2 DEF Capped, AuthedBounded
<1>2. Capped /\ TypeOK /\ [Next]_vars => Capped'
  BY CappedStep
<1> QED BY <1>1, <1>2, CappedInit, RelayTypeCorrect, PTL DEF Spec

-----------------------------------------------------------------------------
(* The reaper.                                                             *)

\* While a socket is waiting for its login an alarm is set or being handled:
\* upgrades lower it, and the handler sets another before it rests.
LEMMA ArmedStep ==
  ASSUME ReaperArmed, TypeOK, [Next]_vars
  PROVE  ReaperArmed'
<1>1. ASSUME Hello' \subseteq Hello, UNCHANGED <<alarm, alarmTask>> PROVE ReaperArmed'
  BY <1>1 DEF ReaperArmed
<1>2. ASSUME NEW S, Close(S) PROVE Hello' \subseteq Hello
  BY <1>2 DEF Close, Hello
<1>3. ASSUME UNCHANGED sock PROVE Hello' = Hello
  BY <1>3 DEF Hello
<1>4. ASSUME NEW c \in Conns, Upgrade(c) PROVE ReaperArmed'
  <2>1. CASE UNCHANGED <<sock, age, alarm>>
    BY <1>4, <2>1, <1>1, <1>3 DEF Upgrade
  <2>2. CASE alarm' = Sooner
    <3>1. alarm' # NoAlarm BY <2>2 DEF Sooner, NoAlarm, TypeOK
    <3> QED BY <3>1 DEF ReaperArmed
  <2> QED BY <1>4, <2>1, <2>2 DEF Upgrade
<1>5. ASSUME NEW c \in Conns, AuthBegin(c) PROVE ReaperArmed'
  BY <1>5, <1>1, <1>2, <1>3 DEF AuthBegin, sockets, storage
<1>6. ASSUME NEW c \in Conns, AuthVerify(c) PROVE ReaperArmed'
  <2>1. CASE sock' = [sock EXCEPT ![c] = "authed"]
    <3>1. Hello' \subseteq Hello BY <2>1 DEF Hello, TypeOK
    <3> QED BY <1>6, <3>1, <1>1 DEF AuthVerify, storage
  <2>2. CASE Close({c}) \/ UNCHANGED sockets
    BY <1>6, <2>2, <1>1, <1>2, <1>3 DEF AuthVerify, storage, sockets
  <2> QED BY <1>6, <2>1, <2>2 DEF AuthVerify
<1>7. ASSUME NEW c \in Conns, Drop(c) \/ Die(c) PROVE ReaperArmed'
  BY <1>7, <1>1, <1>2, <1>3 DEF Drop, Die, storage, memory
<1>8. ASSUME AlarmFires PROVE ReaperArmed'
  <2>1. Hello' = Hello \ Stale BY <1>8 DEF AlarmFires, Close, Hello, Stale
  <2>2. CASE NextAlarm = "none"
    BY <2>1, <2>2 DEF NextAlarm, ReaperArmed
  <2>3. CASE NextAlarm # "none"
    <3>1. After(NextAlarm) # NoAlarm BY <2>3 DEF NextAlarm, After, NoAlarm
    <3> QED BY <1>8, <2>3, <3>1 DEF AlarmFires, ReaperArmed
  <2> QED BY <2>2, <2>3
<1>9. ASSUME AlarmEnds PROVE ReaperArmed'
  <2>1. After(alarmTask) # NoAlarm BY <1>9 DEF AlarmEnds, After, NoAlarm, TypeOK
  <2>2. alarm' # NoAlarm BY <1>9, <2>1 DEF AlarmEnds, NoAlarm
  <2> QED BY <2>2 DEF ReaperArmed
<1>10. ASSUME Recycle PROVE ReaperArmed'
  <2>1. Hello' = {} BY <1>10 DEF Recycle, Close, Hello
  <2> QED BY <2>1 DEF ReaperArmed
<1>11. ASSUME Tick PROVE ReaperArmed'
  <2>1. alarm # NoAlarm => alarm' # NoAlarm BY <1>11 DEF Tick, NoAlarm, TypeOK
  <2> QED BY <1>11, <2>1, <1>3 DEF Tick, memory, ReaperArmed
<1>12. ASSUME AuthFlush \/ Poke \/ PokeLands \/ Hibernate \/ UNCHANGED vars
       PROVE  ReaperArmed'
  BY <1>12, <1>1, <1>3 DEF AuthFlush, Poke, PokeLands, Hibernate, vars, sockets, storage, memory
<1> QED BY <1>4, <1>5, <1>6, <1>7, <1>8, <1>9, <1>10, <1>11, <1>12 DEF Next

\* A socket that has not logged in never outlives the last alarm, whatever
\* upgrades, logins and crashes happen while the alarm is being handled.
THEOREM ReaperAlwaysArmed == Spec => []ReaperArmed
<1>1. Init => ReaperArmed
  BY DEF Init, ReaperArmed, Hello
<1>2. ReaperArmed /\ TypeOK /\ [Next]_vars => ReaperArmed'
  BY ArmedStep
<1> QED BY <1>1, <1>2, RelayTypeCorrect, PTL DEF Spec

-----------------------------------------------------------------------------
(* Pokes.                                                                  *)

\* Without silent deaths every poke frame is heard; a poke coalesced into one
\* that was sent moments ago thus is not owed to anybody.
HeardLately ==
    /\ ~deaf => dead = {}
    /\ ~deaf /\ lastPoke < Coalesce => heard

PokesInv == PokesKept /\ HeardLately

\* A frame sent to a listener is heard unless a connection died silently.
LEMMA DeliverHeard ==
  ASSUME HeardLately, ~deaf, Authed # {}, Deliver
  PROVE  heard'
BY DEF HeardLately, Deliver

LEMMA PokesStep ==
  ASSUME PokesInv, TypeOK, [Next]_vars
  PROVE  PokesInv'
<1>1. ASSUME UNCHANGED <<pending, lastPoke, owed, heard>>, deaf' = deaf, dead' \subseteq dead
      PROVE  PokesInv'
  BY <1>1 DEF PokesInv, PokesKept, HeardLately
<1>2. ASSUME NEW S, Close(S) PROVE dead' \subseteq dead
  BY <1>2 DEF Close
<1>3. ASSUME KVFails \/ UNCHANGED mishaps PROVE deaf' = deaf
  BY <1>3 DEF KVFails, mishaps
<1>4. ASSUME NEW c \in Conns, Upgrade(c) \/ AuthBegin(c) PROVE PokesInv'
  BY <1>4, <1>1, <1>2, <1>3 DEF Upgrade, AuthBegin, sockets, storage, told
<1>5. ASSUME NEW c \in Conns, AuthVerify(c) PROVE PokesInv'
  <2>1. dead' \subseteq dead BY <1>5, <1>2 DEF AuthVerify, sockets
  <2>2. deaf' = deaf BY <1>5, <1>3 DEF AuthVerify, mishaps
  <2> QED BY <1>5, <2>1, <2>2, <1>1 DEF AuthVerify, storage, told
<1>6. ASSUME NEW c \in Conns, Drop(c) PROVE PokesInv'
  BY <1>6, <1>1, <1>2 DEF Drop, storage, told
<1>7. ASSUME NEW c \in Conns, Die(c) PROVE PokesInv'
  BY <1>7 DEF Die, PokesInv, PokesKept, HeardLately
<1>8. ASSUME AuthFlush PROVE PokesInv'
  <2>1. deaf' = deaf /\ dead' = dead BY <1>8, <1>3 DEF AuthFlush, sockets
  <2>2. CASE UNCHANGED <<pending, lastPoke, told>>
    BY <2>1, <2>2, <1>1 DEF told
  <2>3. CASE Flushes /\ Deliver /\ owed' = (owed /\ ~heard')
    <3>1. ~deaf => heard' BY <2>3, DeliverHeard DEF Flushes, PokesInv
    <3>2. ~deaf => ~owed' BY <2>3, <3>1
    <3> QED BY <2>1, <3>1, <3>2 DEF PokesInv, PokesKept, HeardLately
  <2> QED BY <1>8, <2>2, <2>3 DEF AuthFlush
<1>9. ASSUME PokeLands PROVE PokesInv'
  <2>1. deaf' = deaf /\ dead' = dead BY <1>9, <1>3 DEF PokeLands, sockets
  <2>2. CASE UNCHANGED <<pending, lastPoke, told>>
    BY <2>1, <2>2, <1>1 DEF told
  <2>3. CASE Drops /\ owed' = (owed \/ ~heard) /\ UNCHANGED <<pending, lastPoke, heard>>
    <3>1. ~deaf => heard BY <2>3 DEF Drops, PokesInv, HeardLately
    <3>2. ~deaf /\ owed' => owed BY <2>3, <3>1
    <3> QED BY <2>1, <2>3, <3>2 DEF PokesInv, PokesKept, HeardLately
  <2>4. CASE pending' = TRUE /\ UNCHANGED <<lastPoke, heard>>
    BY <2>1, <2>4 DEF PokesInv, PokesKept, HeardLately
  <2>5. CASE Authed # {} /\ Deliver /\ owed' = ~heard'
    <3>1. ~deaf => heard' BY <2>5, DeliverHeard DEF PokesInv
    <3>2. ~deaf => ~owed' BY <2>5, <3>1
    <3> QED BY <2>1, <3>1, <3>2 DEF PokesInv, PokesKept, HeardLately
  <2> QED BY <1>9, <2>2, <2>3, <2>4, <2>5 DEF PokeLands
<1>10. ASSUME AlarmFires \/ Recycle PROVE PokesInv'
  BY <1>10, <1>1, <1>2 DEF AlarmFires, Recycle, told, mishaps
<1>11. ASSUME AlarmEnds PROVE PokesInv'
  BY <1>11, <1>1, <1>3 DEF AlarmEnds, sockets, told
<1>12. ASSUME Tick PROVE PokesInv'
  <2>1. lastPoke' < Coalesce => lastPoke < Coalesce
    BY <1>12 DEF Tick, Later, TypeOK
  <2> QED BY <1>12, <2>1 DEF Tick, told, mishaps, PokesInv, PokesKept, HeardLately
<1>13. ASSUME Poke \/ Hibernate \/ UNCHANGED vars PROVE PokesInv'
  BY <1>13, <1>1 DEF Poke, Hibernate, vars, sockets, storage, told, mishaps
<1> QED
  BY <1>4, <1>5, <1>6, <1>7, <1>8, <1>9, <1>10, <1>11, <1>12, <1>13 DEF Next

\* Unless a connection died unnoticed, a poke that was accepted has reached a
\* daemon or is pending: it is not lost to coalescing, to a login that flushes
\* at the same time, to hibernation or to a failing KV store.
THEOREM PokesNeverForgotten == Spec => []PokesKept
<1>1. Init => PokesInv
  BY DEF Init, PokesInv, PokesKept, HeardLately
<1>2. PokesInv /\ TypeOK /\ [Next]_vars => PokesInv'
  BY PokesStep
<1>3. PokesInv => PokesKept
  BY DEF PokesInv
<1> QED BY <1>1, <1>2, <1>3, RelayTypeCorrect, PTL DEF Spec

-----------------------------------------------------------------------------
(* Relay implements PokeRelay.                                             *)


\* A step that shows nothing is a step that PokeRelay may leave out.
LEMMA Unseen ==
  ASSUME UNCHANGED <<Authed, dead \cap Authed, pending, lastPoke, flushing>>
  PROVE  [Promise!Next]_Promise!vars
BY DEF Promise!vars

LEMMA LogInSeen ==
  ASSUME TypeOK, Capped, NEW c \in Conns, AuthVerify(c)
  PROVE  [Promise!Next]_Promise!vars
<1>1. c \in Hello BY DEF AuthVerify, Capped
<1>2. UNCHANGED <<pending, lastPoke>> BY DEF AuthVerify, storage
<1>3. CASE Close({c}) /\ UNCHANGED flushing
  <2>1. Authed' = Authed /\ (dead \cap Authed)' = dead \cap Authed
    BY <1>1, <1>3 DEF Close, Hello, Authed
  <2> QED BY <1>2, <1>3, <2>1, Unseen
<1>4. CASE UNCHANGED <<sockets, flushing>>
  BY <1>2, <1>4, Unseen DEF sockets, Authed
<1>5. CASE /\ flushing < MaxTasks /\ flushing' = flushing + 1
           /\ sock' = [sock EXCEPT ![c] = "authed"] /\ UNCHANGED dead
  <2>1. c \in Conns \ Authed BY <1>1 DEF Hello, Authed
  <2>2. Authed' = Authed \cup {c} BY <1>5 DEF Authed, TypeOK
  <2>3. (dead \cap Authed)' \in {dead \cap Authed, (dead \cap Authed) \cup {c}}
    BY <1>5, <2>2
  <2>4. Promise!LogIn(c) BY <1>2, <1>5, <2>1, <2>2, <2>3 DEF Promise!LogIn
  <2> QED BY <2>4 DEF Promise!Next
<1> QED BY <1>3, <1>4, <1>5 DEF AuthVerify

LEMMA FlushSeen ==
  ASSUME TypeOK, AuthFlush
  PROVE  [Promise!Next]_Promise!vars
<1>1. /\ flushing > 0 /\ flushing' = flushing - 1
      /\ Authed' = Authed /\ (dead \cap Authed)' = dead \cap Authed
  BY DEF AuthFlush, sockets, Authed
<1>2. CASE KVFails /\ UNCHANGED <<pending, lastPoke>>
  <2>1. Promise!FlushLost BY <1>1, <1>2 DEF Promise!FlushLost
  <2> QED BY <2>1 DEF Promise!Next
<1>3. CASE IF Flushes THEN pending' = FALSE /\ lastPoke' = 0
                      ELSE UNCHANGED <<pending, lastPoke>>
  <2>1. Promise!Flush BY <1>1, <1>3 DEF Promise!Flush, Promise!Flushes, Flushes
  <2> QED BY <2>1 DEF Promise!Next
<1> QED BY <1>2, <1>3 DEF AuthFlush

LEMMA PokeSeen ==
  ASSUME TypeOK, PokeLands
  PROVE  [Promise!Next]_Promise!vars
<1>1. Authed' = Authed /\ (dead \cap Authed)' = dead \cap Authed /\ UNCHANGED flushing
  BY DEF PokeLands, sockets, Authed
<1>2. CASE UNCHANGED <<pending, lastPoke>>
  BY <1>1, <1>2, Unseen
<1>3. CASE Authed = {} /\ pending' = TRUE /\ UNCHANGED lastPoke
  <2>1. Promise!Keep BY <1>1, <1>3 DEF Promise!Keep
  <2> QED BY <2>1 DEF Promise!Next
<1>4. CASE ~Drops /\ Authed # {} /\ lastPoke' = 0 /\ UNCHANGED pending
  <2>1. lastPoke >= Coalesce BY <1>4 DEF Drops, TypeOK
  <2>2. Promise!Send BY <1>1, <1>4, <2>1 DEF Promise!Send
  <2> QED BY <2>2 DEF Promise!Next
<1> QED BY <1>2, <1>3, <1>4 DEF PokeLands

\* The end of a connection shows when it is a listener's.
LEMMA EndSeen ==
  ASSUME TypeOK, NEW c \in Conns, Drop(c) \/ Die(c)
  PROVE  [Promise!Next]_Promise!vars
<1>1. UNCHANGED <<pending, lastPoke, flushing>> BY DEF Drop, Die, storage, memory
<1>2. CASE Drop(c) /\ c \in Authed
  <2>1. Authed' = Authed \ {c} /\ (dead \cap Authed)' = (dead \cap Authed) \ {c}
    BY <1>2 DEF Drop, Close, Authed
  <2>2. Promise!Leave(c) BY <1>1, <1>2, <2>1 DEF Promise!Leave
  <2> QED BY <2>2 DEF Promise!Next
<1>3. CASE Drop(c) /\ c \notin Authed
  <2>1. Authed' = Authed /\ (dead \cap Authed)' = dead \cap Authed
    BY <1>3 DEF Drop, Close, Authed
  <2> QED BY <1>1, <2>1, Unseen
<1>4. CASE Die(c) /\ c \in Authed
  <2>1. Authed' = Authed /\ (dead \cap Authed)' = (dead \cap Authed) \cup {c}
    BY <1>4 DEF Die, Authed
  <2>2. Promise!FallSilent(c) BY <1>1, <1>4, <2>1 DEF Promise!FallSilent
  <2> QED BY <2>2 DEF Promise!Next
<1>5. CASE Die(c) /\ c \notin Authed
  <2>1. Authed' = Authed /\ (dead \cap Authed)' = dead \cap Authed
    BY <1>5 DEF Die, Authed
  <2> QED BY <1>1, <2>1, Unseen
<1> QED BY <1>2, <1>3, <1>4, <1>5

\* Steps that close sockets nobody has logged in on, or none at all.
LEMMA QuietSeen ==
  ASSUME TypeOK,
         \/ \E c \in Conns : Upgrade(c) \/ AuthBegin(c)
         \/ Poke \/ AlarmFires \/ AlarmEnds \/ Hibernate \/ UNCHANGED vars
  PROVE  [Promise!Next]_Promise!vars
<1>1. UNCHANGED <<pending, lastPoke, flushing>>
  BY DEF Upgrade, AuthBegin, Poke, AlarmFires, AlarmEnds, Hibernate, vars, storage, memory
<1>2. ASSUME NEW S \in SUBSET Hello, Close(S)
      PROVE  Authed' = Authed /\ (dead \cap Authed)' = dead \cap Authed
  BY <1>2 DEF Close, Hello, Authed
<1>3. Stale \subseteq Hello BY DEF Stale
<1>4. ASSUME NEW c \in Conns, Upgrade(c)
      PROVE  Authed' = Authed /\ (dead \cap Authed)' = dead \cap Authed
  BY <1>4 DEF Upgrade, Authed, TypeOK
<1>5. ASSUME NEW c \in Conns, AuthBegin(c)
      PROVE  Authed' = Authed /\ (dead \cap Authed)' = dead \cap Authed
  BY <1>2, <1>5 DEF AuthBegin, Hello, sockets, Authed
<1>6. CASE AlarmFires
  BY <1>1, <1>2, <1>3, <1>6, Unseen DEF AlarmFires
<1>7. CASE Poke \/ AlarmEnds \/ Hibernate \/ UNCHANGED vars
  BY <1>1, <1>7, Unseen DEF Poke, AlarmEnds, Hibernate, vars, sockets, Authed
<1> QED BY <1>1, <1>4, <1>5, <1>6, <1>7, Unseen

LEMMA PromiseStep ==
  ASSUME TypeOK, Capped, [Next]_vars
  PROVE  [Promise!Next]_Promise!vars
<1>1. ASSUME Recycle PROVE [Promise!Next]_Promise!vars
  <2>1. Authed' = {} /\ (dead \cap Authed)' = {} BY <1>1 DEF Recycle, Close, Authed
  <2>2. Promise!Recycle BY <1>1, <2>1 DEF Recycle, Promise!Recycle
  <2> QED BY <2>2 DEF Promise!Next
<1>2. ASSUME Tick PROVE [Promise!Next]_Promise!vars
  <2>1. Authed' = Authed /\ (dead \cap Authed)' = dead \cap Authed
        /\ UNCHANGED <<pending, flushing>>
    BY <1>2 DEF Tick, Authed, memory
  <2>2. CASE lastPoke < Coalesce
    <3>1. Promise!Tick BY <1>2, <2>1, <2>2 DEF Tick, Later, Promise!Tick
    <3> QED BY <3>1 DEF Promise!Next
  <2>3. CASE ~(lastPoke < Coalesce)
    BY <1>2, <2>1, <2>3, Unseen DEF Tick, Later
  <2> QED BY <2>2, <2>3
<1> QED BY <1>1, <1>2, LogInSeen, FlushSeen, PokeSeen, EndSeen, QuietSeen DEF Next

\* The relay implements PokeRelay for any connections, caps, times and number
\* of troubles: what its handlers, awaits, alarms and restarts do to pokes is
\* always one of PokeRelay's steps, or nothing.
THEOREM RelayKeepsPromise == Spec => KeepsPromise
<1>1. Init => Promise!Init
  BY DEF Init, Promise!Init, Authed
<1>2. TypeOK /\ Capped /\ [Next]_vars => [Promise!Next]_Promise!vars
  BY PromiseStep
<1>3. Capped /\ TypeOK /\ [Next]_vars => Capped'
  BY CappedStep
<1> QED
  BY <1>1, <1>2, <1>3, CappedInit, RelayTypeCorrect, PTL DEF Spec, KeepsPromise, Promise!Spec
=============================================================================
