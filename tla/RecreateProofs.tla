---------------------------- MODULE RecreateProofs ----------------------------
(***************************************************************************)
(* Theorems about Recreate, for any containers, any number of failing      *)
(* calls and crashes, any deadline.                                        *)
(***************************************************************************)
EXTENDS Recreate, WellFoundedInduction, TLAPS

\* Any set of natural numbers has a least element.
LEMMA LeastNat ==
  ASSUME NEW T \in SUBSET Nat, T # {}
  PROVE  \E x \in T : \A y \in T : x <= y
<1> DEFINE R == {ss \in Nat \X Nat : ss[1] < ss[2]}
<1>1. IsWellFoundedOn(R, Nat)
  BY NatLessThanWellFounded DEF OpToRel
<1>2. PICK x \in T : \A y \in T : ~ (<<y, x>> \in R)
  <2> HIDE DEF R
  <2> QED BY <1>1, WFMin
<1>3. \A y \in T : <<y, x>> \in R <=> y < x
  OBVIOUS
<1>4. \A y \in T : ~ (y < x)
  BY <1>2, <1>3
<1>5. \A y \in T : x <= y
  <2> HIDE DEF R
  <2> QED BY <1>4
<1> HIDE DEF R
<1> QED BY <1>5

-----------------------------------------------------------------------------
(* Type correctness.                                                       *)

\* What the list of leftovers holds was listed with a suffix.
Typed == TypeOK /\ \A p \in Procs : todo[p] \subseteq Orphans(snap[p])

\* Whatever the answer, the count of failing calls stays within its bound,
\* and only a call that Docker accepts takes effect.
LEMMA AnswerMeans ==
  ASSUME NEW p, NEW legal, NEW err, NEW hit, Answer(p, legal, err, hit)
  PROVE  /\ faults \in 0..MaxFaults => faults' \in 0..MaxFaults
         /\ hit => legal
BY BoundAssumption DEF Answer

LEMMA TypedInit == Init => Typed
BY IdsAssumption, BoundAssumption
   DEF Init, Typed, TypeOK, Gone, NoPlan, Plan, NoSnap, PCs, SwapPcs, UndoPcs, Orphans

\* Docker's part of the type invariant.
DockerOK == nameOf \in [Ids -> Nat \cup {Gone}] /\ run \subseteq Ids /\ sick \subseteq Ids

\* Stopping, starting, removing or renaming a container of the service, or
\* doing nothing, keeps Docker's part well typed.
LEMMA DockerSteps ==
  ASSUME DockerOK, NEW c \in Ids
  PROVE  /\ Stop(c) => DockerOK'
         /\ Start(c) => DockerOK'
         /\ Remove(c) => DockerOK'
         /\ \A d \in Nat : Rename(c, d) => DockerOK'
BY DEF DockerOK, Stop, Start, Remove, Rename, docker, Gone

LEMMA DockerIdle == DockerOK /\ UNCHANGED docker => DockerOK'
BY DEF DockerOK, docker

LEMMA TypedStep ==
  ASSUME Typed, [Next]_vars
  PROVE  Typed'
<1> USE BoundAssumption, FlagAssumption
<1> DEFINE Rest == /\ proven' \subseteq Ids /\ wanted' \in BOOLEAN
                   /\ faults' \in 0..MaxFaults /\ crashes' \in 0..MaxCrashes
           Minds == /\ pc' \in [Procs -> PCs]
                    /\ snap' \in [Procs -> [Ids -> Nat \cup {Gone}]]
                    /\ todo' \in [Procs -> SUBSET Ids]
                    /\ plans' \in [Procs -> SUBSET Plan]
                    /\ cur' \in [Procs -> Plan]
                    /\ new' \in [Procs -> Ids \cup {NoId}]
                    /\ expired' \in [Procs -> BOOLEAN]
                    /\ journal' \in [Procs -> {"none", "bad", "applied"}]
           Todo == \A p \in Procs : todo'[p] \subseteq Orphans(snap'[p])
           Good == DockerOK' /\ Rest /\ Minds /\ Todo
<1>0. SUFFICES Good
  BY DEF Typed, TypeOK, DockerOK, Orphans
<1>D. DockerOK
  BY DEF Typed, TypeOK, DockerOK
<1>R. ASSUME NEW p \in Procs, NEW where \in PCs, Return(p) \/ Proceed(p, where)
      PROVE  /\ pc' \in [Procs -> PCs] /\ cur' \in [Procs -> Plan]
             /\ new' \in [Procs -> Ids \cup {NoId}] /\ expired' \in [Procs -> BOOLEAN]
  <2>1. NoPlan \in Plan BY DEF NoPlan, Plan
  <2>2. "next" \in PCs BY DEF PCs
  <2>3. CASE Return(p)
    <3>1. pc' \in [Procs -> PCs] /\ cur' \in [Procs -> Plan]
      BY <2>1, <2>2, <2>3 DEF Return, Goto, Typed, TypeOK
    <3>2. new' \in [Procs -> Ids \cup {NoId}] /\ expired' \in [Procs -> BOOLEAN]
      BY <2>3 DEF Return, Typed, TypeOK
    <3> QED BY <3>1, <3>2
  <2>4. CASE Proceed(p, where)
    BY <2>4 DEF Proceed, Goto, Typed, TypeOK
  <2> QED BY <1>R, <2>3, <2>4
<1>T. ASSUME UNCHANGED <<snap, todo>> PROVE Todo
  BY <1>T DEF Typed
<1>1. ASSUME NEW p \in Procs, StartCycle(p) PROVE Good
  <2>1. DockerOK' BY <1>1, <1>D, DockerIdle DEF StartCycle
  <2>2. Rest BY <1>1, AnswerMeans DEF StartCycle, Typed, TypeOK, env
  <2>3. CASE UNCHANGED <<snap, todo>>
    <3>1. Minds BY <1>1, <2>3 DEF StartCycle, Typed, TypeOK, Goto, PCs
    <3> QED BY <2>1, <2>2, <2>3, <3>1, <1>T
  <2>4. CASE /\ snap' = [snap EXCEPT ![p] = nameOf]
             /\ todo' = [todo EXCEPT ![p] = Orphans(nameOf)]
    <3>1. Orphans(nameOf) \subseteq Ids BY DEF Orphans
    <3>2. Minds BY <1>1, <2>4, <3>1 DEF StartCycle, Typed, TypeOK, Goto, PCs
    <3>3. Todo BY <2>4 DEF Typed, TypeOK
    <3> QED BY <2>1, <2>2, <3>2, <3>3
  <2> QED BY <1>1, <2>3, <2>4 DEF StartCycle
<1>2. ASSUME NEW p \in Procs, Reconcile(p) PROVE Good
  <2>1. PICK c \in todo[p] : RemoveOrphan(p, c) \/ RestoreOrphan(p, c)
    BY <1>2 DEF Reconcile
  <2>2. c \in Ids /\ snap[p][c] - 1 \in Nat
    BY <2>1 DEF Typed, TypeOK, Orphans, Gone
  <2>3. DockerOK'
    BY <2>1, <2>2, <1>D, DockerSteps, DockerIdle DEF RemoveOrphan, RestoreOrphan
  <2>4. Rest
    BY <1>2, <2>1, AnswerMeans DEF Reconcile, RemoveOrphan, RestoreOrphan, Typed, TypeOK
  <2>5. Found(c) \in Plan BY <2>2 DEF Found, Plan
  <2>6. pc' \in [Procs -> PCs] /\ cur' \in [Procs -> Plan]
    BY <2>1, <2>5 DEF RemoveOrphan, RestoreOrphan, Typed, TypeOK, Goto, PCs
  <2>7. todo' = [todo EXCEPT ![p] = @ \ {c}]
    BY <2>1 DEF RemoveOrphan, RestoreOrphan
  <2>8. Minds BY <1>2, <2>6, <2>7 DEF Reconcile, Typed, TypeOK
  <2>9. Todo BY <1>2, <2>7 DEF Reconcile, Typed, TypeOK
  <2> QED BY <2>3, <2>4, <2>8, <2>9
<1>3. ASSUME NEW p \in Procs, StartRestored(p) PROVE Good
  <2>0. PICK err \in BOOLEAN, hit \in BOOLEAN :
           /\ Answer(p, CanStart(cur[p].id), err, hit)
           /\ IF hit THEN Start(cur[p].id) ELSE UNCHANGED docker
    BY <1>3 DEF StartRestored
  <2>1. DockerOK'
    BY <2>0, <1>D, AnswerMeans, DockerSteps, DockerIdle DEF CanStart, Exists
  <2>2. Rest BY <1>3, <2>0, AnswerMeans DEF StartRestored, Typed, TypeOK
  <2>3. Minds /\ Todo BY <1>3 DEF StartRestored, Typed, TypeOK, Goto, NoPlan, Plan, PCs
  <2> QED BY <2>1, <2>2, <2>3
<1>4. ASSUME NEW p \in Procs, Discover(p) PROVE Good
  <2>1. DockerOK' BY <1>4, <1>D, DockerIdle DEF Discover
  <2>2. Rest BY <1>4, AnswerMeans DEF Discover, Typed, TypeOK
  <2>3. \A due \in SUBSET {c \in Live : nameOf[c] < MaxDepth} : PlansFor(due) \subseteq Plan
    <3> SUFFICES ASSUME NEW c \in Live
                 PROVE  [id |-> c, depth |-> nameOf[c], running |-> c \in run] \in Plan
      BY DEF PlansFor
    <3>1. c \in Ids /\ nameOf[c] \in Nat BY DEF Live, Typed, TypeOK
    <3>2. (c \in run) \in BOOLEAN OBVIOUS
    <3> HIDE DEF Typed
    <3> QED BY <3>1, <3>2, Zenon DEF Plan
  <2>4. plans' \in [Procs -> SUBSET Plan]
    BY <1>4, <2>3 DEF Discover, Typed, TypeOK
  <2>5. Minds /\ Todo
    BY <1>4, <2>4 DEF Discover, Typed, TypeOK, Goto, NoSnap, PCs
  <2> QED BY <2>1, <2>2, <2>5
<1>5. ASSUME NEW p \in Procs, EndCycle(p) PROVE Good
  <2>1. DockerOK' BY <1>5, <1>D, DockerIdle DEF EndCycle
  <2>2. Rest BY <1>5, AnswerMeans DEF EndCycle, Typed, TypeOK, env
  <2>3. Minds /\ Todo BY <1>5 DEF EndCycle, Typed, TypeOK, Goto, work, PCs
  <2> QED BY <2>1, <2>2, <2>3
<1>6. ASSUME NEW p \in Procs, Pull(p) PROVE Good
  <2>1. DockerOK' BY <1>6, <1>D, DockerIdle DEF Pull
  <2>2. Rest BY <1>6, AnswerMeans DEF Pull, Typed, TypeOK, env
  <2>3. Minds /\ Todo BY <1>6 DEF Pull, Typed, TypeOK, Goto, AfterPull, PCs
  <2> QED BY <2>1, <2>2, <2>3
<1>7. ASSUME NEW p \in Procs, StopOld(p) PROVE Good
  <2>0. PICK err \in BOOLEAN, hit \in BOOLEAN :
           /\ Answer(p, CanStop(cur[p].id), err, hit)
           /\ IF hit THEN Stop(cur[p].id) ELSE UNCHANGED docker
    BY <1>7 DEF StopOld
  <2>1. DockerOK'
    BY <2>0, <1>D, AnswerMeans, DockerSteps, DockerIdle DEF CanStop, Exists
  <2>2. Rest BY <1>7, <2>0, AnswerMeans DEF StopOld, Typed, TypeOK
  <2>3. "rename" \in PCs BY DEF PCs
  <2>4. Return(p) \/ Proceed(p, "rename") BY <1>7 DEF StopOld
  <2>5. Minds BY <1>7, <2>3, <2>4, <1>R DEF StopOld, Typed, TypeOK
  <2> QED BY <1>7, <2>1, <2>2, <2>5, <1>T DEF StopOld
<1>8. ASSUME NEW p \in Procs, RenameOld(p) PROVE Good
  <2>0. PICK err \in BOOLEAN, hit \in BOOLEAN :
           /\ Answer(p, CanRename(cur[p].id, TmpName(p)), err, hit)
           /\ IF hit THEN Rename(cur[p].id, TmpName(p)) ELSE UNCHANGED docker
    BY <1>8 DEF RenameOld
  <2>1. TmpName(p) \in Nat
    BY DEF TmpName, Plan, Typed, TypeOK
  <2>2. DockerOK'
    BY <2>0, <2>1, <1>D, AnswerMeans, DockerSteps, DockerIdle DEF CanRename, Exists
  <2>3. Rest BY <1>8, <2>0, AnswerMeans DEF RenameOld, Typed, TypeOK
  <2>4. "create" \in PCs BY DEF PCs, SwapPcs
  <2>5. Return(p) \/ Proceed(p, "create") BY <1>8 DEF RenameOld
  <2>6. Minds BY <1>8, <2>4, <2>5, <1>R DEF RenameOld, Typed, TypeOK
  <2> QED BY <1>8, <2>2, <2>3, <2>6, <1>T DEF RenameOld
<1>9. ASSUME NEW p \in Procs, CreateNew(p) PROVE Good
  <2>1. PICK err \in BOOLEAN, hit \in BOOLEAN, c \in Fresh :
           /\ Answer(p, Holders(OldName(p)) = {}, err, hit)
           /\ IF hit
                THEN /\ nameOf' = [nameOf EXCEPT ![c] = OldName(p)]
                     /\ run' = run \ {c} /\ sick' = sick \ {c} /\ proven' = proven \ {c}
                ELSE UNCHANGED <<docker, proven>>
           /\ IF err
                THEN Goto(p, "restore") /\ UNCHANGED new
                ELSE Goto(p, "attach") /\ new' = [new EXCEPT ![p] = c]
    BY <1>9 DEF CreateNew
  <2>2. OldName(p) \in Nat /\ c \in Ids
    BY DEF OldName, Plan, Fresh, Typed, TypeOK
  <2>3. DockerOK' BY <2>1, <2>2, <1>D DEF DockerOK, docker
  <2>4. Rest BY <1>9, <2>1, AnswerMeans DEF CreateNew, Typed, TypeOK
  <2>5. {"restore", "attach"} \subseteq PCs BY DEF PCs, SwapPcs, UndoPcs
  <2>6. pc' \in [Procs -> PCs] /\ new' \in [Procs -> Ids \cup {NoId}]
    <3>1. CASE err BY <2>1, <2>5, <3>1 DEF Typed, TypeOK, Goto
    <3>2. CASE ~err BY <2>1, <2>2, <2>5, <3>2 DEF Typed, TypeOK, Goto
    <3> QED BY <3>1, <3>2
  <2>7. Minds BY <1>9, <2>6 DEF CreateNew, Typed, TypeOK
  <2> QED BY <1>9, <2>3, <2>4, <2>7, <1>T DEF CreateNew
<1>10. ASSUME NEW p \in Procs, AttachNetworks(p) PROVE Good
  <2>1. DockerOK' BY <1>10, <1>D, DockerIdle DEF AttachNetworks
  <2>2. Rest BY <1>10, AnswerMeans DEF AttachNetworks, Typed, TypeOK, env
  <2>3. Minds /\ Todo BY <1>10 DEF AttachNetworks, Typed, TypeOK, Goto, AfterAttach, work, PCs, SwapPcs, UndoPcs
  <2> QED BY <2>1, <2>2, <2>3
<1>11. ASSUME NEW p \in Procs, StartNew(p) PROVE Good
  <2>0. PICK err \in BOOLEAN, hit \in BOOLEAN :
           /\ Answer(p, CanStart(new[p]), err, hit)
           /\ IF hit THEN Start(new[p]) ELSE UNCHANGED docker
    BY <1>11 DEF StartNew
  <2>1. DockerOK'
    BY <2>0, <1>D, AnswerMeans, DockerSteps, DockerIdle DEF CanStart, Exists
  <2>2. Rest BY <1>11, <2>0, AnswerMeans DEF StartNew, Typed, TypeOK
  <2>3. Minds /\ Todo BY <1>11 DEF StartNew, Typed, TypeOK, Goto, work, PCs, SwapPcs, UndoPcs
  <2> QED BY <2>1, <2>2, <2>3
<1>12. ASSUME NEW p \in Procs, GatePass(p) PROVE Good
  <2>1. DockerOK' BY <1>12, <1>D, DockerIdle DEF GatePass
  <2>2. Rest BY <1>12 DEF GatePass, env, Typed, TypeOK
  <2>3. Minds /\ Todo BY <1>12 DEF GatePass, Typed, TypeOK, Goto, work, PCs, SwapPcs
  <2> QED BY <2>1, <2>2, <2>3
<1>13. ASSUME NEW p \in Procs, GateFail(p) PROVE Good
  <2>1. DockerOK' BY <1>13, <1>D DEF GateFail, DockerOK
  <2>2. Rest BY <1>13 DEF GateFail, Typed, TypeOK
  <2>3. Blame(p) \in {"none", "bad", "applied"} BY DEF Blame, Typed, TypeOK
  <2>4. Minds /\ Todo BY <1>13, <2>3 DEF GateFail, Typed, TypeOK, Goto, PCs, UndoPcs
  <2> QED BY <2>1, <2>2, <2>4
<1>14. ASSUME NEW p \in Procs, Commit(p) PROVE Good
  <2>1. PICK err \in BOOLEAN, hit \in BOOLEAN :
           /\ Answer(p, \E c \in Holders(TmpName(p)) : CanRemove(c), err, hit)
           /\ IF hit THEN \E c \in Holders(TmpName(p)) : Remove(c) ELSE UNCHANGED docker
    BY <1>14 DEF Commit
  <2>2. DockerOK' BY <2>1, <1>D, DockerSteps, DockerIdle DEF Holders
  <2>3. faults' \in 0..MaxFaults BY <2>1, AnswerMeans DEF Typed, TypeOK
  <2>4. Rest BY <1>14, <2>3 DEF Commit, Typed, TypeOK
  <2>5. Minds /\ Todo BY <1>14 DEF Commit, Typed, TypeOK, Goto, Return, NoPlan, Plan, PCs
  <2> QED BY <2>2, <2>4, <2>5
<1>15. ASSUME NEW p \in Procs, UndoStop(p) PROVE Good
  <2>0. PICK err \in BOOLEAN, hit \in BOOLEAN :
           /\ Answer(p, CanStop(new[p]), err, hit)
           /\ IF hit THEN Stop(new[p]) ELSE UNCHANGED docker
    BY <1>15 DEF UndoStop
  <2>1. DockerOK'
    BY <2>0, <1>D, AnswerMeans, DockerSteps, DockerIdle DEF CanStop, Exists
  <2>2. Rest BY <1>15, <2>0, AnswerMeans DEF UndoStop, Typed, TypeOK
  <2>3. Minds /\ Todo BY <1>15 DEF UndoStop, Typed, TypeOK, Goto, work, PCs, UndoPcs
  <2> QED BY <2>1, <2>2, <2>3
<1>16. ASSUME NEW p \in Procs, UndoRemove(p) PROVE Good
  <2>0. PICK err \in BOOLEAN, hit \in BOOLEAN :
           /\ Answer(p, CanRemove(new[p]), err, hit)
           /\ IF hit THEN Remove(new[p]) ELSE UNCHANGED docker
    BY <1>16 DEF UndoRemove
  <2>1. DockerOK'
    BY <2>0, <1>D, AnswerMeans, DockerSteps, DockerIdle DEF CanRemove, Exists
  <2>2. Rest BY <1>16, <2>0, AnswerMeans DEF UndoRemove, Typed, TypeOK
  <2>3. Minds /\ Todo BY <1>16 DEF UndoRemove, Typed, TypeOK, Goto, work, PCs, UndoPcs
  <2> QED BY <2>1, <2>2, <2>3
<1>17. ASSUME NEW p \in Procs, Restore(p) PROVE Good
  <2>1. PICK err \in BOOLEAN, hit \in BOOLEAN :
           /\ Answer(p, \E c \in Holders(TmpName(p)) : CanRename(c, OldName(p)), err, hit)
           /\ IF hit THEN \E c \in Holders(TmpName(p)) : Rename(c, OldName(p))
                     ELSE UNCHANGED docker
    BY <1>17 DEF Restore
  <2>2. OldName(p) \in Nat BY DEF OldName, Plan, Typed, TypeOK
  <2>3. DockerOK' BY <2>1, <2>2, <1>D, DockerSteps, DockerIdle DEF Holders
  <2>4. faults' \in 0..MaxFaults BY <2>1, AnswerMeans DEF Typed, TypeOK
  <2>5. Rest BY <1>17, <2>4 DEF Restore, Typed, TypeOK
  <2>6. "restartold" \in PCs BY DEF PCs, UndoPcs
  <2>7. Return(p) \/ Proceed(p, "restartold") BY <1>17 DEF Restore
  <2>8. Minds BY <1>17, <2>6, <2>7, <1>R DEF Restore, Typed, TypeOK
  <2> QED BY <1>17, <2>3, <2>5, <2>8, <1>T DEF Restore
<1>18. ASSUME NEW p \in Procs, RestartOld(p) PROVE Good
  <2>0. PICK err \in BOOLEAN, hit \in BOOLEAN :
           /\ Answer(p, CanStart(cur[p].id), err, hit)
           /\ IF hit THEN Start(cur[p].id) ELSE UNCHANGED docker
    BY <1>18 DEF RestartOld
  <2>1. DockerOK'
    BY <2>0, <1>D, AnswerMeans, DockerSteps, DockerIdle DEF CanStart, Exists
  <2>2. Rest BY <1>18, <2>0, AnswerMeans DEF RestartOld, Typed, TypeOK
  <2>3. Minds /\ Todo BY <1>18 DEF RestartOld, Typed, TypeOK, Goto, Return, Proceed, NoPlan, Plan, PCs, SwapPcs, UndoPcs, work
  <2> QED BY <2>1, <2>2, <2>3
<1>19. ASSUME NEW p \in Procs, Expire(p) PROVE Good
  BY <1>19, <1>D, DockerIdle DEF Expire, env, Typed, TypeOK
<1>20. ASSUME NEW S \in SUBSET Procs, Forget(S) PROVE Minds /\ Todo
  BY <1>20 DEF Forget, Typed, TypeOK, NoSnap, NoPlan, Plan, PCs, Gone
<1>21. ASSUME NEW p \in Procs, Crash(p) PROVE Good
  <2>1. DockerOK' /\ Rest BY <1>21, <1>D, DockerIdle DEF Crash, Typed, TypeOK
  <2>2. Minds /\ Todo BY <1>20, <1>21 DEF Crash
  <2> QED BY <2>1, <2>2
<1>22. ASSUME Reboot PROVE Good
  <2>1. DockerOK' /\ Rest BY <1>22, <1>D DEF Reboot, DockerOK, Live, Typed, TypeOK
  <2>2. Minds /\ Todo BY <1>20, <1>22 DEF Reboot
  <2> QED BY <2>1, <2>2
<1>23. ASSUME NEW p \in Procs, Restart(p) PROVE Good
  BY <1>23, <1>D, DockerIdle DEF Restart, Goto, work, env, Typed, TypeOK, PCs
<1>24. CASE UNCHANGED vars
  BY <1>24, <1>D, DockerIdle DEF vars, mind, env, Typed, TypeOK
<1> HIDE DEF Rest, Minds, Todo
<1> QED
  BY <1>1, <1>2, <1>3, <1>4, <1>5, <1>6, <1>7, <1>8, <1>9, <1>10, <1>11, <1>12, <1>13,
     <1>14, <1>15, <1>16, <1>17, <1>18, <1>19, <1>21, <1>22, <1>23, <1>24
     DEF Next, Cycle

\* Recreate is type correct.
THEOREM TypeCorrect == Spec => []TypeOK
<1>1. Typed /\ [Next]_vars => Typed'
  BY TypedStep
<1>2. Typed => TypeOK
  BY DEF Typed
<1> QED BY TypedInit, <1>1, <1>2, PTL DEF Spec

-----------------------------------------------------------------------------
(* No interruption and no failing call ever loses a service.               *)

\* A listed container the repair cannot take for a superseded one.
Bottom(p, c) == snap[p][c] # Gone /\ (snap[p][c] = 0 \/ ~Superseded(p, c))

RepairPcs  == {"reconcile", "heal"}
RenamedPcs == SwapPcs \cup {"undostop", "undoremove", "restore"}
PlacedPcs  == SwapPcs \ {"create"}

\* During the repair a bottom container exists; once the old container is
\* renamed it keeps its temporary name until rollback's rename; a
\* replacement is another container, and in place until rollback removes it.
Safe(p) ==
    /\ pc[p] \in RepairPcs => \E c \in Ids : nameOf[c] # Gone /\ Bottom(p, c)
    /\ pc[p] \in RenamedPcs => cur[p].id \in Ids /\ nameOf[cur[p].id] = TmpName(p)
    /\ pc[p] \in PlacedPcs \cup {"undostop", "undoremove"} =>
         new[p] \in Ids /\ new[p] # cur[p].id
    /\ pc[p] \in PlacedPcs => nameOf[new[p]] = OldName(p)

Kept == Typed /\ NeverLost /\ \A p \in Procs : Safe(p)

\* Among any containers there are, one has the fewest suffixes.
LEMMA SomeBottom ==
  ASSUME Typed, Live # {}
  PROVE  \E c \in Live : \A d \in Live : nameOf[c] <= nameOf[d]
<1> DEFINE T == {nameOf[c] : c \in Live}
<1>1. T \in SUBSET Nat /\ T # {}
  BY DEF Live, Typed, TypeOK
<1>2. PICK n \in T : \A m \in T : n <= m
  <2> HIDE DEF T
  <2> QED BY <1>1, LeastNat
<1> QED BY <1>2

\* A step that renames nothing and leaves a process where its obligations are
\* no greater keeps it safe.
LEMMA SafeFrame ==
  ASSUME NEW p \in Procs, Safe(p), nameOf' = nameOf, cur'[p] = cur[p], new'[p] = new[p],
         snap'[p] = snap[p],
         pc'[p] \in RepairPcs => pc[p] \in RepairPcs,
         pc'[p] \in RenamedPcs => pc[p] \in RenamedPcs,
         pc'[p] \in PlacedPcs \cup {"undostop", "undoremove"} =>
            pc[p] \in PlacedPcs \cup {"undostop", "undoremove"},
         pc'[p] \in PlacedPcs => pc[p] \in PlacedPcs
  PROVE  Safe(p)'
BY DEF Safe, Bottom, Superseded, TmpName, OldName

\* Where a process has no obligations.
LEMMA SafeAtEase ==
  ASSUME NEW p \in Procs,
         pc'[p] \in {"idle", "discover", "next", "stop", "rename", "restartold", "down"}
  PROVE  Safe(p)'
BY DEF Safe, RepairPcs, RenamedPcs, PlacedPcs, SwapPcs

LEMMA KeptStep ==
  ASSUME SingleFlight, Kept, [Next]_vars
  PROVE  Kept'
<1> USE DEF Kept, NeverLost
<1>0. Typed' BY TypedStep
<1>1. SUFFICES NeverLost' /\ \A p \in Procs : Safe(p)'
  BY <1>0
<1>2. Typed /\ TypeOK BY DEF Typed
<1>3. nameOf' = nameOf => NeverLost' BY DEF Live
<1>4. ASSUME NEW p \in Procs, Safe(p)' PROVE \A q \in Procs : Safe(q)'
  BY <1>4 DEF SingleFlight
<1> DEFINE Good == NeverLost' /\ \A q \in Procs : Safe(q)'
<1>5. ASSUME NEW p \in Procs, nameOf' = nameOf, Safe(p)' PROVE Good
  BY <1>3, <1>4, <1>5
<1>6. ASSUME NEW p \in Procs, NEW c \in Ids, nameOf'[c] # Gone, Safe(p)' PROVE Good
  BY <1>4, <1>6 DEF Live
<1>7. USE DEF RepairPcs, RenamedPcs, PlacedPcs, SwapPcs
<1>8. ASSUME NEW p \in Procs, StartCycle(p) PROVE Good
  <2>1. nameOf' = nameOf BY <1>8 DEF StartCycle, docker
  <2>2. CASE Goto(p, "discover")
    BY <2>1, <2>2, <1>2, <1>5, SafeAtEase DEF Goto, TypeOK
  <2>3. CASE Goto(p, "reconcile") /\ snap' = [snap EXCEPT ![p] = nameOf]
    <3>1. PICK c \in Live : \A d \in Live : nameOf[c] <= nameOf[d]
      BY <1>2, SomeBottom
    <3>2. snap'[p] = nameOf /\ pc'[p] = "reconcile" BY <2>3, <1>2 DEF Goto, TypeOK
    <3>3. c \in Ids /\ nameOf[c] \in Nat /\ nameOf[c] # Gone
      BY <1>2 DEF Live, TypeOK
    <3>4. nameOf[c] = 0 \/ ~Superseded(p, c)'
      <4>1. ASSUME NEW x \in Ids, nameOf[x] = nameOf[c] - 1, nameOf[c] # 0 PROVE FALSE
        <5>1. x \in Live BY <4>1, <3>3 DEF Live, Gone
        <5> QED BY <5>1, <4>1, <3>1, <3>3
      <4> QED BY <4>1, <3>2 DEF Superseded
    <3>5. Bottom(p, c)' BY <3>2, <3>3, <3>4 DEF Bottom
    <3>6. Safe(p)' BY <3>2, <3>3, <3>5, <2>1 DEF Safe
    <3> QED BY <3>6, <2>1, <1>5
  <2> QED BY <1>8, <2>2, <2>3 DEF StartCycle
<1>9. ASSUME NEW p \in Procs, Reconcile(p) PROVE Good
  <2>1. PICK c \in todo[p] : RemoveOrphan(p, c) \/ RestoreOrphan(p, c)
    BY <1>9 DEF Reconcile
  <2>2. c \in Ids /\ snap[p][c] \in Nat /\ snap[p][c] > 0
    BY <1>2 DEF Typed, TypeOK, Orphans, Gone
  <2>3. PICK b \in Ids : nameOf[b] # Gone /\ Bottom(p, b)
    BY <1>9 DEF Reconcile, Safe
  <2>4. pc'[p] \in RepairPcs /\ snap' = snap
    BY <1>9, <2>1, <1>2 DEF Reconcile, RemoveOrphan, RestoreOrphan, Goto, TypeOK
  <2>5. Bottom(p, b)'
    BY <2>3, <2>4 DEF Bottom, Superseded
  <2>6. nameOf'[b] # Gone
    <3>1. CASE RemoveOrphan(p, c)
      <4>1. b # c BY <3>1, <2>2, <2>3 DEF RemoveOrphan, Bottom
      <4>2. nameOf' = nameOf \/ nameOf' = [nameOf EXCEPT ![c] = Gone]
        BY <3>1 DEF RemoveOrphan, Remove, docker
      <4> QED BY <4>1, <4>2, <2>3, <1>2 DEF TypeOK
    <3>2. CASE RestoreOrphan(p, c)
      <4>1. \/ nameOf' = nameOf
            \/ nameOf' = [nameOf EXCEPT ![c] = snap[p][c] - 1]
        BY <3>2 DEF RestoreOrphan, Rename, docker
      <4> QED BY <4>1, <2>2, <2>3, <1>2 DEF TypeOK, Gone
    <3> QED BY <2>1, <3>1, <3>2
  <2>7. Safe(p)'
    <3>1. pc'[p] \notin RenamedPcs /\ pc'[p] \notin PlacedPcs \cup {"undostop", "undoremove"}
      BY <2>4
    <3> QED BY <3>1, <2>5, <2>6 DEF Safe
  <2> QED BY <2>6, <2>7, <1>6
<1>10. ASSUME NEW p \in Procs, StartRestored(p) PROVE Good
  <2>1. nameOf' = nameOf BY <1>10 DEF StartRestored, Start, docker
  <2>2. pc[p] = "heal" /\ pc'[p] = "reconcile" /\ snap' = snap
    BY <1>10, <1>2 DEF StartRestored, Goto, TypeOK
  <2>3. Safe(p)' BY <2>1, <2>2 DEF Safe, Bottom, Superseded
  <2> QED BY <2>1, <2>3, <1>5
<1>11. ASSUME NEW p \in Procs, Discover(p) \/ EndCycle(p) \/ Pull(p) PROVE Good
  <2>1. nameOf' = nameOf BY <1>11 DEF Discover, EndCycle, Pull, docker
  <2>2. pc'[p] \in {"idle", "next", "stop", "rename"}
    <3>1. \/ pc' = pc /\ pc[p] = "next"
          \/ \E where \in {"idle", "next", "stop", "rename"} : Goto(p, where)
      BY <1>11 DEF Discover, EndCycle, Pull, AfterPull
    <3> QED BY <3>1, <1>2 DEF Goto, TypeOK
  <2>3. Safe(p)' BY <2>2, SafeAtEase
  <2> QED BY <2>1, <2>3, <1>5
<1>12. ASSUME NEW p \in Procs, StopOld(p) \/ RestartOld(p) PROVE Good
  <2>1. nameOf' = nameOf BY <1>12 DEF StopOld, RestartOld, Stop, Start, docker
  <2>2. pc'[p] \in {"next", "rename"}
    BY <1>12, <1>2 DEF StopOld, RestartOld, Return, Proceed, Goto, TypeOK
  <2>3. Safe(p)' BY <2>2, SafeAtEase
  <2> QED BY <2>1, <2>3, <1>5
<1>13. ASSUME NEW p \in Procs, RenameOld(p) PROVE Good
  <2>1. PICK err \in BOOLEAN, hit \in BOOLEAN :
           /\ Answer(p, CanRename(cur[p].id, TmpName(p)), err, hit)
           /\ IF hit THEN Rename(cur[p].id, TmpName(p)) ELSE UNCHANGED docker
           /\ IF err THEN Return(p) ELSE Proceed(p, "create")
    BY <1>13 DEF RenameOld
  <2>2. TmpName(p) \in Nat BY <1>2 DEF TmpName, Plan, TypeOK
  <2>3. CASE ~hit
    <3>1. err /\ nameOf' = nameOf BY <2>1, <2>3 DEF Answer, docker
    <3>2. pc'[p] = "next" BY <3>1, <2>1, <1>2 DEF Return, Goto, TypeOK
    <3> QED BY <3>1, <3>2, <1>5, SafeAtEase
  <2>4. CASE hit
    <3>1. cur[p].id \in Ids BY <2>1, <2>4, AnswerMeans DEF CanRename, Exists
    <3>2. nameOf'[cur[p].id] = TmpName(p) BY <2>1, <2>4, <3>1, <1>2 DEF Rename, TypeOK
    <3>3. CASE err
      <4>1. pc'[p] = "next" BY <3>3, <2>1, <1>2 DEF Return, Goto, TypeOK
      <4> QED BY <4>1, <3>1, <3>2, <2>2, <1>6, SafeAtEase DEF Gone
    <3>4. CASE ~err
      <4>1. pc'[p] = "create" /\ cur' = cur BY <3>4, <2>1, <1>2 DEF Proceed, Goto, TypeOK
      <4>2. Safe(p)' BY <4>1, <3>1, <3>2 DEF Safe, TmpName
      <4> QED BY <4>2, <3>1, <3>2, <2>2, <1>6 DEF Gone
    <3> QED BY <3>3, <3>4
  <2> QED BY <2>3, <2>4
<1>14. ASSUME NEW p \in Procs, CreateNew(p) PROVE Good
  <2>1. PICK err \in BOOLEAN, hit \in BOOLEAN, c \in Fresh :
           /\ Answer(p, Holders(OldName(p)) = {}, err, hit)
           /\ IF hit
                THEN nameOf' = [nameOf EXCEPT ![c] = OldName(p)]
                ELSE UNCHANGED nameOf
           /\ IF err
                THEN Goto(p, "restore") /\ UNCHANGED new
                ELSE Goto(p, "attach") /\ new' = [new EXCEPT ![p] = c]
    BY <1>14 DEF CreateNew, docker
  <2>2. c \in Ids /\ c # cur[p].id BY DEF Fresh
  <2>3. cur[p].id \in Ids /\ nameOf[cur[p].id] = TmpName(p) /\ cur' = cur
    BY <1>14 DEF CreateNew, Safe
  <2>4. nameOf'[cur[p].id] = TmpName(p) /\ TmpName(p) # Gone
    BY <2>1, <2>2, <2>3, <1>2 DEF TypeOK, TmpName, Gone, Plan
  <2>5. Safe(p)'
    <3>1. CASE err
      <4>1. pc'[p] = "restore" BY <3>1, <2>1, <1>2 DEF Goto, TypeOK
      <4> QED BY <4>1, <2>3, <2>4 DEF Safe, TmpName
    <3>2. CASE ~err
      <4>1. pc'[p] = "attach" /\ new'[p] = c BY <3>2, <2>1, <1>2 DEF Goto, TypeOK
      <4>2. nameOf'[c] = OldName(p) BY <3>2, <2>1, <2>2, <1>2 DEF Answer, TypeOK
      <4> QED BY <4>1, <4>2, <2>2, <2>3, <2>4 DEF Safe, TmpName, OldName
    <3> QED BY <3>1, <3>2
  <2> QED BY <2>3, <2>4, <2>5, <1>6
<1>15. ASSUME NEW p \in Procs, AttachNetworks(p) \/ StartNew(p) \/ GatePass(p)
                               \/ GateFail(p) \/ UndoStop(p)
       PROVE Good
  <2>1. nameOf' = nameOf
    BY <1>15 DEF AttachNetworks, StartNew, GatePass, GateFail, UndoStop, Start, Stop, docker
  <2>2. cur' = cur /\ new' = new /\ snap' = snap
    BY <1>15 DEF AttachNetworks, StartNew, GatePass, GateFail, UndoStop, work
  <2>3. \/ pc[p] \in PlacedPcs /\ pc'[p] \in PlacedPcs \cup {"undostop"}
        \/ pc[p] = "undostop" /\ pc'[p] = "undoremove"
    BY <1>15, <1>2
       DEF AttachNetworks, StartNew, GatePass, GateFail, UndoStop, Goto, AfterAttach, TypeOK
  <2>4. Safe(p)' BY <2>1, <2>2, <2>3, SafeFrame
  <2> QED BY <2>1, <2>4, <1>5
<1>16. ASSUME NEW p \in Procs, Commit(p) PROVE Good
  <2>1. /\ new[p] \in Ids /\ nameOf[new[p]] = OldName(p) /\ OldName(p) # TmpName(p)
        /\ OldName(p) # Gone
    BY <1>16, <1>2 DEF Commit, Safe, OldName, TmpName, TypeOK, Plan, Gone
  <2>2. \/ nameOf' = nameOf
        \/ \E c \in Holders(TmpName(p)) : nameOf' = [nameOf EXCEPT ![c] = Gone]
    BY <1>16 DEF Commit, Remove, docker
  <2>3. nameOf'[new[p]] # Gone BY <2>1, <2>2, <1>2 DEF Holders, TypeOK
  <2>4. pc'[p] = "next" BY <1>16, <1>2 DEF Commit, Return, Goto, TypeOK
  <2> QED BY <2>1, <2>3, <2>4, <1>6, SafeAtEase
<1>17. ASSUME NEW p \in Procs, UndoRemove(p) PROVE Good
  <2>1. /\ cur[p].id \in Ids /\ nameOf[cur[p].id] = TmpName(p)
        /\ new[p] # cur[p].id /\ TmpName(p) # Gone
    BY <1>17, <1>2 DEF UndoRemove, Safe, TmpName, TypeOK, Plan, Gone
  <2>2. nameOf' = nameOf \/ nameOf' = [nameOf EXCEPT ![new[p]] = Gone]
    BY <1>17 DEF UndoRemove, Remove, docker
  <2>3. nameOf'[cur[p].id] = TmpName(p) BY <2>1, <2>2, <1>2 DEF TypeOK
  <2>4. pc'[p] = "restore" /\ cur' = cur
    BY <1>17, <1>2 DEF UndoRemove, Goto, work, TypeOK
  <2>5. Safe(p)' BY <2>1, <2>3, <2>4 DEF Safe, TmpName
  <2> QED BY <2>1, <2>3, <2>5, <1>6
<1>18. ASSUME NEW p \in Procs, Restore(p) PROVE Good
  <2>1. /\ cur[p].id \in Ids /\ nameOf[cur[p].id] # Gone
        /\ OldName(p) # Gone
    BY <1>18, <1>2 DEF Restore, Safe, OldName, TmpName, TypeOK, Plan, Gone
  <2>2. \/ nameOf' = nameOf
        \/ \E c \in Ids : nameOf' = [nameOf EXCEPT ![c] = OldName(p)]
    BY <1>18 DEF Restore, Rename, Holders, docker
  <2>3. nameOf'[cur[p].id] # Gone BY <2>1, <2>2, <1>2 DEF TypeOK
  <2>4. pc'[p] \in {"next", "restartold"}
    BY <1>18, <1>2 DEF Restore, Return, Proceed, Goto, TypeOK
  <2> QED BY <2>1, <2>3, <2>4, <1>6, SafeAtEase
<1>19. ASSUME NEW p \in Procs, Expire(p) PROVE Good
  BY <1>19, <1>5, SafeFrame DEF Expire, docker
<1>20. ASSUME NEW p \in Procs, NEW S \in SUBSET Procs, p \in S, Forget(S), nameOf' = nameOf
       PROVE Good
  BY <1>20, <1>5, SafeAtEase DEF Forget
<1>21. ASSUME NEW p \in Procs, Crash(p) PROVE Good
  BY <1>20, <1>21 DEF Crash, docker
<1>22. ASSUME Reboot PROVE Good
  BY <1>20, <1>22, ProcsAssumption DEF Reboot
<1>23. ASSUME NEW p \in Procs, Restart(p) PROVE Good
  BY <1>23, <1>2, <1>5, SafeAtEase DEF Restart, Goto, docker, TypeOK
<1>24. ASSUME UNCHANGED vars PROVE Good
  <2>1. PICK p \in Procs : TRUE BY ProcsAssumption
  <2> QED BY <2>1, <1>24, <1>5, SafeFrame DEF vars, docker, mind
<1> HIDE DEF Good
<1>25. Good
  BY <1>8, <1>9, <1>10, <1>11, <1>12, <1>13, <1>14, <1>15, <1>16, <1>17, <1>18, <1>19,
     <1>21, <1>22, <1>23, <1>24 DEF Next, Cycle
<1> QED BY <1>25 DEF Good

LEMMA KeptInit == Init => Kept
<1> SUFFICES ASSUME Init PROVE Kept
  OBVIOUS
<1>1. NeverLost BY DEF Init, Live, Gone, NeverLost
<1>2. \A p \in Procs : Safe(p)
  BY DEF Init, Safe, RepairPcs, RenamedPcs, PlacedPcs, SwapPcs
<1> QED BY <1>1, <1>2, TypedInit DEF Kept

\* As long as a single process works on the containers, a service never loses
\* its last container, whatever fails and wherever the process dies.
THEOREM ServiceNeverLost ==
  ASSUME SingleFlight
  PROVE  Spec => []NeverLost
<1>1. Kept /\ [Next]_vars => Kept'
  BY KeptStep
<1>2. Kept => NeverLost
  BY DEF Kept
<1> QED BY KeptInit, <1>1, <1>2, PTL DEF Spec

-----------------------------------------------------------------------------
(* Only a sick replacement is held against its digest.                     *)

\* Until the gate speaks nothing has been recorded; what is watched was started;
\* and what was recorded as bad is sick.
Judged(p) ==
    /\ pc[p] \in {"stop", "rename"} \cup SwapPcs => journal[p] = "none"
    /\ pc[p] = "gate" => new[p] \in run
    /\ faults = 0 /\ journal[p] = "bad" /\ new[p] # NoId => new[p] \in sick

JudgedInv == Kept /\ \A p \in Procs : Judged(p)

\* A failing call is never uncounted.
LEMMA NoFaultYet ==
  ASSUME Typed, NEW p, NEW legal, NEW err, NEW hit, Answer(p, legal, err, hit), faults' = 0
  PROVE  faults = 0 /\ (err => ~hit) /\ (~err => hit)
BY BoundAssumption DEF Answer, Typed, TypeOK

LEMMA JudgedStep ==
  ASSUME SingleFlight, JudgedInv, [Next]_vars
  PROVE  JudgedInv'
<1>1. Kept' BY KeptStep DEF JudgedInv
<1>2. Typed /\ TypeOK /\ \A p \in Procs : Safe(p) /\ Judged(p)
  BY DEF JudgedInv, Kept, Typed
<1> DEFINE Good == \A q \in Procs : Judged(q)'
<1> SUFFICES Good
  BY <1>1 DEF JudgedInv
<1>3. ASSUME NEW p \in Procs, Judged(p)' PROVE Good
  BY <1>3 DEF SingleFlight
<1> HIDE DEF Good
\* Where a process is not watched, and nothing is newly blamed or cured.
<1>4. ASSUME NEW p \in Procs,
             pc'[p] \notin {"stop", "rename"} \cup SwapPcs \/
               (pc[p] \in {"stop", "rename"} \cup SwapPcs /\ journal'[p] = journal[p])
               \/ journal'[p] = "none",
             pc'[p] # "gate" \/ (pc[p] = "gate" /\ new'[p] = new[p] /\ run \subseteq run'),
             faults' = 0 => faults = 0,
             \/ journal'[p] # "bad"
             \/ new'[p] = NoId
             \/ journal'[p] = journal[p] /\ new'[p] = new[p] /\ sick \subseteq sick'
      PROVE  Good
  BY <1>2, <1>3, <1>4 DEF Judged
<1>5. ASSUME NEW p \in Procs, StartCycle(p) \/ Reconcile(p) \/ StartRestored(p) PROVE Good
  <2>1. sick \subseteq sick' /\ new' = new /\ journal' = journal
    BY <1>5 DEF StartCycle, Reconcile, RemoveOrphan, RestoreOrphan, StartRestored, Start, Rename,
       Remove, docker
  <2>2. pc'[p] \in {"discover", "reconcile", "heal"}
    BY <1>2, <1>5 DEF StartCycle, Reconcile, RemoveOrphan, RestoreOrphan, StartRestored, Goto, TypeOK
  <2>3. faults' = 0 => faults = 0
    BY <1>2, <1>5, NoFaultYet DEF StartCycle, Reconcile, RemoveOrphan, RestoreOrphan, StartRestored
  <2> QED BY <1>4, <2>1, <2>2, <2>3 DEF SwapPcs
<1>6. ASSUME NEW p \in Procs, Discover(p) \/ Pull(p) PROVE Good
  <2>1. journal'[p] = "none"
    BY <1>2, <1>6 DEF Discover, Pull, TypeOK
  <2>2. pc'[p] # "gate"
    BY <1>2, <1>6 DEF Discover, Pull, Goto, AfterPull, TypeOK
  <2>3. faults' = 0 => faults = 0
    BY <1>2, <1>6, NoFaultYet DEF Discover, Pull
  <2> QED BY <1>4, <2>1, <2>2, <2>3
<1>7. ASSUME NEW p \in Procs, EndCycle(p) \/ Restart(p) PROVE Good
  <2>1. pc'[p] = "idle" /\ UNCHANGED <<new, journal, sick, faults>>
    BY <1>2, <1>7 DEF EndCycle, Restart, Goto, TypeOK, docker, work, env
  <2> QED BY <1>4, <2>1 DEF SwapPcs
<1>8. ASSUME NEW p \in Procs, StopOld(p) \/ RenameOld(p) PROVE Good
  <2>1. journal' = journal /\ pc[p] \in {"stop", "rename"} /\ sick' = sick
    BY <1>8 DEF StopOld, RenameOld, Stop, Rename, docker
  <2>2. pc'[p] \in {"next", "rename", "create"}
    BY <1>2, <1>8 DEF StopOld, RenameOld, Return, Proceed, Goto, TypeOK
  <2>3. journal'[p] = "none"
    BY <1>2, <2>1 DEF Judged
  <2>4. faults' = 0 => faults = 0
    BY <1>2, <1>8, NoFaultYet DEF StopOld, RenameOld
  <2> QED BY <1>4, <2>2, <2>3, <2>4
<1>9. ASSUME NEW p \in Procs, CreateNew(p) PROVE Good
  <2>1. journal' = journal /\ pc[p] = "create"
    BY <1>9 DEF CreateNew
  <2>2. journal'[p] = "none"
    BY <1>2, <2>1 DEF Judged, SwapPcs
  <2>3. pc'[p] \in {"restore", "attach"}
    BY <1>2, <1>9 DEF CreateNew, Goto, TypeOK
  <2>4. faults' = 0 => faults = 0
    BY <1>2, <1>9, NoFaultYet DEF CreateNew
  <2> QED BY <1>4, <2>2, <2>3, <2>4
<1>10. ASSUME NEW p \in Procs, AttachNetworks(p) \/ GatePass(p) PROVE Good
  <2>1. pc[p] \in {"attach", "gate"} /\ journal' = journal
    BY <1>10 DEF AttachNetworks, GatePass, work
  <2>2. journal'[p] = "none"
    BY <1>2, <2>1 DEF Judged, SwapPcs
  <2>3. pc'[p] \in {"undostop", "start", "commit"}
    BY <1>2, <1>10 DEF AttachNetworks, GatePass, AfterAttach, Goto, TypeOK
  <2>4. faults' = 0 => faults = 0
    BY <1>2, <1>10, NoFaultYet DEF AttachNetworks, GatePass, env
  <2> QED BY <1>4, <2>2, <2>3, <2>4
<1>11. ASSUME NEW p \in Procs, StartNew(p) PROVE Good
  <2>1. PICK err \in BOOLEAN, hit \in BOOLEAN :
           /\ Answer(p, CanStart(new[p]), err, hit)
           /\ IF hit THEN Start(new[p]) ELSE UNCHANGED docker
           /\ Goto(p, IF err THEN "undostop" ELSE "gate")
    BY <1>11 DEF StartNew
  <2>2. pc[p] = "start" /\ new' = new /\ journal' = journal
    BY <1>11 DEF StartNew, work
  <2>3. journal'[p] = "none"
    BY <1>2, <2>2 DEF Judged, SwapPcs
  <2>4. CASE err
    <3>1. pc'[p] = "undostop"
      BY <1>2, <2>1, <2>4 DEF Goto, TypeOK
    <3> QED BY <1>3, <2>3, <3>1 DEF Judged, SwapPcs
  <2>5. CASE ~err
    <3>1. hit
      BY <2>1, <2>5 DEF Answer
    <3>2. new'[p] \in run'
      BY <2>1, <2>2, <3>1 DEF Start
    <3> QED BY <1>3, <2>3, <3>2 DEF Judged
  <2> QED BY <2>4, <2>5
<1>12. ASSUME NEW p \in Procs, GateFail(p) PROVE Good
  <2>1. pc[p] = "gate" /\ pc'[p] = "undostop" /\ new' = new /\ sick' = sick
    BY <1>2, <1>12 DEF GateFail, Goto, TypeOK
  <2>2. journal[p] = "none" /\ new[p] \in run
    BY <1>2, <2>1 DEF Judged, SwapPcs
  <2>3. Exists(new[p])
    <3>1. new[p] \in Ids /\ nameOf[new[p]] = OldName(p) /\ cur[p].depth \in Nat
      BY <1>2, <2>1 DEF Safe, PlacedPcs, SwapPcs, TypeOK, Plan
    <3> QED BY <3>1 DEF Exists, OldName, Gone
  <2>4. journal'[p] = Blame(p)
    BY <1>2, <1>12 DEF GateFail, TypeOK
  <2>5. CASE expired[p]
    <3>1. journal'[p] = "none"
      BY <2>2, <2>4, <2>5 DEF Blame
    <3> QED BY <1>3, <2>1, <3>1 DEF Judged, SwapPcs
  <2>6. CASE ~expired[p] /\ ~Well(p)
    <3>1. new'[p] \in sick'
      BY <2>1, <2>2, <2>3, <2>6 DEF Well
    <3> QED BY <1>3, <2>1, <3>1 DEF Judged, SwapPcs
  <2>7. CASE faults' = faults + 1
    <3>1. faults' # 0
      BY <1>2, <2>7, BoundAssumption DEF TypeOK
    <3> QED BY <1>3, <2>1, <3>1 DEF Judged, SwapPcs
  <2> QED BY <1>12, <2>5, <2>6, <2>7 DEF GateFail
<1>13. ASSUME NEW p \in Procs, Commit(p) \/ RestartOld(p) PROVE Good
  <2>1. pc'[p] = "next" /\ new'[p] = NoId
    BY <1>2, <1>13 DEF Commit, RestartOld, Return, Goto, TypeOK
  <2>2. faults' = 0 => faults = 0
    BY <1>2, <1>13, NoFaultYet DEF Commit, RestartOld
  <2> QED BY <1>4, <2>1, <2>2 DEF SwapPcs
<1>14. ASSUME NEW p \in Procs, UndoStop(p) \/ UndoRemove(p) \/ Restore(p) PROVE Good
  <2>1. sick' = sick /\ journal' = journal
    BY <1>14 DEF UndoStop, UndoRemove, Restore, Stop, Remove, Rename, docker, work
  <2>2. /\ pc'[p] \in {"undoremove", "restore", "next", "restartold"}
        /\ new'[p] = new[p] \/ new'[p] = NoId
    <3>1. CASE UndoStop(p) \/ UndoRemove(p)
      BY <1>2, <3>1 DEF UndoStop, UndoRemove, Goto, work, TypeOK
    <3>2. CASE Restore(p)
      <4>1. Return(p) \/ Proceed(p, "restartold")
        BY <3>2 DEF Restore
      <4> QED BY <1>2, <4>1 DEF Return, Proceed, Goto, TypeOK
    <3> QED BY <1>14, <3>1, <3>2
  <2>3. faults' = 0 => faults = 0
    BY <1>2, <1>14, NoFaultYet DEF UndoStop, UndoRemove, Restore
  <2> QED BY <1>4, <2>1, <2>2, <2>3 DEF SwapPcs
<1>15. ASSUME NEW p \in Procs, Expire(p) PROVE Good
  <2>1. UNCHANGED <<pc, new, journal, run, sick, faults>>
    BY <1>15 DEF Expire, docker, env
  <2> QED BY <1>2, <1>3, <2>1 DEF Judged
<1>16. ASSUME NEW p \in Procs, NEW S \in SUBSET Procs, p \in S, Forget(S), faults' = faults
       PROVE  Good
  <2>1. pc'[p] = "down" /\ new'[p] = NoId /\ journal'[p] = "none"
    BY <1>16 DEF Forget
  <2> QED BY <1>4, <1>16, <2>1
<1>17. ASSUME NEW p \in Procs, Crash(p) PROVE Good
  BY <1>16, <1>17 DEF Crash
<1>18. ASSUME Reboot PROVE Good
  BY <1>16, <1>18, ProcsAssumption DEF Reboot
<1>19. ASSUME UNCHANGED vars PROVE Good
  <2>1. PICK p \in Procs : TRUE BY ProcsAssumption
  <2>2. UNCHANGED <<pc, new, journal, run, sick, faults>>
    BY <1>19 DEF vars, mind, docker, env
  <2> QED BY <1>2, <1>3, <2>2 DEF Judged
<1> QED
  BY <1>5, <1>6, <1>7, <1>8, <1>9, <1>10, <1>11, <1>12, <1>13, <1>14, <1>15, <1>17, <1>18,
     <1>19 DEF Next, Cycle

LEMMA JudgedInit == Init => JudgedInv
<1> SUFFICES ASSUME Init PROVE JudgedInv
  OBVIOUS
<1>1. \A p \in Procs : Judged(p)
  BY DEF Init, Judged, SwapPcs
<1> QED BY <1>1, KeptInit DEF JudgedInv

\* As long as a single process works on the containers and no call fails, a digest
\* is only marked bad for a replacement that was sick, whatever deadline passes and
\* wherever the process dies.
THEOREM OnlySickIsBad ==
  ASSUME SingleFlight
  PROVE  Spec => []BadOnlyIfSick
<1>1. JudgedInv /\ [Next]_vars => JudgedInv'
  BY JudgedStep
<1>2. JudgedInv => BadOnlyIfSick
  BY DEF JudgedInv, Judged, BadOnlyIfSick
<1> QED BY JudgedInit, <1>1, <1>2, PTL DEF Spec
=============================================================================
