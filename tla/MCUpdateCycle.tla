---------------------------- MODULE MCUpdateCycle ----------------------------
(***************************************************************************)
(* Instances of UpdateCycle for TLC: web and db on images of their own or  *)
(* on a common one, soaked for one and for no unit of time.                *)
(***************************************************************************)
EXTENDS UpdateCycle, TLC

CONSTANTS web, db, img1, img2

OwnImages   == (web :> img1) @@ (db :> img2)
OneImage    == [s \in {web} |-> img1]

SoakOne     == [s \in {web} |-> 1]
SoakWeb     == [s \in {web, db} |-> IF s = web THEN 1 ELSE 0]
WebFirst    == [s \in {web, db} |-> IF s = web THEN 0 ELSE 1]
Alone       == [s \in {web} |-> 0]
=============================================================================
