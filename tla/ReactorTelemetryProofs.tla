------------------------ MODULE ReactorTelemetryProofs ------------------------
(***************************************************************************)
(* What the record of a worker set says of its containers, and that a      *)
(* revoked set stays revoked: for any reactors, keys and workers, either   *)
(* store, any cap and any number of faults.                                *)
(*                                                                         *)
(* Nothing but the manager writes a record, so that the invariant ties its *)
(* copy to the record at every step of a launch and of a cleanup.          *)
(***************************************************************************)
EXTENDS ReactorTelemetry, TLAPS

Ended     == {"cleanup", "cleanup-failed", "removed"}
Launching == {"clear", "launch", "rollback", "activate", "launch-failed"}
Stopping  == {"stop", "cleanup-failed", "removed"}

Types ==
  /\ row \in [Reactors -> Rows \cup {NoRow}]
  /\ containers \in [Reactors -> [Workers -> {"none", "created", "running"}]]
  /\ reactor \in Reactors /\ todo \subseteq Reactors

RevokedIsEnded == \A r \in Reactors : row[r].revoked => Life(r) \in Ended

(* The copy of the record the manager works with, and the record.          *)
InHand ==
  /\ pc # "down" => todo \subseteq Recorded
  /\ pc = "touch" =>
       hand = Load(reactor) /\ reactor \in Recorded /\ Life(reactor) \notin Ended
  /\ pc \in {"register", "retry", "save"} \cup Launching =>
       hand \in Hands /\ ~hand.revoked /\ Life(reactor) \notin Ended
  /\ pc = "save" => hand.lifecycle = "starting"
  /\ pc \in Launching => Life(reactor) = "starting"
  /\ pc = "cleanup" => hand \in Hands /\ reactor \in Recorded /\ Life(reactor) # "removed"
  /\ pc \in Stopping => hand \in Hands /\ Life(reactor) = "cleanup" /\ row[reactor].revoked

(* What a launch or a cleanup has achieved so far.                         *)
Containers ==
  /\ pc = "launch" => \A w \in made : containers[reactor][w] = "running"
  /\ pc = "activate" => \A w \in Workers : containers[reactor][w] = "running"
  /\ pc = "removed" => containers[reactor] = NoContainers

IInv == Types /\ RevokedIsEnded /\ InHand /\ Containers
          /\ RemovedHasNoContainers /\ ActiveIsLaunched

USE DEF Ended, Launching, Stopping

LEMMA LoadedIsAHand ==
  ASSUME Types, NEW r \in Recorded
  PROVE  /\ Load(r) \in Hands
         /\ Load(r).lifecycle = Life(r) /\ Load(r).revoked = row[r].revoked
<1>1. row[r] \in Rows
  BY DEF Types, Recorded
<1> QED
  BY <1>1 DEF Rows, Hands, Load, Life

LEMMA InitHolds == Init => IInv
<1> SUFFICES ASSUME Init PROVE IInv
  OBVIOUS
<1>1. Types
  BY BoundsAssumption DEF Init, Types
<1>2. RevokedIsEnded /\ InHand /\ Containers
  BY DEF Init, RevokedIsEnded, InHand, Containers, NoRow
<1>3. RemovedHasNoContainers /\ ActiveIsLaunched
  BY DEF Init, RemovedHasNoContainers, ActiveIsLaunched, Recorded
<1> QED
  BY <1>1, <1>2, <1>3 DEF IInv

LEMMA HandFacts ==
  ASSUME NEW h \in Hands
  PROVE  /\ RowOf(h) \in Rows /\ RowOf(h) # NoRow
         /\ RowOf(h).lifecycle = h.lifecycle /\ RowOf(h).revoked = h.revoked
         /\ \A l \in Lifecycles :
              /\ [h EXCEPT !.lifecycle = l] \in Hands
              /\ [h EXCEPT !.lifecycle = l].lifecycle = l
              /\ [h EXCEPT !.lifecycle = l].revoked = h.revoked
              /\ [h EXCEPT !.lifecycle = l, !.revoked = TRUE] \in Hands
              /\ [h EXCEPT !.lifecycle = l, !.revoked = TRUE].lifecycle = l
              /\ [h EXCEPT !.lifecycle = l, !.revoked = TRUE].revoked
BY DEF Hands, Rows, NoRow, RowOf, Lifecycles

(* A save of h writes the record of the reactor at hand or leaves it.      *)
Saves(h) ==
  /\ h \in Hands /\ reactor \in Reactors /\ row' \in [Reactors -> Rows \cup {NoRow}]
  /\ \A r \in Reactors : row'[r] = row[r] \/ (r = reactor /\ row'[r] = RowOf(h))
  /\ Written(h) => row'[reactor] = RowOf(h)
  /\ RowOf(h) # NoRow /\ RowOf(h).lifecycle = h.lifecycle /\ RowOf(h).revoked = h.revoked

LEMMA SavedRow ==
  ASSUME Types, NEW h \in Hands, Written(h) \/ UNCHANGED row
  PROVE  Saves(h)
<1>1. row \in [Reactors -> Rows \cup {NoRow}] /\ RowOf(h) \in Rows /\ reactor \in Reactors
  BY HandFacts DEF Types
<1>2. RowOf(h) # NoRow /\ RowOf(h).lifecycle = h.lifecycle /\ RowOf(h).revoked = h.revoked
  BY HandFacts
<1> QED
  BY <1>1, <1>2 DEF Written, Saves

LEMMA ContainersOfReactor ==
  ASSUME Types, NEW f \in [Workers -> {"none", "created", "running"}],
         containers' = [containers EXCEPT ![reactor] = f]
  PROVE  /\ containers' \in [Reactors -> [Workers -> {"none", "created", "running"}]]
         /\ \A r \in Reactors : containers'[r] = IF r = reactor THEN f ELSE containers[r]
BY DEF Types

-------------------------------------------------------------------------------
(* The actions, one by one.                                                *)
USE DEF config, memory, Life, Recorded

LEMMA ExpireHolds ==
  ASSUME IInv, NEW r \in Reactors, Expire(r)
  PROVE  IInv'
<1>1. Types /\ RevokedIsEnded /\ InHand /\ Containers
  BY DEF IInv
<1>2. Types'
  BY <1>1 DEF Types, Expire
<1>3. RevokedIsEnded'
  BY <1>1 DEF RevokedIsEnded, Expire
<1>4. InHand'
  <2>1. Load(reactor)' = Load(reactor)
    BY DEF Expire, Load
  <2> QED
    BY <1>1, <2>1 DEF InHand, Expire
<1>5. Containers'
  BY <1>1 DEF Types, Containers, InHand, Expire, Load, NoHand, NoRow, Hands, Lifecycles
<1>6. RemovedHasNoContainers' /\ ActiveIsLaunched'
  BY <1>1 DEF IInv, Types, InHand, Containers, RemovedHasNoContainers,
     ActiveIsLaunched, Expire, Load, NoHand, NoRow, Hands, Lifecycles
<1> QED
  BY <1>2, <1>3, <1>4, <1>5, <1>6 DEF IInv

LEMMA ReceiveHolds == ASSUME IInv, Receive PROVE IInv'
<1>1. Types /\ RevokedIsEnded /\ InHand /\ Containers
  BY DEF IInv
<1>2. Types'
  BY <1>1 DEF Types, InHand, Receive, Begin, Load, NoHand, NoRow, Hands, Lifecycles
<1>3. RevokedIsEnded'
  BY <1>1 DEF Types, RevokedIsEnded, InHand, Receive, Begin, Load, NoHand, NoRow,
     Hands, Lifecycles
<1>4. InHand'
  BY <1>1 DEF Types, RevokedIsEnded, InHand, Receive, Begin, Load, NoHand, NoRow,
     Hands, Lifecycles
<1>5. Containers'
  BY <1>1 DEF Types, Containers, InHand, Receive, Begin, Load, NoHand, NoRow, Hands,
     Lifecycles
<1>6. RemovedHasNoContainers' /\ ActiveIsLaunched'
  BY <1>1 DEF IInv, Types, InHand, Containers, RemovedHasNoContainers,
     ActiveIsLaunched, Receive, Begin, Load, NoHand, NoRow, Hands, Lifecycles
<1> QED
  BY <1>2, <1>3, <1>4, <1>5, <1>6 DEF IInv

LEMMA BootHolds == ASSUME IInv, Boot PROVE IInv'
<1>1. Types /\ RevokedIsEnded /\ InHand /\ Containers
  BY DEF IInv
<1>2. Types'
  BY <1>1 DEF Types, InHand, Boot, Begin, Load, NoHand, NoRow, Hands, Lifecycles
<1>3. RevokedIsEnded'
  BY <1>1 DEF Types, RevokedIsEnded, InHand, Boot, Begin, Load, NoHand, NoRow, Hands,
     Lifecycles
<1>4. InHand'
  BY <1>1 DEF Types, RevokedIsEnded, InHand, Boot, Begin, Load, NoHand, NoRow, Hands,
     Lifecycles
<1>5. Containers'
  BY <1>1 DEF Types, Containers, InHand, Boot, Begin, Load, NoHand, NoRow, Hands,
     Lifecycles
<1>6. RemovedHasNoContainers' /\ ActiveIsLaunched'
  BY <1>1 DEF IInv, Types, InHand, Containers, RemovedHasNoContainers,
     ActiveIsLaunched, Boot, Begin, Load, NoHand, NoRow, Hands, Lifecycles
<1> QED
  BY <1>2, <1>3, <1>4, <1>5, <1>6 DEF IInv

LEMMA ReconcileExpiredHolds == ASSUME IInv, ReconcileExpired PROVE IInv'
<1>1. Types /\ RevokedIsEnded /\ InHand /\ Containers
  BY DEF IInv
<1>2. Types'
  BY <1>1 DEF Types, InHand, ReconcileExpired, Begin, Load, NoHand, NoRow, Hands,
     Lifecycles
<1>3. RevokedIsEnded'
  BY <1>1 DEF Types, RevokedIsEnded, InHand, ReconcileExpired, Begin, Load, NoHand,
     NoRow, Hands, Lifecycles
<1>4. InHand'
  BY <1>1 DEF Types, RevokedIsEnded, InHand, ReconcileExpired, Begin, Load, NoHand,
     NoRow, Hands, Lifecycles
<1>5. Containers'
  BY <1>1 DEF Types, Containers, InHand, ReconcileExpired, Begin, Load, NoHand, NoRow,
     Hands, Lifecycles
<1>6. RemovedHasNoContainers' /\ ActiveIsLaunched'
  BY <1>1 DEF IInv, Types, InHand, Containers, RemovedHasNoContainers,
     ActiveIsLaunched, ReconcileExpired, Begin, Load, NoHand, NoRow, Hands, Lifecycles
<1> QED
  BY <1>2, <1>3, <1>4, <1>5, <1>6 DEF IInv

LEMMA NextSetHolds == ASSUME IInv, NextSet PROVE IInv'
<1>1. Types /\ RevokedIsEnded /\ InHand /\ Containers
  BY DEF IInv
<1>2. Types'
  BY <1>1, LoadedIsAHand DEF Types, InHand, NextSet, Treatment, Retried, Unlaunched,
     InCleanup, Load, NoHand, NoRow, Hands, Lifecycles
<1>3. RevokedIsEnded'
  BY <1>1 DEF Types, RevokedIsEnded, InHand, NextSet, Treatment, Retried, Unlaunched,
     InCleanup, Load, NoHand, NoRow, Hands, Lifecycles
<1>4. InHand'
  <2>1. CASE pc' = "next"
    BY <1>1, <2>1 DEF InHand, NextSet
  <2>2. CASE pc' # "next"
    <3>1. PICK r \in todo :
            reactor' = r /\ pc' = Treatment(r) /\ hand' = Load(r) /\ row' = row
      BY <2>2 DEF NextSet
    <3>2. pc' \in {"retry", "cleanup", "touch"} /\ Life(r) # "removed"
          /\ (pc' \in {"retry", "touch"} => Life(r) \notin Ended)
      BY <2>2, <3>1 DEF Treatment, Retried, Unlaunched, InCleanup
    <3>3. r \in Recorded /\ Load(r) \in Hands /\ Load(r).revoked = row[r].revoked
      BY <1>1, LoadedIsAHand DEF InHand, NextSet
    <3>4. pc' = "retry" => ~row[r].revoked
      BY <1>1, <3>2, <3>3 DEF RevokedIsEnded
    <3>5. pc' \in {"retry", "cleanup"} => InHand'
      BY <1>1, <3>1, <3>2, <3>3, <3>4 DEF InHand, NextSet
    <3>6. pc' = "touch" => InHand'
      BY <1>1, <3>1, <3>2, <3>3 DEF InHand, Load, NextSet
    <3> QED
      BY <3>2, <3>5, <3>6
  <2> QED
    BY <2>1, <2>2
<1>5. Containers'
  BY <1>1 DEF Types, Containers, InHand, NextSet, Treatment, Retried, Unlaunched,
     InCleanup, Load, NoHand, NoRow, Hands, Lifecycles
<1>6. RemovedHasNoContainers' /\ ActiveIsLaunched'
  BY <1>1 DEF IInv, Types, InHand, Containers, RemovedHasNoContainers,
     ActiveIsLaunched, NextSet, Treatment, Retried, Unlaunched, InCleanup, Load,
     NoHand, NoRow, Hands, Lifecycles
<1> QED
  BY <1>2, <1>3, <1>4, <1>5, <1>6 DEF IInv

LEMMA FinishHolds == ASSUME IInv, Finish PROVE IInv'
<1>1. Types /\ RevokedIsEnded /\ InHand /\ Containers
  BY DEF IInv
<1>2. Types'
  BY <1>1 DEF Types, InHand, Finish, Load, NoHand, NoRow, Hands, Lifecycles
<1>3. RevokedIsEnded'
  BY <1>1 DEF Types, RevokedIsEnded, InHand, Finish, Load, NoHand, NoRow, Hands,
     Lifecycles
<1>4. InHand'
  BY <1>1 DEF Types, RevokedIsEnded, InHand, Finish, Load, NoHand, NoRow, Hands,
     Lifecycles
<1>5. Containers'
  BY <1>1 DEF Types, Containers, InHand, Finish, Load, NoHand, NoRow, Hands, Lifecycles
<1>6. RemovedHasNoContainers' /\ ActiveIsLaunched'
  BY <1>1 DEF IInv, Types, InHand, Containers, RemovedHasNoContainers,
     ActiveIsLaunched, Finish, Load, NoHand, NoRow, Hands, Lifecycles
<1> QED
  BY <1>2, <1>3, <1>4, <1>5, <1>6 DEF IInv

LEMMA RegisterHolds ==
  ASSUME IInv, NEW r \in Reactors, NEW k \in Keys, Register(r, k)
  PROVE  IInv'
<1>1. Types /\ RevokedIsEnded /\ InHand /\ Containers
  BY DEF IInv
<1>2. Types'
  BY <1>1, LoadedIsAHand DEF Types, InHand, Register, FoundBy, Unlaunched, NewSet,
     Load, NoHand, NoRow, Hands, Lifecycles
<1>3. RevokedIsEnded'
  BY <1>1 DEF Types, RevokedIsEnded, InHand, Register, FoundBy, Unlaunched, NewSet,
     Load, NoHand, NoRow, Hands, Lifecycles
<1>4. InHand'
  <2>1. CASE pc' \notin {"retry", "register"}
    BY <1>1, <2>1 DEF InHand, Register
  <2>2. CASE pc' = "register"
    <3>1. r \notin Recorded /\ reactor' = r /\ hand' = NewSet(k) /\ row' = row
      BY <2>2 DEF Register, FoundBy
    <3>2. Life(r) = "none" /\ reactor' = r
      BY <1>1, <3>1 DEF Types, NoRow
    <3>3. hand' \in Hands /\ ~hand'.revoked
      BY <3>1 DEF NewSet, Hands, Lifecycles
    <3> QED
      BY <1>1, <2>2, <3>1, <3>2, <3>3 DEF InHand, Register
  <2>3. CASE pc' = "retry"
    <3>1. PICK q \in FoundBy(r, k) :
            reactor' = q /\ Unlaunched(q) /\ hand' = Load(q) /\ row' = row
      BY <2>3 DEF Register
    <3>2. q \in Recorded /\ Life(q) \notin Ended
      BY <3>1 DEF FoundBy, Unlaunched
    <3>3. ~row[q].revoked
      BY <1>1, <3>2 DEF RevokedIsEnded
    <3>4. Load(q) \in Hands /\ Load(q).revoked = row[q].revoked
      BY <1>1, <3>2, LoadedIsAHand
    <3> QED
      BY <1>1, <2>3, <3>1, <3>2, <3>3, <3>4 DEF InHand, Register
  <2> QED
    BY <2>1, <2>2, <2>3
<1>5. Containers'
  BY <1>1 DEF Types, Containers, InHand, Register, FoundBy, Unlaunched, NewSet, Load,
     NoHand, NoRow, Hands, Lifecycles
<1>6. RemovedHasNoContainers' /\ ActiveIsLaunched'
  BY <1>1 DEF IInv, Types, InHand, Containers, RemovedHasNoContainers,
     ActiveIsLaunched, Register, FoundBy, Unlaunched, NewSet, Load, NoHand, NoRow,
     Hands, Lifecycles
<1> QED
  BY <1>2, <1>3, <1>4, <1>5, <1>6 DEF IInv

LEMMA RemoveHolds ==
  ASSUME IInv, NEW r \in Reactors, Remove(r)
  PROVE  IInv'
<1>1. Types /\ RevokedIsEnded /\ InHand /\ Containers
  BY DEF IInv
<1>2. Types'
  BY <1>1, LoadedIsAHand DEF Types, InHand, Remove, BeginRemove, Load, NoHand, NoRow,
     Hands, Lifecycles
<1>3. RevokedIsEnded'
  BY <1>1 DEF Types, RevokedIsEnded, InHand, Remove, BeginRemove, Load, NoHand, NoRow,
     Hands, Lifecycles
<1>4. InHand'
  BY <1>1, LoadedIsAHand DEF Types, RevokedIsEnded, InHand, Remove, BeginRemove, Load,
     NoHand, NoRow, Hands, Lifecycles
<1>5. Containers'
  BY <1>1 DEF Types, Containers, InHand, Remove, BeginRemove, Load, NoHand, NoRow,
     Hands, Lifecycles
<1>6. RemovedHasNoContainers' /\ ActiveIsLaunched'
  BY <1>1 DEF IInv, Types, InHand, Containers, RemovedHasNoContainers,
     ActiveIsLaunched, Remove, BeginRemove, Load, NoHand, NoRow, Hands, Lifecycles
<1> QED
  BY <1>2, <1>3, <1>4, <1>5, <1>6 DEF IInv

LEMMA DeclareSourcesHolds == ASSUME IInv, DeclareSources PROVE IInv'
<1>1. Types /\ RevokedIsEnded /\ InHand /\ Containers
  BY DEF IInv
<1>2. Types'
  BY <1>1 DEF Types, InHand, DeclareSources, As, Goto, Fault, Fail, Forget, Batch,
     NoHand, Hands, Lifecycles
<1>3. RevokedIsEnded'
  BY <1>1 DEF Types, RevokedIsEnded, InHand, DeclareSources, As, Goto, Fault, Fail,
     Forget, Batch, NoHand, Hands, Lifecycles
<1>4. InHand'
  BY <1>1 DEF Types, RevokedIsEnded, InHand, DeclareSources, As, Goto, Fault, Fail,
     Forget, Batch, NoHand, Hands, Lifecycles
<1>5. Containers'
  BY <1>1 DEF Types, Containers, InHand, DeclareSources, As, Goto, Fault, Fail, Forget,
     Batch, NoHand, Hands, Lifecycles
<1>6. RemovedHasNoContainers' /\ ActiveIsLaunched'
  BY <1>1 DEF IInv, Types, InHand, Containers, RemovedHasNoContainers,
     ActiveIsLaunched, DeclareSources, As, Goto, Fault, Fail, Forget, Batch, NoHand,
     Hands, Lifecycles
<1> QED
  BY <1>2, <1>3, <1>4, <1>5, <1>6 DEF IInv

LEMMA LaunchedHolds == ASSUME IInv, Launched PROVE IInv'
<1>1. Types /\ RevokedIsEnded /\ InHand /\ Containers
  BY DEF IInv
<1>2. Types'
  BY <1>1 DEF Types, InHand, Launched
<1>3. RevokedIsEnded'
  BY <1>1 DEF Types, RevokedIsEnded, InHand, Launched
<1>4. InHand'
  BY <1>1 DEF Types, RevokedIsEnded, InHand, Launched
<1>5. Containers'
  BY <1>1 DEF Types, Containers, InHand, Launched
<1>6. RemovedHasNoContainers' /\ ActiveIsLaunched'
  BY <1>1 DEF IInv, Types, InHand, Containers, RemovedHasNoContainers,
     ActiveIsLaunched, Launched
<1> QED
  BY <1>2, <1>3, <1>4, <1>5, <1>6 DEF IInv

LEMMA TouchHolds == ASSUME IInv, Touch PROVE IInv'
<1>1. Types /\ RevokedIsEnded /\ InHand /\ Containers
      /\ RemovedHasNoContainers /\ ActiveIsLaunched
  BY DEF IInv
<1>s. Saves(hand)
  <2>1. hand \in Hands
    BY <1>1, LoadedIsAHand DEF InHand, Touch
  <2>2. Written(hand) \/ UNCHANGED row
    BY DEF Touch, Save
  <2> QED
    BY <1>1, <2>1, <2>2, SavedRow
<1>2. Types'
  BY <1>1, <1>s DEF Saves, Types, Touch, Goto, Done, Fail, Forget
<1>3. RevokedIsEnded'
  BY <1>1, <1>s, LoadedIsAHand DEF Saves, RevokedIsEnded, InHand, Touch
<1>4. InHand'
  BY <1>1, <1>s DEF Saves, InHand, Touch, Save, Goto, Done, Fail, Forget, Batch, NoHand
<1>5. Containers'
  BY <1>1, <1>s DEF Saves, Containers, InHand, Touch, Save, Goto, Done, Fail, Forget, Batch
<1>6. RemovedHasNoContainers' /\ ActiveIsLaunched'
  BY <1>1, <1>s, LoadedIsAHand DEF Saves, Types, InHand, Containers, RemovedHasNoContainers,
     ActiveIsLaunched, Touch
<1> QED
  BY <1>2, <1>3, <1>4, <1>5, <1>6 DEF IInv

LEMMA SaveStartingHolds == ASSUME IInv, SaveStarting PROVE IInv'
<1>1. Types /\ RevokedIsEnded /\ InHand /\ Containers
      /\ RemovedHasNoContainers /\ ActiveIsLaunched
  BY DEF IInv
<1>s. Saves(hand)
      /\ hand.lifecycle = "starting" /\ ~hand.revoked
  <2>1. hand \in Hands
    BY <1>1 DEF InHand, SaveStarting
  <2>2. hand \in Hands
        /\ hand.lifecycle = "starting" /\ ~hand.revoked
    BY <1>1, <2>1, HandFacts DEF InHand, Lifecycles, SaveStarting
  <2>3. Written(hand) \/ UNCHANGED row
    BY DEF SaveStarting, Save
  <2> QED
    BY <1>1, <2>2, <2>3, SavedRow
<1>2. Types'
  BY <1>1, <1>s DEF Saves, Types, SaveStarting, Goto, Done, Fail, Forget
<1>3. RevokedIsEnded'
  BY <1>1, <1>s DEF Saves, RevokedIsEnded, InHand, SaveStarting
<1>4. InHand'
  BY <1>1, <1>s DEF Saves, InHand, SaveStarting, Save, Goto, Done, Fail, Forget, Batch, NoHand
<1>5. Containers'
  BY <1>1, <1>s DEF Saves, Containers, InHand, SaveStarting, Save, Goto, Done, Fail, Forget,
     Batch
<1>6. RemovedHasNoContainers' /\ ActiveIsLaunched'
  BY <1>1, <1>s DEF Saves, Types, InHand, Containers, RemovedHasNoContainers,
     ActiveIsLaunched, SaveStarting
<1> QED
  BY <1>2, <1>3, <1>4, <1>5, <1>6 DEF IInv

LEMMA SaveLaunchFailedHolds == ASSUME IInv, SaveLaunchFailed PROVE IInv'
<1>1. Types /\ RevokedIsEnded /\ InHand /\ Containers
      /\ RemovedHasNoContainers /\ ActiveIsLaunched
  BY DEF IInv
<1>s. Saves(As("launch-failed"))
      /\ As("launch-failed").lifecycle = "launch-failed" /\ ~As("launch-failed").revoked
  <2>1. hand \in Hands
    BY <1>1 DEF InHand, SaveLaunchFailed
  <2>2. As("launch-failed") \in Hands
        /\ As("launch-failed").lifecycle = "launch-failed" /\ ~As("launch-failed").revoked
    BY <1>1, <2>1, HandFacts DEF InHand, Lifecycles, As, SaveLaunchFailed
  <2>3. Written(As("launch-failed")) \/ UNCHANGED row
    BY DEF SaveLaunchFailed, Save
  <2> QED
    BY <1>1, <2>2, <2>3, SavedRow
<1>2. Types'
  BY <1>1, <1>s DEF Saves, Types, SaveLaunchFailed, Goto, Done, Fail, Forget
<1>3. RevokedIsEnded'
  BY <1>1, <1>s DEF Saves, RevokedIsEnded, InHand, SaveLaunchFailed
<1>4. InHand'
  BY <1>1, <1>s DEF Saves, InHand, SaveLaunchFailed, Save, Goto, Done, Fail, Forget, Batch,
     NoHand
<1>5. Containers'
  BY <1>1, <1>s DEF Saves, Containers, InHand, SaveLaunchFailed, Save, Goto, Done, Fail,
     Forget, Batch
<1>6. RemovedHasNoContainers' /\ ActiveIsLaunched'
  BY <1>1, <1>s DEF Saves, Types, InHand, Containers, RemovedHasNoContainers,
     ActiveIsLaunched, SaveLaunchFailed
<1> QED
  BY <1>2, <1>3, <1>4, <1>5, <1>6 DEF IInv

LEMMA SaveActiveHolds == ASSUME IInv, SaveActive PROVE IInv'
<1>1. Types /\ RevokedIsEnded /\ InHand /\ Containers
      /\ RemovedHasNoContainers /\ ActiveIsLaunched
  BY DEF IInv
<1>s. Saves(As("active"))
      /\ As("active").lifecycle = "active" /\ ~As("active").revoked
  <2>1. hand \in Hands
    BY <1>1 DEF InHand, SaveActive
  <2>2. As("active") \in Hands
        /\ As("active").lifecycle = "active" /\ ~As("active").revoked
    BY <1>1, <2>1, HandFacts DEF InHand, Lifecycles, As, SaveActive
  <2>3. Written(As("active")) \/ UNCHANGED row
    BY DEF SaveActive, Save
  <2> QED
    BY <1>1, <2>2, <2>3, SavedRow
<1>2. Types'
  BY <1>1, <1>s DEF Saves, Types, SaveActive, Goto, Done, Fail, Forget
<1>3. RevokedIsEnded'
  BY <1>1, <1>s DEF Saves, RevokedIsEnded, InHand, SaveActive
<1>4. InHand'
  BY <1>1, <1>s DEF Saves, InHand, SaveActive, Save, Goto, Done, Fail, Forget, Batch, NoHand
<1>5. Containers'
  BY <1>1, <1>s DEF Saves, Containers, InHand, SaveActive, Save, Goto, Done, Fail, Forget,
     Batch
<1>6. RemovedHasNoContainers' /\ ActiveIsLaunched'
  BY <1>1, <1>s DEF Saves, Types, InHand, Containers, RemovedHasNoContainers,
     ActiveIsLaunched, SaveActive
<1> QED
  BY <1>2, <1>3, <1>4, <1>5, <1>6 DEF IInv

LEMMA SaveCleanupHolds == ASSUME IInv, SaveCleanup PROVE IInv'
<1>1. Types /\ RevokedIsEnded /\ InHand /\ Containers
      /\ RemovedHasNoContainers /\ ActiveIsLaunched
  BY DEF IInv
<1>s. Saves(Revoked("cleanup"))
      /\ Revoked("cleanup").lifecycle = "cleanup" /\ Revoked("cleanup").revoked
  <2>1. hand \in Hands
    BY <1>1 DEF InHand, SaveCleanup
  <2>2. Revoked("cleanup") \in Hands
        /\ Revoked("cleanup").lifecycle = "cleanup" /\ Revoked("cleanup").revoked
    BY <1>1, <2>1, HandFacts DEF InHand, Lifecycles, Revoked, SaveCleanup
  <2>3. Written(Revoked("cleanup")) \/ UNCHANGED row
    BY DEF SaveCleanup, Save
  <2> QED
    BY <1>1, <2>2, <2>3, SavedRow
<1>2. Types'
  BY <1>1, <1>s DEF Saves, Types, SaveCleanup, Goto, Done, Fail, Forget
<1>3. RevokedIsEnded'
  BY <1>1, <1>s DEF Saves, RevokedIsEnded, InHand, SaveCleanup
<1>4. InHand'
  BY <1>1, <1>s DEF Saves, InHand, SaveCleanup, Save, Goto, Done, Fail, Forget, Batch, NoHand
<1>5. Containers'
  BY <1>1, <1>s DEF Saves, Containers, InHand, SaveCleanup, Save, Goto, Done, Fail, Forget,
     Batch
<1>6. RemovedHasNoContainers' /\ ActiveIsLaunched'
  BY <1>1, <1>s DEF Saves, Types, InHand, Containers, RemovedHasNoContainers,
     ActiveIsLaunched, SaveCleanup
<1> QED
  BY <1>2, <1>3, <1>4, <1>5, <1>6 DEF IInv

LEMMA SaveCleanupFailedHolds == ASSUME IInv, SaveCleanupFailed PROVE IInv'
<1>1. Types /\ RevokedIsEnded /\ InHand /\ Containers
      /\ RemovedHasNoContainers /\ ActiveIsLaunched
  BY DEF IInv
<1>s. Saves(Revoked("cleanup-failed"))
      /\ Revoked("cleanup-failed").lifecycle = "cleanup-failed" /\ Revoked("cleanup-failed").revoked
  <2>1. hand \in Hands
    BY <1>1 DEF InHand, SaveCleanupFailed
  <2>2. Revoked("cleanup-failed") \in Hands
        /\ Revoked("cleanup-failed").lifecycle = "cleanup-failed" /\ Revoked("cleanup-failed").revoked
    BY <1>1, <2>1, HandFacts DEF InHand, Lifecycles, Revoked, SaveCleanupFailed
  <2>3. Written(Revoked("cleanup-failed")) \/ UNCHANGED row
    BY DEF SaveCleanupFailed, Save
  <2> QED
    BY <1>1, <2>2, <2>3, SavedRow
<1>2. Types'
  BY <1>1, <1>s DEF Saves, Types, SaveCleanupFailed, Goto, Done, Fail, Forget
<1>3. RevokedIsEnded'
  BY <1>1, <1>s DEF Saves, RevokedIsEnded, InHand, SaveCleanupFailed
<1>4. InHand'
  BY <1>1, <1>s DEF Saves, InHand, SaveCleanupFailed, Save, Goto, Done, Fail, Forget, Batch,
     NoHand
<1>5. Containers'
  BY <1>1, <1>s DEF Saves, Containers, InHand, SaveCleanupFailed, Save, Goto, Done, Fail,
     Forget, Batch
<1>6. RemovedHasNoContainers' /\ ActiveIsLaunched'
  <2>1. UNCHANGED <<containers, reactor>>
    BY DEF SaveCleanupFailed
  <2>2. RemovedHasNoContainers'
    BY <1>1, <1>s, <2>1 DEF Saves, Containers, RemovedHasNoContainers, SaveCleanupFailed
  <2>3. ActiveIsLaunched'
    BY <1>1, <1>s, <2>1 DEF Saves, ActiveIsLaunched
  <2> QED
    BY <2>2, <2>3
<1> QED
  BY <1>2, <1>3, <1>4, <1>5, <1>6 DEF IInv

LEMMA SaveRemovedHolds == ASSUME IInv, SaveRemoved PROVE IInv'
<1>1. Types /\ RevokedIsEnded /\ InHand /\ Containers
      /\ RemovedHasNoContainers /\ ActiveIsLaunched
  BY DEF IInv
<1>s. Saves(Revoked("removed"))
      /\ Revoked("removed").lifecycle = "removed" /\ Revoked("removed").revoked
  <2>1. hand \in Hands
    BY <1>1 DEF InHand, SaveRemoved
  <2>2. Revoked("removed") \in Hands
        /\ Revoked("removed").lifecycle = "removed" /\ Revoked("removed").revoked
    BY <1>1, <2>1, HandFacts DEF InHand, Lifecycles, Revoked, SaveRemoved
  <2>3. Written(Revoked("removed")) \/ UNCHANGED row
    BY DEF SaveRemoved, Save
  <2> QED
    BY <1>1, <2>2, <2>3, SavedRow
<1>2. Types'
  BY <1>1, <1>s DEF Saves, Types, SaveRemoved, Goto, Done, Fail, Forget
<1>3. RevokedIsEnded'
  BY <1>1, <1>s DEF Saves, RevokedIsEnded, InHand, SaveRemoved
<1>4. InHand'
  BY <1>1, <1>s DEF Saves, InHand, SaveRemoved, Save, Goto, Done, Fail, Forget, Batch, NoHand
<1>5. Containers'
  BY <1>1, <1>s DEF Saves, Containers, InHand, SaveRemoved, Save, Goto, Done, Fail, Forget,
     Batch
<1>6. RemovedHasNoContainers' /\ ActiveIsLaunched'
  <2>1. UNCHANGED <<containers, reactor>>
    BY DEF SaveRemoved
  <2>2. RemovedHasNoContainers'
    BY <1>1, <1>s, <2>1 DEF Saves, Containers, RemovedHasNoContainers, SaveRemoved
  <2>3. ActiveIsLaunched'
    BY <1>1, <1>s, <2>1 DEF Saves, ActiveIsLaunched
  <2> QED
    BY <2>2, <2>3
<1> QED
  BY <1>2, <1>3, <1>4, <1>5, <1>6 DEF IInv

LEMMA ClearWorkersHolds == ASSUME IInv, ClearWorkers PROVE IInv'
<1>1. Types /\ RevokedIsEnded /\ InHand /\ Containers
  BY DEF IInv
<1>2. Types'
  <2>1. NoContainers \in [Workers -> {"none", "created", "running"}]
    BY DEF NoContainers
  <2>2. reactor \in Reactors
        /\ containers[reactor] \in [Workers -> {"none", "created", "running"}]
    BY <1>1 DEF Types
  <2>3. PICK f : containers' = [containers EXCEPT ![reactor] = f]
                   /\ f \in [Workers -> {"none", "created", "running"}]
    BY <2>1, <2>2 DEF ClearWorkers, RemoveContainers
  <2>4. containers' \in [Reactors -> [Workers -> {"none", "created", "running"}]]
    BY <1>1, <2>3, ContainersOfReactor
  <2> QED
    BY <1>1, <2>4 DEF Types, ClearWorkers
<1>3. RevokedIsEnded'
  BY <1>1 DEF Types, RevokedIsEnded, InHand, ClearWorkers, RemoveContainers, Fault
<1>4. InHand'
  BY <1>1 DEF Types, RevokedIsEnded, InHand, ClearWorkers, RemoveContainers, Fault
<1>5. Containers'
  BY <1>1 DEF Types, Containers, InHand, ClearWorkers, RemoveContainers, Fault
<1>6. RemovedHasNoContainers' /\ ActiveIsLaunched'
  BY <1>1 DEF IInv, Types, InHand, Containers, RemovedHasNoContainers,
     ActiveIsLaunched, ClearWorkers, RemoveContainers, Fault
<1> QED
  BY <1>2, <1>3, <1>4, <1>5, <1>6 DEF IInv

LEMMA StopWorkersHolds == ASSUME IInv, StopWorkers PROVE IInv'
<1>1. Types /\ RevokedIsEnded /\ InHand /\ Containers
  BY DEF IInv
<1>2. Types'
  <2>1. NoContainers \in [Workers -> {"none", "created", "running"}]
    BY DEF NoContainers
  <2>2. reactor \in Reactors
        /\ containers[reactor] \in [Workers -> {"none", "created", "running"}]
    BY <1>1 DEF Types
  <2>3. PICK f : containers' = [containers EXCEPT ![reactor] = f]
                   /\ f \in [Workers -> {"none", "created", "running"}]
    BY <2>1, <2>2 DEF StopWorkers, RemoveContainers
  <2>4. containers' \in [Reactors -> [Workers -> {"none", "created", "running"}]]
    BY <1>1, <2>3, ContainersOfReactor
  <2> QED
    BY <1>1, <2>4 DEF Types, StopWorkers
<1>3. RevokedIsEnded'
  BY <1>1 DEF Types, RevokedIsEnded, InHand, StopWorkers, RemoveContainers, Fault
<1>4. InHand'
  BY <1>1 DEF Types, RevokedIsEnded, InHand, StopWorkers, RemoveContainers, Fault
<1>5. Containers'
  BY <1>1 DEF Types, Containers, InHand, StopWorkers, RemoveContainers, Fault
<1>6. RemovedHasNoContainers' /\ ActiveIsLaunched'
  BY <1>1 DEF IInv, Types, InHand, Containers, RemovedHasNoContainers,
     ActiveIsLaunched, StopWorkers, RemoveContainers, Fault
<1> QED
  BY <1>2, <1>3, <1>4, <1>5, <1>6 DEF IInv

LEMMA LaunchWorkerHolds == ASSUME IInv, LaunchWorker PROVE IInv'
<1>1. Types /\ RevokedIsEnded /\ InHand /\ Containers
  BY DEF IInv
<1>2. Types'
  BY <1>1 DEF Types, InHand, LaunchWorker, Put
<1>3. RevokedIsEnded'
  BY <1>1 DEF Types, RevokedIsEnded, InHand, LaunchWorker, Put
<1>4. InHand'
  BY <1>1 DEF Types, RevokedIsEnded, InHand, LaunchWorker, Put
<1>5. Containers'
  <2>1. CASE pc' # "launch"
    BY <2>1 DEF Containers, LaunchWorker
  <2>2. CASE pc' = "launch"
    <3>1. PICK w \in Workers \ made : made' = made \cup {w} /\ Put(w, "running")
      BY <2>2 DEF LaunchWorker
    <3>2. \A v \in made : containers[reactor][v] = "running"
      BY <1>1 DEF Containers, LaunchWorker
    <3>3. \A v \in made' : containers'[reactor][v] = "running"
      BY <1>1, <3>1, <3>2 DEF Types, Put
    <3> QED
      BY <2>2, <3>3 DEF Containers, LaunchWorker
  <2> QED
    BY <2>1, <2>2
<1>6. RemovedHasNoContainers' /\ ActiveIsLaunched'
  BY <1>1 DEF IInv, Types, InHand, Containers, RemovedHasNoContainers,
     ActiveIsLaunched, LaunchWorker, Put
<1> QED
  BY <1>2, <1>3, <1>4, <1>5, <1>6 DEF IInv

LEMMA RollbackHolds == ASSUME IInv, Rollback PROVE IInv'
<1>1. Types /\ RevokedIsEnded /\ InHand /\ Containers
  BY DEF IInv
<1>2. Types'
  BY <1>1 DEF Types, InHand, Rollback
<1>3. RevokedIsEnded'
  BY <1>1 DEF Types, RevokedIsEnded, InHand, Rollback
<1>4. InHand'
  BY <1>1 DEF Types, RevokedIsEnded, InHand, Rollback
<1>5. Containers'
  BY <1>1 DEF Types, Containers, InHand, Rollback
<1>6. RemovedHasNoContainers' /\ ActiveIsLaunched'
  BY <1>1 DEF IInv, Types, InHand, Containers, RemovedHasNoContainers,
     ActiveIsLaunched, Rollback
<1> QED
  BY <1>2, <1>3, <1>4, <1>5, <1>6 DEF IInv

LEMMA CrashHolds == ASSUME IInv, Crash PROVE IInv'
<1>1. Types /\ RevokedIsEnded /\ InHand /\ Containers
  BY DEF IInv
<1>2. Types'
  BY <1>1 DEF Types, InHand, Crash, NoRow
<1>3. RevokedIsEnded'
  BY <1>1 DEF Types, RevokedIsEnded, InHand, Crash, NoRow
<1>4. InHand'
  BY <1>1 DEF Types, RevokedIsEnded, InHand, Crash, NoRow
<1>5. Containers'
  BY <1>1 DEF Types, Containers, InHand, Crash, NoRow
<1>6. RemovedHasNoContainers' /\ ActiveIsLaunched'
  BY <1>1 DEF IInv, Types, InHand, Containers, RemovedHasNoContainers,
     ActiveIsLaunched, Crash, NoRow
<1> QED
  BY <1>2, <1>3, <1>4, <1>5, <1>6 DEF IInv

LEMMA NextHolds == IInv /\ [Next]_vars => IInv'
<1>1. ASSUME IInv, UNCHANGED vars PROVE IInv'
  BY <1>1 DEF vars, IInv, Types, RevokedIsEnded, InHand, Containers, Load,
     RemovedHasNoContainers, ActiveIsLaunched
<1>2. ASSUME IInv, NEW r \in Reactors, Expire(r) \/ Remove(r) PROVE IInv'
  BY <1>2, ExpireHolds, RemoveHolds
<1>3. ASSUME IInv, NEW r \in Reactors, NEW k \in Keys, Register(r, k) PROVE IInv'
  BY <1>3, RegisterHolds
<1>4. ASSUME IInv, Step PROVE IInv'
  BY <1>4, NextSetHolds, FinishHolds, TouchHolds, DeclareSourcesHolds,
     SaveStartingHolds,
     ClearWorkersHolds, LaunchWorkerHolds, LaunchedHolds, RollbackHolds,
     SaveLaunchFailedHolds,
     SaveActiveHolds, SaveCleanupHolds, StopWorkersHolds, SaveCleanupFailedHolds,
     SaveRemovedHolds DEF Step
<1> QED
  BY <1>1, <1>2, <1>3, <1>4, BootHolds, ReconcileExpiredHolds, ReceiveHolds,
     CrashHolds DEF Next

LEMMA InvariantHolds == Spec => []IInv
BY InitHolds, NextHolds, PTL DEF Spec

-------------------------------------------------------------------------------
(* A set is recorded as removed (cleanupWorkerSet) only when none of its   *)
(* containers is left, and none is made of it afterwards.                  *)
THEOREM RemovedSetsHaveNoContainers == Spec => []RemovedHasNoContainers
<1>1. IInv => RemovedHasNoContainers
  BY DEF IInv
<1> QED
  BY <1>1, InvariantHolds, PTL

(* A set is recorded as active only while all its workers run: a retry     *)
(* (retryWorkerSet) takes the record back first.                           *)
THEOREM ActiveSetsAreLaunched == Spec => []ActiveIsLaunched
<1>1. IInv => ActiveIsLaunched
  BY DEF IInv
<1> QED
  BY <1>1, InvariantHolds, PTL

(* What a step does to the sets whose credentials are revoked.             *)
StaysRevoked ==
  \A r \in Recorded : row[r].revoked =>
    /\ row'[r].revoked \/ (store = "memory" /\ pc' = "down")
    /\ ~Authorized(r)'
    /\ \A w \in Workers : containers'[r][w] \in {"none", containers[r][w]}

LEMMA StepKeepsRevoked ==
  ASSUME IInv, [Next]_vars
  PROVE  StaysRevoked
<1>1. Types /\ RevokedIsEnded /\ InHand /\ RevokedIsEnded'
  BY NextHolds DEF IInv
<1>2. ASSUME NEW r \in Reactors, row'[r].revoked \/ row'[r] = NoRow PROVE ~Authorized(r)'
  BY <1>1, <1>2 DEF RevokedIsEnded, Authorized, NoRow
<1>3. ASSUME NEW h \in Hands, Written(h) \/ UNCHANGED row, UNCHANGED containers,
             row[reactor].revoked => h.revoked
      PROVE  StaysRevoked
  <2>1. Saves(h)
    BY <1>1, <1>3, SavedRow
  <2>2. ASSUME NEW r \in Recorded, row[r].revoked PROVE row'[r].revoked
    BY <1>3, <2>1, <2>2 DEF Saves
  <2> QED
    BY <1>2, <1>3, <2>2 DEF StaysRevoked
<1>4. ASSUME Touch PROVE StaysRevoked
  <2>1. hand \in Hands /\ hand.revoked = row[reactor].revoked
    BY <1>1, <1>4, LoadedIsAHand DEF InHand, Touch
  <2> QED
    BY <1>3, <1>4, <2>1 DEF Touch, Save
<1>5. ASSUME SaveStarting \/ SaveLaunchFailed \/ SaveActive PROVE StaysRevoked
  <2>1. hand \in Hands /\ ~row[reactor].revoked
    BY <1>1, <1>5 DEF InHand, RevokedIsEnded, Types, SaveStarting, SaveLaunchFailed,
       SaveActive
  <2>2. As("launch-failed") \in Hands /\ As("active") \in Hands
    BY <2>1, HandFacts DEF As, Lifecycles
  <2>3. UNCHANGED containers /\ \E h \in {hand, As("launch-failed"), As("active")} :
           Written(h) \/ UNCHANGED row
    BY <1>5 DEF SaveStarting, SaveLaunchFailed, SaveActive, Save
  <2> QED
    BY <1>3, <2>1, <2>2, <2>3
<1>6. ASSUME SaveCleanup \/ SaveCleanupFailed \/ SaveRemoved PROVE StaysRevoked
  <2>1. \A l \in Lifecycles : Revoked(l) \in Hands /\ Revoked(l).revoked
    BY <1>1, <1>6, HandFacts DEF InHand, Revoked, SaveCleanup, SaveCleanupFailed,
       SaveRemoved
  <2>2. UNCHANGED containers /\ \E l \in Lifecycles : Written(Revoked(l)) \/ UNCHANGED row
    BY <1>6 DEF SaveCleanup, SaveCleanupFailed, SaveRemoved, Save, Lifecycles
  <2> QED
    BY <1>3, <2>1, <2>2
<1>7. ASSUME ClearWorkers \/ LaunchWorker \/ Rollback PROVE StaysRevoked
  <2>1. UNCHANGED row /\ ~row[reactor].revoked
    BY <1>1, <1>7 DEF InHand, RevokedIsEnded, Types, ClearWorkers, LaunchWorker,
       Rollback
  <2>2. \A r \in Reactors \ {reactor} : containers'[r] = containers[r]
    BY <1>1, <1>7 DEF Types, ClearWorkers, RemoveContainers, LaunchWorker, Put, Rollback
  <2> QED
    BY <1>2, <2>1, <2>2 DEF StaysRevoked
<1>8. ASSUME StopWorkers PROVE StaysRevoked
  <2>1. \A r \in Reactors, w \in Workers : containers'[r][w] \in {"none", containers[r][w]}
    BY <1>1, <1>8 DEF Types, StopWorkers, RemoveContainers, NoContainers
  <2> QED
    BY <1>2, <1>8, <2>1 DEF StaysRevoked, StopWorkers
<1>9. ASSUME Crash PROVE StaysRevoked
  BY <1>2, <1>9 DEF StaysRevoked, Crash, Types
<1>10. ASSUME UNCHANGED <<row, containers>> PROVE StaysRevoked
  BY <1>2, <1>10 DEF StaysRevoked
<1>11. CASE \/ NextSet \/ Finish \/ DeclareSources \/ Launched
            \/ Boot \/ ReconcileExpired \/ Receive \/ UNCHANGED vars
  BY <1>10, <1>11 DEF NextSet, Finish, DeclareSources, Launched, Boot, ReconcileExpired,
     Receive, Begin, vars
<1>12. ASSUME NEW r \in Reactors, \/ Expire(r) \/ Remove(r) \/ \E k \in Keys : Register(r, k)
       PROVE  StaysRevoked
  BY <1>10, <1>12 DEF Expire, Remove, BeginRemove, Register
<1> QED
  BY <1>4, <1>5, <1>6, <1>7, <1>8, <1>9, <1>11, <1>12 DEF Next, Step

(* Revoked credentials stay revoked and authorize nothing, and no worker   *)
(* of their set is launched again, by whatever registration, touch,        *)
(* reconciliation or restart.                                              *)
THEOREM RevocationIsForGood == Spec => RevokedForGood
<1>1. IInv /\ [Next]_vars => StaysRevoked
  BY StepKeepsRevoked
<1> QED
  BY <1>1, InvariantHolds, PTL DEF Spec, RevokedForGood, StaysRevoked

-------------------------------------------------------------------------------
(* The types of the rest of the manager's memory.                          *)

Pcs == {"down", "idle", "next", "touch", "register", "retry", "save", "clear",
        "launch", "rollback", "activate", "launch-failed", "cleanup", "stop",
        "cleanup-failed", "removed"}
Operations == {"none", "boot", "expire", "touch", "register", "remove"}

(* What a step of the operation at hand touches, and what it leaves alone. *)
Held ==
  /\ pc \in Pcs /\ op \in Operations /\ failed \in BOOLEAN
  /\ hand \in Hands \cup {NoHand} /\ made \subseteq Workers /\ faults \in 0..MaxFaults
Waits ==
  /\ store \in Stores /\ cap \in Caps
  /\ expired \subseteq Reactors /\ waiting \subseteq Reactors

LEMMA FaultType ==
  ASSUME faults \in 0..MaxFaults, Fault \/ UNCHANGED faults
  PROVE  faults' \in 0..MaxFaults
BY BoundsAssumption DEF Fault

(* A save goes on with what follows it, or with its error.                 *)
LEMMA SaveStep ==
  ASSUME NEW h, NEW Ok, NEW Err, Save(h, Ok, Err)
  PROVE  (Ok \/ Err) /\ (Fault \/ UNCHANGED faults)
BY DEF Save

LEMMA EndsHold ==
  ASSUME Held, Done \/ Fail, UNCHANGED op, Fault \/ UNCHANGED faults
  PROVE  Held'
<1>1. pc' \in Pcs
  BY DEF Done, Fail, Pcs
<1>2. failed' \in BOOLEAN
  <2>1. Batch \in BOOLEAN
    BY DEF Batch
  <2> HIDE DEF Batch
  <2> QED
    BY <2>1 DEF Held, Done, Fail
<1>3. hand' = NoHand /\ made' = {}
  BY DEF Done, Fail, Forget
<1> QED
  BY <1>1, <1>2, <1>3, FaultType DEF Held

LEMMA HandsOn ==
  ASSUME Held, NEW label \in Pcs, NEW h \in Hands, Goto(label, h), UNCHANGED op,
         Fault \/ UNCHANGED faults
  PROVE  Held'
BY FaultType DEF Held, Goto

LEMMA SavesHold ==
  ASSUME IInv, Held, \/ Touch \/ SaveStarting \/ SaveLaunchFailed \/ SaveActive
                     \/ SaveCleanup \/ SaveCleanupFailed \/ SaveRemoved
  PROVE  Held'
<1>1. UNCHANGED op
  BY DEF Touch, SaveStarting, SaveLaunchFailed, SaveActive, SaveCleanup, SaveCleanupFailed,
     SaveRemoved
<1>2. CASE SaveStarting
  <2>1. hand \in Hands
    BY <1>2 DEF IInv, InHand, SaveStarting
  <2>2. (Goto("clear", hand) \/ Fail) /\ (Fault \/ UNCHANGED faults)
    BY <1>2, SaveStep DEF SaveStarting
  <2> QED
    BY <1>1, <2>1, <2>2, EndsHold, HandsOn DEF Pcs
<1>3. CASE SaveCleanup
  <2>1. Revoked("cleanup") \in Hands
    BY <1>3, HandFacts DEF IInv, InHand, SaveCleanup, Revoked, Lifecycles
  <2>2. (Goto("stop", Revoked("cleanup")) \/ Fail) /\ (Fault \/ UNCHANGED faults)
    BY <1>3, SaveStep DEF SaveCleanup
  <2> QED
    BY <1>1, <2>1, <2>2, EndsHold, HandsOn DEF Pcs
<1>4. CASE Touch \/ SaveLaunchFailed \/ SaveActive \/ SaveCleanupFailed \/ SaveRemoved
  <2>1. (Done \/ Fail) /\ (Fault \/ UNCHANGED faults)
    BY <1>4, SaveStep DEF Touch, SaveLaunchFailed, SaveActive, SaveCleanupFailed, SaveRemoved
  <2> QED
    BY <1>1, <2>1, EndsHold
<1> QED
  BY <1>2, <1>3, <1>4

LEMMA StepsHold ==
  ASSUME IInv, Held, Step
  PROVE  Held'
<1>1. CASE NextSet
  <2>1. PICK r \in todo : pc' = Treatment(r) /\ hand' = IF pc' = "next" THEN NoHand ELSE Load(r)
    BY <1>1 DEF NextSet
  <2>2. r \in Recorded
    BY <1>1, <2>1 DEF IInv, InHand, NextSet
  <2>3. Load(r) \in Hands /\ Treatment(r) \in Pcs
    BY <2>2, LoadedIsAHand DEF IInv, Treatment, Pcs
  <2> QED
    BY <1>1, <2>1, <2>3 DEF Held, NextSet
<1>2. CASE Finish \/ Launched
  BY <1>2 DEF Held, Finish, Launched, Pcs
<1>3. CASE DeclareSources
  <2>1. As("starting") \in Hands
    BY <1>3, HandFacts DEF IInv, InHand, DeclareSources, As, Lifecycles
  <2> QED
    BY <1>3, <2>1, EndsHold, HandsOn DEF DeclareSources, Pcs
<1>4. CASE ClearWorkers \/ StopWorkers
  <2>1. Fault \/ UNCHANGED faults
    BY <1>4 DEF ClearWorkers, StopWorkers, RemoveContainers
  <2> QED
    BY <1>4, <2>1, FaultType DEF Held, ClearWorkers, StopWorkers, RemoveContainers, Pcs
<1>5. CASE LaunchWorker
  <2>1. Fault \/ UNCHANGED faults
    BY <1>5 DEF LaunchWorker
  <2>2. made' \subseteq Workers /\ pc' \in Pcs
    BY <1>5 DEF Held, LaunchWorker, Pcs
  <2> QED
    BY <1>5, <2>1, <2>2, FaultType DEF Held, LaunchWorker
<1>6. CASE Rollback
  <2>1. Fault \/ UNCHANGED faults
    BY <1>6 DEF Rollback
  <2> QED
    BY <1>6, <2>1, FaultType DEF Held, Rollback, Pcs
<1> QED
  BY <1>1, <1>2, <1>3, <1>4, <1>5, <1>6, SavesHold DEF Step

LEMMA HeldKept ==
  ASSUME IInv, Held, [Next]_vars
  PROVE  Held'
<1>1. CASE Boot \/ ReconcileExpired \/ Receive
  BY <1>1 DEF Boot, ReconcileExpired, Receive, Begin, Held, Pcs, Operations
<1>2. CASE Crash
  BY <1>2, FaultType DEF Crash, Held, Pcs
<1>3. ASSUME NEW r \in Reactors, Expire(r) \/ Remove(r) PROVE Held'
  <2>1. CASE Expire(r)
    BY <2>1 DEF Expire, Held
  <2>2. CASE Remove(r)
    <3>1. Load(r) \in Hands
      BY <2>2, LoadedIsAHand DEF IInv, Remove
    <3> QED
      BY <2>2, <3>1 DEF Remove, BeginRemove, Held, Pcs, Operations
  <2> QED
    BY <1>3, <2>1, <2>2
<1>4. ASSUME NEW r \in Reactors, NEW k \in Keys, Register(r, k) PROVE Held'
  <2>1. \A q \in FoundBy(r, k) : Load(q) \in Hands
    BY LoadedIsAHand DEF IInv, FoundBy
  <2>2. NewSet(k) \in Hands
    BY DEF NewSet, Hands, Lifecycles
  <2> QED
    BY <1>4, <2>1, <2>2 DEF Register, Held, Pcs, Operations
<1>5. CASE UNCHANGED vars
  BY <1>5 DEF vars, Held
<1> QED
  BY <1>1, <1>2, <1>3, <1>4, <1>5, StepsHold DEF Next

LEMMA WaitsKept ==
  ASSUME IInv, Waits, [Next]_vars
  PROVE  Waits'
<1>1. UNCHANGED config
  BY DEF Next, Step, NextSet, Finish, Touch, DeclareSources, SaveStarting, ClearWorkers,
     LaunchWorker, Launched, Rollback, SaveLaunchFailed, SaveActive, SaveCleanup,
     StopWorkers, SaveCleanupFailed, SaveRemoved, Boot, ReconcileExpired, Receive, Begin,
     Crash, Expire, Remove, BeginRemove, Register, vars
<1>2. expired' \subseteq Reactors
  BY DEF Waits, Next, Step, NextSet, Finish, Touch, DeclareSources, SaveStarting, ClearWorkers,
     LaunchWorker, Launched, Rollback, SaveLaunchFailed, SaveActive, SaveCleanup,
     StopWorkers, SaveCleanupFailed, SaveRemoved, Boot, ReconcileExpired, Receive, Begin,
     Crash, Expire, Remove, BeginRemove, Register, vars
<1>3. waiting' \subseteq Reactors
  BY DEF Waits, Next, Step, NextSet, Finish, Touch, DeclareSources, SaveStarting, ClearWorkers,
     LaunchWorker, Launched, Rollback, SaveLaunchFailed, SaveActive, SaveCleanup,
     StopWorkers, SaveCleanupFailed, SaveRemoved, Boot, ReconcileExpired, Receive, Begin,
     Crash, Expire, Remove, BeginRemove, Register, vars
<1> QED
  BY <1>1, <1>2, <1>3 DEF Waits

(* Records, containers and the memory of the manager keep their types over *)
(* launches, cleanups, failed saves and restarts                           *)
(* (ReactorTelemetryWorkerSet).                                            *)
THEOREM TypeCorrect == Spec => []TypeOK
<1>1. Init => Held /\ Waits
  <2> SUFFICES ASSUME Init PROVE Held /\ Waits
    OBVIOUS
  <2>1. 0 \in 0..MaxFaults
    BY BoundsAssumption
  <2>2. Held
    BY <2>1 DEF Init, Held, Pcs, Operations
  <2>3. Waits
    BY DEF Init, Waits
  <2> QED
    BY <2>2, <2>3
<1>2. IInv /\ Held /\ Waits /\ [Next]_vars => Held' /\ Waits'
  BY HeldKept, WaitsKept
<1>3. IInv /\ Held /\ Waits => TypeOK
  BY DEF IInv, Types, Held, Waits, TypeOK, Pcs, Operations
<1> QED
  BY <1>1, <1>2, <1>3, InvariantHolds, PTL DEF Spec
===============================================================================
