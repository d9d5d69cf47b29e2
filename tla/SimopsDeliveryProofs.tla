------------------------- MODULE SimopsDeliveryProofs -------------------------
(***************************************************************************)
(* What the artifact intent consumer delivers, for every log, any set of   *)
(* deployments and any number of faults: its Delivery Attempts implement   *)
(* DeliveryLedger, a message acknowledged by a process that batches one    *)
(* event is in the table, and a committed artifact was written.            *)
(***************************************************************************)
EXTENDS SimopsDelivery, FiniteSetTheorems, TLAPS

(* The steps at which a batch is being delivered, those of a Delivery      *)
(* Attempt, and those reached only when the table holds the batch.         *)
InDelivery == {"open", "reconcile", "settle", "prepare", "place", "write", "readback",
               "hold", "publish", "resolve", "announce"}
OfAttempt  == {"open", "reconcile", "settle", "place", "hold", "resolve"}
AfterWrite == {"settle", "publish", "resolve", "announce"}

PendingIsOwn ==
  \A r \in Runs : \A o \in pending[r] : Log[o].kind = "telemetry" /\ Log[o].run = r

(* The process works on the message after the acknowledged one.            *)
InOrder ==
  /\ pc = "fetch" => offset = committed
  /\ pc \notin {"fetch", "down"} => offset = committed + 1
  /\ pc = "collect" => Telemetry(offset)

InFlight ==
  /\ pc \in InDelivery => batch \in Batches /\ offset \in batch
  /\ pc \in AfterWrite => copies[batch] > 0

(* The process has in hand what the attempt on record allows.              *)
AttemptInHand ==
  /\ ~deployment.durable => attempt = [b \in Batches |-> "none"]
  /\ pc \in OfAttempt => deployment.durable
  /\ deployment.durable /\ pc \in {"prepare", "place", "write", "readback", "hold",
                                   "publish", "resolve"} => attempt[batch] = "pending"
  /\ pc \in {"reconcile", "settle"} => attempt[batch] = "unknown"

(* What is resolved was written, and so was what a manifest file holds.    *)
RecordsAreWritten ==
  /\ \A b \in Batches : attempt[b] = "resolved" => copies[b] > 0
  /\ \A f \in files : f[2] \in Batches => copies[f[2]] > 0

HandledIsDelivered ==
  deployment.batch = 1 /\ pc = "commit" /\ Telemetry(offset) => Delivered(offset)

IInv ==
  /\ TypeOK /\ PendingIsOwn /\ InOrder /\ InFlight /\ AttemptInHand
  /\ RecordsAreWritten /\ HandledIsDelivered
  /\ AcknowledgedIsDelivered /\ CommittedArtifactIsWritten

USE DEF InDelivery, OfAttempt, AfterWrite

LEMMA BatchFacts ==
  ASSUME NEW b \in Batches
  PROVE  /\ RunOf(b) \in Runs /\ b # {} /\ b \subseteq Offsets /\ IsFiniteSet(b)
         /\ \A o \in b : Telemetry(o) /\ Log[o].run = RunOf(b)
<1>1. b # {} /\ b \subseteq Offsets /\ \A o \in b : Telemetry(o)
      /\ Log[o].run = RunOf(b)
  BY DEF Batches, Telemetry
<1>2. RunOf(b) \in Runs
  BY <1>1 DEF Runs, RunOf
<1>3. IsFiniteSet(Offsets)
  BY LogAssumption, FS_Interval DEF Offsets
<1> QED
  BY <1>1, <1>2, <1>3, FS_Subset

(* Telemetry of one Run makes a batch of that Run.                         *)
LEMMA EventsAreABatch ==
  ASSUME NEW r \in Runs, NEW e \in SUBSET Offsets, e # {},
         \A o \in e : Log[o].kind = "telemetry" /\ Log[o].run = r
  PROVE  e \in Batches /\ RunOf(e) = r
<1>1. RunOf(e) = r
  BY DEF RunOf
<1> QED
  BY <1>1 DEF Batches

LEMMA TornIsNoBatch == Torn \notin Batches
BY LogAssumption DEF Torn, Batches, Offsets

LEMMA InitHolds == Init => IInv
<1> SUFFICES ASSUME Init PROVE IInv
  OBVIOUS
<1>1. TypeOK
  <2>1. copies \in [Batches -> Nat] /\ sequence \in [Runs -> Nat]
        /\ pending \in [Runs -> SUBSET Offsets]
    BY DEF Init
  <2>2. attempt \in [Batches -> {"none", "pending", "unknown", "resolved"}]
        /\ location \in [Batches -> Paths \cup {NoPath}]
        /\ status \in [Runs -> {"received", "prepared", "committed", "failed"}]
    BY DEF Init
  <2>3. committed \in 0..Len(Log) /\ offset \in 0..Len(Log) /\ faults \in 0..MaxFaults
    BY LogAssumption, MaxFaultsAssumption DEF Init
  <2> QED
    BY <2>1, <2>2, <2>3 DEF Init, TypeOK, PcLabels
<1>2. PendingIsOwn /\ InOrder /\ InFlight /\ AttemptInHand /\ RecordsAreWritten
      /\ HandledIsDelivered
  BY DEF Init, PendingIsOwn, InOrder, InFlight, AttemptInHand, RecordsAreWritten,
     HandledIsDelivered
<1>3. AcknowledgedIsDelivered /\ CommittedArtifactIsWritten
  BY DEF Init, AcknowledgedIsDelivered, CommittedArtifactIsWritten
<1> QED
  BY <1>1, <1>2, <1>3 DEF IInv

-------------------------------------------------------------------------------
(* The table only grows.                                                   *)
Grows ==
  /\ deployment' = deployment /\ copies' \in [Batches -> Nat]
  /\ \A b \in Batches : copies'[b] >= copies[b]

LEMMA DeliveredStays ==
  ASSUME TypeOK, Grows
  PROVE  /\ \A b \in Batches : copies[b] > 0 => copies'[b] > 0
         /\ \A o : Delivered(o) => Delivered(o)'
<1>1. \A b \in Batches : copies[b] > 0 => copies'[b] > 0
  BY DEF TypeOK, Grows
<1> QED
  BY <1>1 DEF Delivered

LEMMA CopyGrows ==
  ASSUME TypeOK, batch \in Batches, copies' \in {copies, Copied},
  deployment' = deployment
  PROVE  Grows
<1>1. copies \in [Batches -> Nat]
  BY DEF TypeOK
<1> QED
  BY <1>1 DEF Grows, Copied

(* Updates of the records keep their types.                                *)
LEMMA UpdateTypes ==
  ASSUME TypeOK
  PROVE  /\ \A s \in {"none", "pending", "unknown", "resolved"} :
              [attempt EXCEPT ![batch] = s]
                \in [Batches -> {"none", "pending", "unknown", "resolved"}]
         /\ \A s \in {"received", "prepared", "committed", "failed"} :
              [status EXCEPT ![RunOf(batch)] = s]
                \in [Runs -> {"received", "prepared", "committed", "failed"}]
         /\ [pending EXCEPT ![RunOf(batch)] = {}] \in [Runs -> SUBSET Offsets]
BY DEF TypeOK

(* An append of a batch leaves a copy of it.                               *)
LEMMA CopyIsThere ==
  ASSUME TypeOK, batch \in Batches
  PROVE  Copied \in [Batches -> Nat] /\ Copied[batch] > 0
BY DEF TypeOK, Copied

LEMMA PathOfBatch ==
  ASSUME TypeOK, batch \in Batches
  PROVE  Path(batch, sequence[RunOf(batch)]) \in Paths
<1>1. RunOf(batch) \in Runs /\ Cardinality(batch) \in Nat
  BY BatchFacts, FS_CardinalityType
<1>2. sequence[RunOf(batch)] \in Nat
  BY <1>1 DEF TypeOK
<1> QED
  BY <1>1, <1>2 DEF Path, Paths

(* A step that acknowledges nothing keeps what is delivered, as long as it *)
(* brings no undelivered event to the acknowledgement.                     *)
LEMMA KeepsPromises ==
  ASSUME IInv, Grows, committed' = committed,
         status' \in {status, [status EXCEPT ![RunOf(batch)] = "failed"],
                      [status EXCEPT ![RunOf(batch)] = "prepared"]}
  PROVE  AcknowledgedIsDelivered' /\ CommittedArtifactIsWritten'
<1>1. AcknowledgedIsDelivered'
  BY DeliveredStays DEF IInv, Grows, AcknowledgedIsDelivered, Telemetry
<1>2. ASSUME NEW r \in Runs, status'[r] = "committed" PROVE status[r] = "committed"
  BY <1>2 DEF IInv, TypeOK
<1>3. CommittedArtifactIsWritten'
  BY <1>2, DeliveredStays DEF IInv, CommittedArtifactIsWritten
<1> QED
  BY <1>1, <1>3

-------------------------------------------------------------------------------
(* The actions, one by one.                                                *)
USE DEF Goto, FailedCall, Fault, StopProcess, WriteFailed, durables, memory

LEMMA CrashHolds == ASSUME IInv, Crash PROVE IInv'
<1>1. TypeOK /\ PendingIsOwn /\ InOrder /\ InFlight /\ AttemptInHand
      /\ RecordsAreWritten /\ HandledIsDelivered
  BY DEF IInv
<1>2. Grows
  BY <1>1 DEF Grows, TypeOK, Crash
<1>3. TypeOK'
  BY <1>1, MaxFaultsAssumption, LogAssumption DEF TypeOK, PcLabels, InFlight, Crash
<1>4. PendingIsOwn' /\ InOrder'
  BY <1>1 DEF TypeOK, PendingIsOwn, InOrder, InFlight, Telemetry, Crash
<1>5. InFlight'
  BY <1>1 DEF TypeOK, InFlight, Crash
<1>6. AttemptInHand'
  BY <1>1 DEF TypeOK, AttemptInHand, InFlight, Crash
<1>7. RecordsAreWritten'
  BY <1>1, <1>2, DeliveredStays DEF TypeOK, RecordsAreWritten, InFlight, Crash
<1>8. HandledIsDelivered'
  BY <1>1, <1>2, DeliveredStays DEF HandledIsDelivered, InFlight, Delivered, Crash
<1>9. AcknowledgedIsDelivered' /\ CommittedArtifactIsWritten'
  BY <1>2, KeepsPromises DEF Crash
<1> QED
  BY <1>3, <1>4, <1>5, <1>6, <1>7, <1>8, <1>9 DEF IInv

LEMMA RestartHolds == ASSUME IInv, Restart PROVE IInv'
<1>1. TypeOK /\ PendingIsOwn /\ InOrder /\ InFlight /\ AttemptInHand
      /\ RecordsAreWritten /\ HandledIsDelivered
  BY DEF IInv
<1>2. Grows
  BY <1>1 DEF Grows, TypeOK, Restart, RestartAt
<1>3. TypeOK'
  BY <1>1, MaxFaultsAssumption, LogAssumption DEF TypeOK, PcLabels, InFlight, Restart,
     RestartAt
<1>4. PendingIsOwn' /\ InOrder'
  BY <1>1 DEF TypeOK, PendingIsOwn, InOrder, InFlight, Telemetry, Restart, RestartAt
<1>5. InFlight'
  BY <1>1 DEF TypeOK, InFlight, Restart, RestartAt
<1>6. AttemptInHand'
  BY <1>1 DEF TypeOK, AttemptInHand, InFlight, Restart, RestartAt
<1>7. RecordsAreWritten'
  BY <1>1, <1>2, DeliveredStays DEF TypeOK, RecordsAreWritten, InFlight, Restart,
     RestartAt
<1>8. HandledIsDelivered'
  BY <1>1, <1>2, DeliveredStays DEF HandledIsDelivered, InFlight, Delivered, Restart,
     RestartAt
<1>9. AcknowledgedIsDelivered' /\ CommittedArtifactIsWritten'
  BY <1>2, KeepsPromises DEF Restart, RestartAt
<1> QED
  BY <1>3, <1>4, <1>5, <1>6, <1>7, <1>8, <1>9 DEF IInv

LEMMA FetchMessageHolds == ASSUME IInv, FetchMessage PROVE IInv'
<1>1. TypeOK /\ PendingIsOwn /\ InOrder /\ InFlight /\ AttemptInHand
      /\ RecordsAreWritten /\ HandledIsDelivered
  BY DEF IInv
<1>2. Grows
  BY <1>1 DEF Grows, TypeOK, FetchMessage
<1>3. TypeOK'
  BY <1>1, MaxFaultsAssumption, LogAssumption DEF TypeOK, PcLabels, InFlight,
     FetchMessage
<1>4. PendingIsOwn' /\ InOrder'
  BY <1>1 DEF TypeOK, PendingIsOwn, InOrder, InFlight, Telemetry, FetchMessage
<1>5. InFlight'
  BY <1>1 DEF TypeOK, InFlight, FetchMessage
<1>6. AttemptInHand'
  BY <1>1 DEF TypeOK, AttemptInHand, InFlight, FetchMessage
<1>7. RecordsAreWritten'
  BY <1>1, <1>2, DeliveredStays DEF TypeOK, RecordsAreWritten, InFlight, FetchMessage
<1>8. HandledIsDelivered'
  BY <1>1, <1>2, DeliveredStays DEF HandledIsDelivered, InFlight, Delivered,
     FetchMessage
<1>9. AcknowledgedIsDelivered' /\ CommittedArtifactIsWritten'
  BY <1>2, KeepsPromises DEF FetchMessage
<1> QED
  BY <1>3, <1>4, <1>5, <1>6, <1>7, <1>8, <1>9 DEF IInv

LEMMA ProjectHolds == ASSUME IInv, Project PROVE IInv'
<1>1. TypeOK /\ PendingIsOwn /\ InOrder /\ InFlight /\ AttemptInHand
      /\ RecordsAreWritten /\ HandledIsDelivered
  BY DEF IInv
<1>2. Grows
  BY <1>1 DEF Grows, TypeOK, Project
<1>3. TypeOK'
  BY <1>1, MaxFaultsAssumption, LogAssumption DEF TypeOK, PcLabels, InFlight, Project
<1>4. PendingIsOwn' /\ InOrder'
  BY <1>1 DEF TypeOK, PendingIsOwn, InOrder, InFlight, Telemetry, Project
<1>5. InFlight'
  BY <1>1 DEF TypeOK, InFlight, Project
<1>6. AttemptInHand'
  BY <1>1 DEF TypeOK, AttemptInHand, InFlight, Project
<1>7. RecordsAreWritten'
  BY <1>1, <1>2, DeliveredStays DEF TypeOK, RecordsAreWritten, InFlight, Project
<1>8. HandledIsDelivered'
  BY <1>1 DEF HandledIsDelivered, Telemetry, Project
<1>9. AcknowledgedIsDelivered' /\ CommittedArtifactIsWritten'
  BY <1>2, KeepsPromises DEF Project
<1> QED
  BY <1>3, <1>4, <1>5, <1>6, <1>7, <1>8, <1>9 DEF IInv

LEMMA CollectHolds == ASSUME IInv, Collect PROVE IInv'
<1>1. TypeOK /\ PendingIsOwn /\ InOrder /\ InFlight /\ AttemptInHand
      /\ RecordsAreWritten /\ HandledIsDelivered
  BY DEF IInv
<1> DEFINE r == Log[offset].run
           e == pending[r] \cup {offset}
<1>p. r \in Runs /\ e \in Batches /\ RunOf(e) = r /\ offset \in e
      /\ e \in SUBSET Offsets
  <2>1. offset \in Offsets /\ r \in Runs /\ Log[offset].kind = "telemetry"
    BY <1>1, LogAssumption DEF TypeOK, InOrder, Collect, Telemetry, Offsets, Runs
  <2>2. e \in SUBSET Offsets /\ \A o \in e : Log[o].kind = "telemetry" /\ Log[o].run = r
    BY <1>1, <2>1 DEF TypeOK, PendingIsOwn
  <2> QED
    BY <2>1, <2>2, EventsAreABatch
<1>2. Grows
  BY <1>1 DEF Grows, TypeOK, Collect
<1>3. TypeOK'
  <2>1. sequence' \in [Runs -> Nat]
    <3>1. sequence \in [Runs -> Nat] /\ r \in Runs
      BY <1>1, <1>p DEF TypeOK
    <3>2. UNCHANGED sequence \/ sequence' = [sequence EXCEPT ![r] = @ + 1]
      BY DEF Collect
    <3> HIDE DEF r
    <3> QED
      BY <3>1, <3>2
  <2>2. pending' \in [Runs -> SUBSET Offsets]
    <3>1. pending' = [pending EXCEPT ![r] = e]
      BY DEF Collect
    <3> QED
      BY <1>1, <1>p, <3>1 DEF TypeOK
  <2> QED
    BY <1>1, <1>p, <2>1, <2>2 DEF TypeOK, PcLabels, Collect
<1>4. PendingIsOwn' /\ InOrder'
  BY <1>1 DEF TypeOK, PendingIsOwn, InOrder, InFlight, Telemetry, Collect
<1>5. InFlight'
  BY <1>p DEF InFlight, Collect
<1>6. AttemptInHand'
  BY <1>1 DEF TypeOK, AttemptInHand, InFlight, Collect
<1>7. RecordsAreWritten'
  BY <1>1, <1>2, DeliveredStays DEF TypeOK, RecordsAreWritten, InFlight, Collect
<1>8. HandledIsDelivered'
  <2>1. Cardinality(e) # 0 /\ Cardinality(e) \in Nat
    BY <1>p, BatchFacts, FS_EmptySet, FS_CardinalityType
  <2>2. deployment.batch = 1 => pc' # "commit"
    BY <2>1 DEF Collect
  <2> QED
    BY <2>2 DEF HandledIsDelivered, Collect
<1>9. AcknowledgedIsDelivered' /\ CommittedArtifactIsWritten'
  BY <1>2, KeepsPromises DEF Collect
<1> QED
  BY <1>3, <1>4, <1>5, <1>6, <1>7, <1>8, <1>9 DEF IInv

LEMMA CommitOffsetHolds == ASSUME IInv, CommitOffset PROVE IInv'
<1>1. TypeOK /\ PendingIsOwn /\ InOrder /\ InFlight /\ AttemptInHand
      /\ RecordsAreWritten /\ HandledIsDelivered
  BY DEF IInv
<1>2. Grows
  BY <1>1 DEF Grows, TypeOK, CommitOffset
<1>3. TypeOK'
  BY <1>1, MaxFaultsAssumption, LogAssumption DEF TypeOK, PcLabels, InFlight,
     CommitOffset
<1>4. PendingIsOwn' /\ InOrder'
  BY <1>1 DEF TypeOK, PendingIsOwn, InOrder, InFlight, Telemetry, CommitOffset
<1>5. InFlight'
  BY <1>1 DEF TypeOK, InFlight, CommitOffset
<1>6. AttemptInHand'
  BY <1>1 DEF TypeOK, AttemptInHand, InFlight, CommitOffset
<1>7. RecordsAreWritten'
  BY <1>1, <1>2, DeliveredStays DEF TypeOK, RecordsAreWritten, InFlight, CommitOffset
<1>8. HandledIsDelivered'
  BY <1>1, <1>2, DeliveredStays DEF HandledIsDelivered, InFlight, Delivered,
     CommitOffset
<1>9. AcknowledgedIsDelivered' /\ CommittedArtifactIsWritten'
  <2>1. committed' \in {committed, offset} /\ offset = committed + 1
        /\ committed \in Nat
    BY <1>1 DEF CommitOffset, InOrder, TypeOK
  <2>2. \A o \in 1..committed' : o \in 1..committed \/ o = offset
    BY <2>1
  <2>3. deployment.batch = 1 /\ Telemetry(offset) => Delivered(offset)
    BY <1>1 DEF HandledIsDelivered, CommitOffset
  <2>4. AcknowledgedIsDelivered'
    BY <1>2, <2>2, <2>3, DeliveredStays DEF IInv, AcknowledgedIsDelivered, Telemetry,
       Grows
  <2>5. CommittedArtifactIsWritten'
    BY DEF IInv, CommittedArtifactIsWritten, CommitOffset
  <2> QED
    BY <2>4, <2>5
<1> QED
  BY <1>3, <1>4, <1>5, <1>6, <1>7, <1>8, <1>9 DEF IInv

LEMMA OpenAttemptHolds == ASSUME IInv, OpenAttempt PROVE IInv'
<1>1. TypeOK /\ PendingIsOwn /\ InOrder /\ InFlight /\ AttemptInHand
      /\ RecordsAreWritten /\ HandledIsDelivered
  BY DEF IInv
<1>2. Grows
  BY <1>1 DEF Grows, TypeOK, OpenAttempt, ClearPending
<1>3. TypeOK'
  <2>1. attempt[batch] \in {"none", "pending", "unknown", "resolved"}
    BY <1>1 DEF TypeOK, InFlight, OpenAttempt
  <2>2. \/ attempt' = attempt
        \/ \E s \in {"none", "pending", "unknown", "resolved"} :
             attempt' = [attempt EXCEPT ![batch] = s]
    BY <2>1 DEF OpenAttempt
  <2>3. attempt' \in [Batches -> {"none", "pending", "unknown", "resolved"}]
    BY <1>1, <2>2, UpdateTypes DEF TypeOK
  <2>4. pending' = pending \/ pending' = [pending EXCEPT ![RunOf(batch)] = {}]
    BY DEF OpenAttempt, ClearPending
  <2>5. pending' \in [Runs -> SUBSET Offsets]
    BY <1>1, <2>4, UpdateTypes DEF TypeOK
  <2> QED
    BY <1>1, <2>3, <2>5, MaxFaultsAssumption DEF TypeOK, PcLabels, OpenAttempt
<1>4. PendingIsOwn' /\ InOrder'
  BY <1>1 DEF TypeOK, PendingIsOwn, InOrder, InFlight, Telemetry, OpenAttempt,
     ClearPending
<1>5. InFlight'
  BY <1>1 DEF TypeOK, InFlight, OpenAttempt, ClearPending
<1>6. AttemptInHand'
  BY <1>1 DEF TypeOK, AttemptInHand, InFlight, OpenAttempt, ClearPending
<1>7. RecordsAreWritten'
  BY <1>1, <1>2, DeliveredStays DEF TypeOK, RecordsAreWritten, InFlight, OpenAttempt,
     ClearPending
<1>8. HandledIsDelivered'
  <2>1. batch \in Batches /\ offset \in batch /\ offset' = offset /\ copies' = copies
    BY <1>1 DEF InFlight, OpenAttempt
  <2>2. pc' = "commit" => copies[batch] > 0
    BY <1>1, <2>1 DEF RecordsAreWritten, OpenAttempt
  <2> QED
    BY <2>1, <2>2 DEF HandledIsDelivered, Delivered
<1>9. AcknowledgedIsDelivered' /\ CommittedArtifactIsWritten'
  BY <1>2, KeepsPromises DEF OpenAttempt, ClearPending
<1> QED
  BY <1>3, <1>4, <1>5, <1>6, <1>7, <1>8, <1>9 DEF IInv

LEMMA ReconcileHolds == ASSUME IInv, Reconcile PROVE IInv'
<1>1. TypeOK /\ PendingIsOwn /\ InOrder /\ InFlight /\ AttemptInHand
      /\ RecordsAreWritten /\ HandledIsDelivered
  BY DEF IInv
<1>2. Grows
  BY <1>1 DEF Grows, TypeOK, Reconcile
<1>3. TypeOK'
  BY <1>1, MaxFaultsAssumption, LogAssumption DEF TypeOK, PcLabels, InFlight, Reconcile
<1>4. PendingIsOwn' /\ InOrder'
  BY <1>1 DEF TypeOK, PendingIsOwn, InOrder, InFlight, Telemetry, Reconcile
<1>5. InFlight'
  <2>1. batch \in Batches /\ UNCHANGED <<batch, offset, copies>>
    BY <1>1 DEF InFlight, Reconcile
  <2>2. ASSUME deployment.writer = "manifest", <<location[batch], batch>> \in files
        PROVE  copies[batch] > 0
    BY <1>1, <2>1, <2>2 DEF RecordsAreWritten
  <2>3. Reconciled(batch) => copies[batch] > 0
    BY <2>2 DEF Reconciled
  <2>4. pc' \in AfterWrite => Reconciled(batch)
    BY DEF Reconcile
  <2> QED
    BY <1>1, <2>1, <2>3, <2>4 DEF InFlight, Reconcile
<1>6. AttemptInHand'
  BY <1>1 DEF TypeOK, AttemptInHand, InFlight, Reconcile
<1>7. RecordsAreWritten'
  BY <1>1, <1>2, DeliveredStays DEF TypeOK, RecordsAreWritten, InFlight, Reconcile
<1>8. HandledIsDelivered'
  BY <1>1, <1>2, DeliveredStays DEF HandledIsDelivered, InFlight, Delivered, Reconcile
<1>9. AcknowledgedIsDelivered' /\ CommittedArtifactIsWritten'
  BY <1>2, KeepsPromises DEF Reconcile
<1> QED
  BY <1>3, <1>4, <1>5, <1>6, <1>7, <1>8, <1>9 DEF IInv

LEMMA SettleUnknownHolds == ASSUME IInv, SettleUnknown PROVE IInv'
<1>1. TypeOK /\ PendingIsOwn /\ InOrder /\ InFlight /\ AttemptInHand
      /\ RecordsAreWritten /\ HandledIsDelivered
  BY DEF IInv
<1>2. Grows
  BY <1>1 DEF Grows, TypeOK, SettleUnknown, ClearPending
<1>3. TypeOK'
  <2>1. attempt' = attempt \/ attempt' = [attempt EXCEPT ![batch] = "resolved"]
    BY DEF SettleUnknown
  <2>2. attempt' \in [Batches -> {"none", "pending", "unknown", "resolved"}]
    BY <1>1, <2>1, UpdateTypes DEF TypeOK
  <2>3. pending' = pending \/ pending' = [pending EXCEPT ![RunOf(batch)] = {}]
    BY DEF SettleUnknown, ClearPending
  <2>4. pending' \in [Runs -> SUBSET Offsets]
    BY <1>1, <2>3, UpdateTypes DEF TypeOK
  <2> QED
    BY <1>1, <2>2, <2>4, MaxFaultsAssumption DEF TypeOK, PcLabels, SettleUnknown
<1>4. PendingIsOwn' /\ InOrder'
  BY <1>1 DEF TypeOK, PendingIsOwn, InOrder, InFlight, Telemetry, SettleUnknown,
     ClearPending
<1>5. InFlight'
  BY <1>1 DEF TypeOK, InFlight, SettleUnknown, ClearPending
<1>6. AttemptInHand'
  BY <1>1 DEF TypeOK, AttemptInHand, InFlight, SettleUnknown, ClearPending
<1>7. RecordsAreWritten'
  BY <1>1, <1>2, DeliveredStays DEF TypeOK, RecordsAreWritten, InFlight, SettleUnknown,
     ClearPending
<1>8. HandledIsDelivered'
  BY <1>1, <1>2, DeliveredStays DEF HandledIsDelivered, InFlight, Delivered,
     SettleUnknown, ClearPending
<1>9. AcknowledgedIsDelivered' /\ CommittedArtifactIsWritten'
  BY <1>2, KeepsPromises DEF SettleUnknown, ClearPending
<1> QED
  BY <1>3, <1>4, <1>5, <1>6, <1>7, <1>8, <1>9 DEF IInv

LEMMA PrepareHolds == ASSUME IInv, Prepare PROVE IInv'
<1>1. TypeOK /\ PendingIsOwn /\ InOrder /\ InFlight /\ AttemptInHand
      /\ RecordsAreWritten /\ HandledIsDelivered
  BY DEF IInv
<1>2. Grows
  BY <1>1 DEF Grows, TypeOK, Prepare
<1>3. TypeOK'
  <2>1. status' = status \/ status' = [status EXCEPT ![RunOf(batch)] = "prepared"]
    BY DEF Prepare
  <2>2. status' \in [Runs -> {"received", "prepared", "committed", "failed"}]
    BY <1>1, <2>1, UpdateTypes DEF TypeOK
  <2>3. pc' \in PcLabels
    BY <1>1 DEF TypeOK, PcLabels, Prepare
  <2>4. faults' \in 0..MaxFaults
    BY <1>1, MaxFaultsAssumption DEF TypeOK, Prepare
  <2>5. retried' \in BOOLEAN
    BY <1>1 DEF TypeOK, Prepare
  <2> QED
    BY <1>1, <2>2, <2>3, <2>4, <2>5 DEF TypeOK, Prepare
<1>4. PendingIsOwn' /\ InOrder'
  BY <1>1 DEF TypeOK, PendingIsOwn, InOrder, InFlight, Telemetry, Prepare
<1>5. InFlight'
  BY <1>1 DEF TypeOK, InFlight, Prepare
<1>6. AttemptInHand'
  BY <1>1 DEF TypeOK, AttemptInHand, InFlight, Prepare
<1>7. RecordsAreWritten'
  BY <1>1, <1>2, DeliveredStays DEF TypeOK, RecordsAreWritten, InFlight, Prepare
<1>8. HandledIsDelivered'
  BY <1>1, <1>2, DeliveredStays DEF HandledIsDelivered, InFlight, Delivered, Prepare
<1>9. AcknowledgedIsDelivered' /\ CommittedArtifactIsWritten'
  BY <1>2, KeepsPromises DEF Prepare
<1> QED
  BY <1>3, <1>4, <1>5, <1>6, <1>7, <1>8, <1>9 DEF IInv

LEMMA PlaceHolds == ASSUME IInv, Place PROVE IInv'
<1>1. TypeOK /\ PendingIsOwn /\ InOrder /\ InFlight /\ AttemptInHand
      /\ RecordsAreWritten /\ HandledIsDelivered
  BY DEF IInv
<1>2. Grows
  BY <1>1 DEF Grows, TypeOK, Place, PlaceThen
<1>3. TypeOK'
  <2>1. Path(batch, sequence[RunOf(batch)]) \in Paths
    BY <1>1, PathOfBatch DEF InFlight, Place, PlaceThen
  <2>2. location' \in [Batches -> Paths \cup {NoPath}]
    BY <1>1, <2>1 DEF TypeOK, Place, PlaceThen
  <2> QED
    BY <1>1, <2>2, MaxFaultsAssumption DEF TypeOK, PcLabels, Place, PlaceThen
<1>4. PendingIsOwn' /\ InOrder'
  BY <1>1 DEF TypeOK, PendingIsOwn, InOrder, InFlight, Telemetry, Place, PlaceThen
<1>5. InFlight'
  BY <1>1 DEF TypeOK, InFlight, Place, PlaceThen
<1>6. AttemptInHand'
  BY <1>1 DEF TypeOK, AttemptInHand, InFlight, Place, PlaceThen
<1>7. RecordsAreWritten'
  BY <1>1, <1>2, DeliveredStays DEF TypeOK, RecordsAreWritten, InFlight, Place,
     PlaceThen
<1>8. HandledIsDelivered'
  BY <1>1, <1>2, DeliveredStays DEF HandledIsDelivered, InFlight, Delivered, Place,
     PlaceThen
<1>9. AcknowledgedIsDelivered' /\ CommittedArtifactIsWritten'
  BY <1>2, KeepsPromises DEF Place, PlaceThen
<1> QED
  BY <1>3, <1>4, <1>5, <1>6, <1>7, <1>8, <1>9 DEF IInv

LEMMA WriteManifestHolds == ASSUME IInv, WriteManifest PROVE IInv'
<1>1. TypeOK /\ PendingIsOwn /\ InOrder /\ InFlight /\ AttemptInHand
      /\ RecordsAreWritten /\ HandledIsDelivered
  BY DEF IInv
<1>2. Grows
  BY <1>1, CopyGrows DEF InFlight, WriteManifest
<1>3. TypeOK'
  <2>1. batch \in Batches
    BY <1>1 DEF InFlight, WriteManifest
  <2>2. copies' \in [Batches -> Nat]
    BY <1>1, <2>1, CopyIsThere DEF TypeOK, WriteManifest
  <2>3. status' \in {status, [status EXCEPT ![RunOf(batch)] = "failed"]}
    BY DEF WriteManifest
  <2>4. status' \in [Runs -> {"received", "prepared", "committed", "failed"}]
    BY <1>1, <2>3, UpdateTypes DEF TypeOK
  <2>5. files' \subseteq Paths \X (Batches \cup {Torn})
    BY <1>1, <2>1, PathOfBatch DEF TypeOK, WriteManifest
  <2> QED
    BY <1>1, <2>2, <2>4, <2>5, MaxFaultsAssumption DEF TypeOK, PcLabels, WriteManifest
<1>4. PendingIsOwn' /\ InOrder'
  BY <1>1 DEF TypeOK, PendingIsOwn, InOrder, InFlight, Telemetry, WriteManifest
<1>5. InFlight'
  <2>1. batch \in Batches /\ UNCHANGED <<batch, offset>>
    BY <1>1 DEF InFlight, WriteManifest
  <2>2. pc' \in AfterWrite => copies' = Copied
    BY DEF WriteManifest
  <2> QED
    BY <1>1, <2>1, <2>2, CopyIsThere DEF InFlight, WriteManifest
<1>6. AttemptInHand'
  BY <1>1 DEF TypeOK, AttemptInHand, InFlight, WriteManifest
<1>7. RecordsAreWritten'
  <2>1. batch \in Batches /\ attempt' = attempt
    BY <1>1 DEF InFlight, WriteManifest
  <2>2. ASSUME NEW f \in files', f[2] \in Batches PROVE f \in files \/ (f[2] = batch
        /\ copies' = Copied)
    BY <2>2, TornIsNoBatch DEF WriteManifest
  <2>3. ASSUME NEW f \in files', f[2] \in Batches PROVE copies'[f[2]] > 0
    BY <1>1, <1>2, <2>1, <2>2, <2>3, DeliveredStays, CopyIsThere DEF RecordsAreWritten
  <2> QED
    BY <1>1, <1>2, <2>1, <2>3, DeliveredStays DEF RecordsAreWritten
<1>8. HandledIsDelivered'
  BY <1>1, <1>2, DeliveredStays DEF HandledIsDelivered, InFlight, Delivered,
     WriteManifest
<1>9. AcknowledgedIsDelivered' /\ CommittedArtifactIsWritten'
  BY <1>2, KeepsPromises DEF WriteManifest
<1> QED
  BY <1>3, <1>4, <1>5, <1>6, <1>7, <1>8, <1>9 DEF IInv

LEMMA AppendTableHolds == ASSUME IInv, AppendTable PROVE IInv'
<1>1. TypeOK /\ PendingIsOwn /\ InOrder /\ InFlight /\ AttemptInHand
      /\ RecordsAreWritten /\ HandledIsDelivered
  BY DEF IInv
<1>2. Grows
  BY <1>1, CopyGrows DEF InFlight, AppendTable
<1>3. TypeOK'
  <2>1. batch \in Batches
    BY <1>1 DEF InFlight, AppendTable
  <2>2. copies' \in [Batches -> Nat]
    BY <1>1, <2>1, CopyIsThere DEF TypeOK, AppendTable
  <2>3. status' \in {status, [status EXCEPT ![RunOf(batch)] = "failed"]}
    BY DEF AppendTable
  <2>4. status' \in [Runs -> {"received", "prepared", "committed", "failed"}]
    BY <1>1, <2>3, UpdateTypes DEF TypeOK
  <2>5. pc' \in PcLabels
    BY <1>1 DEF TypeOK, PcLabels, AppendTable
  <2>6. faults' \in 0..MaxFaults
    BY <1>1, MaxFaultsAssumption DEF TypeOK, AppendTable
  <2>7. retried' \in BOOLEAN
    BY <1>1 DEF TypeOK, AppendTable
  <2> QED
    BY <1>1, <2>2, <2>4, <2>5, <2>6, <2>7 DEF TypeOK, AppendTable
<1>4. PendingIsOwn' /\ InOrder'
  BY <1>1 DEF TypeOK, PendingIsOwn, InOrder, InFlight, Telemetry, AppendTable
<1>5. InFlight'
  BY <1>1 DEF TypeOK, InFlight, AppendTable
<1>6. AttemptInHand'
  BY <1>1 DEF TypeOK, AttemptInHand, InFlight, AppendTable
<1>7. RecordsAreWritten'
  BY <1>1, <1>2, DeliveredStays DEF TypeOK, RecordsAreWritten, InFlight, AppendTable
<1>8. HandledIsDelivered'
  BY <1>1, <1>2, DeliveredStays DEF HandledIsDelivered, InFlight, Delivered, AppendTable
<1>9. AcknowledgedIsDelivered' /\ CommittedArtifactIsWritten'
  BY <1>2, KeepsPromises DEF AppendTable
<1> QED
  BY <1>3, <1>4, <1>5, <1>6, <1>7, <1>8, <1>9 DEF IInv

LEMMA ReadbackHolds == ASSUME IInv, Readback PROVE IInv'
<1>1. TypeOK /\ PendingIsOwn /\ InOrder /\ InFlight /\ AttemptInHand
      /\ RecordsAreWritten /\ HandledIsDelivered
  BY DEF IInv
<1>2. Grows
  BY <1>1 DEF Grows, TypeOK, Readback
<1>3. TypeOK'
  BY <1>1, MaxFaultsAssumption, LogAssumption DEF TypeOK, PcLabels, InFlight, Readback
<1>4. PendingIsOwn' /\ InOrder'
  BY <1>1 DEF TypeOK, PendingIsOwn, InOrder, InFlight, Telemetry, Readback
<1>5. InFlight'
  BY <1>1 DEF TypeOK, InFlight, Readback
<1>6. AttemptInHand'
  BY <1>1 DEF TypeOK, AttemptInHand, InFlight, Readback
<1>7. RecordsAreWritten'
  BY <1>1, <1>2, DeliveredStays DEF TypeOK, RecordsAreWritten, InFlight, Readback
<1>8. HandledIsDelivered'
  BY <1>1, <1>2, DeliveredStays DEF HandledIsDelivered, InFlight, Delivered, Readback
<1>9. AcknowledgedIsDelivered' /\ CommittedArtifactIsWritten'
  BY <1>2, KeepsPromises DEF Readback
<1> QED
  BY <1>3, <1>4, <1>5, <1>6, <1>7, <1>8, <1>9 DEF IInv

LEMMA RunExternalCommandHolds == ASSUME IInv, RunExternalCommand PROVE IInv'
<1>1. TypeOK /\ PendingIsOwn /\ InOrder /\ InFlight /\ AttemptInHand
      /\ RecordsAreWritten /\ HandledIsDelivered
  BY DEF IInv
<1>2. Grows
  BY <1>1, CopyGrows DEF InFlight, RunExternalCommand
<1>3. TypeOK'
  <2>1. batch \in Batches
    BY <1>1 DEF InFlight, RunExternalCommand
  <2>2. copies' \in [Batches -> Nat]
    BY <1>1, <2>1, CopyIsThere DEF TypeOK, RunExternalCommand
  <2>3. status' \in {status, [status EXCEPT ![RunOf(batch)] = "failed"]}
    BY DEF RunExternalCommand
  <2>4. status' \in [Runs -> {"received", "prepared", "committed", "failed"}]
    BY <1>1, <2>3, UpdateTypes DEF TypeOK
  <2> QED
    BY <1>1, <2>2, <2>4, MaxFaultsAssumption DEF TypeOK, PcLabels, RunExternalCommand
<1>4. PendingIsOwn' /\ InOrder'
  BY <1>1 DEF TypeOK, PendingIsOwn, InOrder, InFlight, Telemetry, RunExternalCommand
<1>5. InFlight'
  <2>1. batch \in Batches /\ UNCHANGED <<batch, offset>>
    BY <1>1 DEF InFlight, RunExternalCommand
  <2>2. pc' \in AfterWrite => copies' = Copied
    BY DEF RunExternalCommand
  <2> QED
    BY <1>1, <2>1, <2>2, CopyIsThere DEF InFlight, RunExternalCommand
<1>6. AttemptInHand'
  BY <1>1 DEF TypeOK, AttemptInHand, InFlight, RunExternalCommand
<1>7. RecordsAreWritten'
  BY <1>1, <1>2, DeliveredStays DEF TypeOK, RecordsAreWritten, InFlight,
     RunExternalCommand
<1>8. HandledIsDelivered'
  BY <1>1, <1>2, DeliveredStays DEF HandledIsDelivered, InFlight, Delivered,
     RunExternalCommand
<1>9. AcknowledgedIsDelivered' /\ CommittedArtifactIsWritten'
  BY <1>2, KeepsPromises DEF RunExternalCommand
<1> QED
  BY <1>3, <1>4, <1>5, <1>6, <1>7, <1>8, <1>9 DEF IInv

LEMMA HoldUnknownHolds == ASSUME IInv, HoldUnknown PROVE IInv'
<1>1. TypeOK /\ PendingIsOwn /\ InOrder /\ InFlight /\ AttemptInHand
      /\ RecordsAreWritten /\ HandledIsDelivered
  BY DEF IInv
<1>2. Grows
  BY <1>1 DEF Grows, TypeOK, HoldUnknown
<1>3. TypeOK'
  <2>1. attempt' \in [Batches -> {"none", "pending", "unknown", "resolved"}]
        /\ faults' \in 0..MaxFaults
    BY <1>1, MaxFaultsAssumption DEF TypeOK, InFlight, HoldUnknown
  <2> QED
    BY <1>1, <2>1, LogAssumption DEF TypeOK, PcLabels, HoldUnknown
<1>4. PendingIsOwn' /\ InOrder'
  BY <1>1 DEF TypeOK, PendingIsOwn, InOrder, InFlight, Telemetry, HoldUnknown
<1>5. InFlight'
  BY <1>1 DEF TypeOK, InFlight, HoldUnknown
<1>6. AttemptInHand'
  BY <1>1 DEF TypeOK, AttemptInHand, InFlight, HoldUnknown
<1>7. RecordsAreWritten'
  BY <1>1, <1>2, DeliveredStays DEF TypeOK, RecordsAreWritten, InFlight, HoldUnknown
<1>8. HandledIsDelivered'
  BY <1>1, <1>2, DeliveredStays DEF HandledIsDelivered, InFlight, Delivered, HoldUnknown
<1>9. AcknowledgedIsDelivered' /\ CommittedArtifactIsWritten'
  BY <1>2, KeepsPromises DEF HoldUnknown
<1> QED
  BY <1>3, <1>4, <1>5, <1>6, <1>7, <1>8, <1>9 DEF IInv

LEMMA CommitArtifactHolds == ASSUME IInv, CommitArtifact PROVE IInv'
<1>1. TypeOK /\ PendingIsOwn /\ InOrder /\ InFlight /\ AttemptInHand
      /\ RecordsAreWritten /\ HandledIsDelivered
  BY DEF IInv
<1>2. Grows
  BY <1>1 DEF Grows, TypeOK, CommitArtifact
<1>3. TypeOK'
  BY <1>1, MaxFaultsAssumption, LogAssumption DEF TypeOK, PcLabels, InFlight,
     CommitArtifact
<1>4. PendingIsOwn' /\ InOrder'
  BY <1>1 DEF TypeOK, PendingIsOwn, InOrder, InFlight, Telemetry, CommitArtifact
<1>5. InFlight'
  BY <1>1 DEF TypeOK, InFlight, CommitArtifact
<1>6. AttemptInHand'
  BY <1>1 DEF TypeOK, AttemptInHand, InFlight, CommitArtifact
<1>7. RecordsAreWritten'
  BY <1>1, <1>2, DeliveredStays DEF TypeOK, RecordsAreWritten, InFlight, CommitArtifact
<1>8. HandledIsDelivered'
  BY <1>1, <1>2, DeliveredStays DEF HandledIsDelivered, InFlight, Delivered,
     CommitArtifact
<1>9. AcknowledgedIsDelivered' /\ CommittedArtifactIsWritten'
  <2>1. AcknowledgedIsDelivered'
    BY DEF IInv, AcknowledgedIsDelivered, Telemetry, Delivered, CommitArtifact
  <2>2. batch \in Batches /\ copies[batch] > 0 /\ copies' = copies
    BY <1>1 DEF InFlight, CommitArtifact
  <2>3. \A r \in Runs : status'[r] = "committed" => status[r] = "committed"
        \/ r = RunOf(batch)
    BY <1>1 DEF TypeOK, CommitArtifact
  <2>4. CommittedArtifactIsWritten'
    BY <2>2, <2>3 DEF IInv, CommittedArtifactIsWritten
  <2> QED
    BY <2>1, <2>4
<1> QED
  BY <1>3, <1>4, <1>5, <1>6, <1>7, <1>8, <1>9 DEF IInv

LEMMA ResolveAttemptHolds == ASSUME IInv, ResolveAttempt PROVE IInv'
<1>1. TypeOK /\ PendingIsOwn /\ InOrder /\ InFlight /\ AttemptInHand
      /\ RecordsAreWritten /\ HandledIsDelivered
  BY DEF IInv
<1>2. Grows
  BY <1>1 DEF Grows, TypeOK, ResolveAttempt
<1>3. TypeOK'
  <2>1. attempt' = attempt \/ attempt' = [attempt EXCEPT ![batch] = "resolved"]
    BY DEF ResolveAttempt
  <2>2. attempt' \in [Batches -> {"none", "pending", "unknown", "resolved"}]
    BY <1>1, <2>1, UpdateTypes DEF TypeOK
  <2> QED
    BY <1>1, <2>2, MaxFaultsAssumption DEF TypeOK, PcLabels, ResolveAttempt
<1>4. PendingIsOwn' /\ InOrder'
  BY <1>1 DEF TypeOK, PendingIsOwn, InOrder, InFlight, Telemetry, ResolveAttempt
<1>5. InFlight'
  BY <1>1 DEF TypeOK, InFlight, ResolveAttempt
<1>6. AttemptInHand'
  BY <1>1 DEF TypeOK, AttemptInHand, InFlight, ResolveAttempt
<1>7. RecordsAreWritten'
  BY <1>1, <1>2, DeliveredStays DEF TypeOK, RecordsAreWritten, InFlight, ResolveAttempt
<1>8. HandledIsDelivered'
  BY <1>1, <1>2, DeliveredStays DEF HandledIsDelivered, InFlight, Delivered,
     ResolveAttempt
<1>9. AcknowledgedIsDelivered' /\ CommittedArtifactIsWritten'
  BY <1>2, KeepsPromises DEF ResolveAttempt
<1> QED
  BY <1>3, <1>4, <1>5, <1>6, <1>7, <1>8, <1>9 DEF IInv

LEMMA AnnounceHolds == ASSUME IInv, Announce PROVE IInv'
<1>1. TypeOK /\ PendingIsOwn /\ InOrder /\ InFlight /\ AttemptInHand
      /\ RecordsAreWritten /\ HandledIsDelivered
  BY DEF IInv
<1>2. Grows
  BY <1>1 DEF Grows, TypeOK, Announce, ClearPending
<1>3. TypeOK'
  <2>1. pending' \in [Runs -> SUBSET Offsets]
    BY <1>1, UpdateTypes DEF Announce, ClearPending
  <2> QED
    BY <1>1, <2>1, MaxFaultsAssumption DEF TypeOK, PcLabels, Announce
<1>4. PendingIsOwn' /\ InOrder'
  BY <1>1 DEF TypeOK, PendingIsOwn, InOrder, InFlight, Telemetry, Announce, ClearPending
<1>5. InFlight'
  BY <1>1 DEF TypeOK, InFlight, Announce, ClearPending
<1>6. AttemptInHand'
  BY <1>1 DEF TypeOK, AttemptInHand, InFlight, Announce, ClearPending
<1>7. RecordsAreWritten'
  BY <1>1, <1>2, DeliveredStays DEF TypeOK, RecordsAreWritten, InFlight, Announce,
     ClearPending
<1>8. HandledIsDelivered'
  BY <1>1, <1>2, DeliveredStays DEF HandledIsDelivered, InFlight, Delivered, Announce,
     ClearPending
<1>9. AcknowledgedIsDelivered' /\ CommittedArtifactIsWritten'
  BY <1>2, KeepsPromises DEF Announce, ClearPending
<1> QED
  BY <1>3, <1>4, <1>5, <1>6, <1>7, <1>8, <1>9 DEF IInv

LEMMA NextHolds == IInv /\ [Next]_vars => IInv'
<1>1. ASSUME IInv, UNCHANGED vars PROVE IInv'
  BY <1>1 DEF vars, IInv, TypeOK, PendingIsOwn, InOrder, InFlight, AttemptInHand,
     RecordsAreWritten, HandledIsDelivered, AcknowledgedIsDelivered,
     CommittedArtifactIsWritten, Telemetry, Delivered
<1> QED
  BY <1>1, CrashHolds, RestartHolds, FetchMessageHolds, ProjectHolds, CollectHolds,
     CommitOffsetHolds, OpenAttemptHolds, ReconcileHolds, SettleUnknownHolds,
     PrepareHolds,
     PlaceHolds, WriteManifestHolds, AppendTableHolds, ReadbackHolds,
     RunExternalCommandHolds,
     HoldUnknownHolds, CommitArtifactHolds, ResolveAttemptHolds, AnnounceHolds
  DEF Next, Step

LEMMA InvariantHolds == Spec => []IInv
BY InitHolds, NextHolds, PTL DEF Spec

-------------------------------------------------------------------------------
(* The records, the memory of the process and what it delivers are well    *)
(* typed: a batch it cuts (ProcessEvent) is telemetry of one Run.          *)
THEOREM TypeCorrect == Spec => []TypeOK
<1>1. IInv => TypeOK
  BY DEF IInv
<1> QED
  BY <1>1, InvariantHolds, PTL

(* A process that batches one event acknowledges (CommitMessages) no       *)
(* telemetry that is not in the table, whatever calls fail and wherever    *)
(* the process crashes.                                                    *)
THEOREM AcknowledgedMessagesAreDelivered == Spec => []AcknowledgedIsDelivered
<1>1. IInv => AcknowledgedIsDelivered
  BY DEF IInv
<1> QED
  BY <1>1, InvariantHolds, PTL

(* The artifact of a Run is recorded as committed (Commit of a writer)     *)
(* only after a batch of that Run was written.                             *)
THEOREM CommittedArtifactsAreWritten == Spec => []CommittedArtifactIsWritten
<1>1. IInv => CommittedArtifactIsWritten
  BY DEF IInv
<1> QED
  BY <1>1, InvariantHolds, PTL

(* Every step of the consumer is a step of the Delivery Attempt's ledger,  *)
(* or leaves it: persistWithDelivery.                                      *)
LEMMA LedgerSteps ==
  ASSUME IInv, [Next]_vars
  PROVE  [Ledger!Next]_(Ledger!vars)
<1> DEFINE C == IF deployment.durable THEN copies ELSE [b \in Batches |-> 0]
<1>1. TypeOK /\ InFlight /\ AttemptInHand /\ RecordsAreWritten
  BY DEF IInv
<1>2. CASE UNCHANGED <<deployment, attempt, copies>>
  BY <1>2 DEF Ledger!vars
<1>3. ASSUME batch \in Batches, deployment' = deployment, attempt' = attempt,
             copies' = Copied, deployment.durable => attempt[batch] = "pending"
      PROVE  [Ledger!Next]_(Ledger!vars)
  <2>1. CASE deployment.durable
    BY <1>3, <2>1 DEF Ledger!Next, Ledger!Append, Copied
  <2>2. CASE ~deployment.durable
    BY <1>3, <2>2 DEF Ledger!vars
  <2> QED
    BY <2>1, <2>2
<1>4. ASSUME WriteManifest \/ AppendTable \/ RunExternalCommand
      PROVE  [Ledger!Next]_(Ledger!vars)
  <2>1. batch \in Batches /\ deployment' = deployment /\ attempt' = attempt
        /\ copies' \in {copies, Copied}
        /\ (deployment.durable => attempt[batch] = "pending")
    BY <1>1, <1>4 DEF InFlight, AttemptInHand, WriteManifest, AppendTable,
       RunExternalCommand
  <2> QED
    BY <1>2, <1>3, <2>1
<1>5. ASSUME batch \in Batches, deployment.durable, UNCHANGED <<deployment, copies>>
      PROVE  /\ /\ attempt[batch] = "none"
                /\ attempt' = [attempt EXCEPT ![batch] = "pending"]
                => Ledger!Next
             /\ /\ attempt[batch] = "pending"
                /\ attempt' = [attempt EXCEPT ![batch] = "unknown"]
                => Ledger!Next
             /\ /\ attempt[batch] \in {"pending", "unknown"} /\ copies[batch] > 0
                /\ attempt' = [attempt EXCEPT ![batch] = "resolved"]
                => Ledger!Next
  BY <1>5 DEF Ledger!Next, Ledger!Open, Ledger!Hold, Ledger!Resolve
<1>6. ASSUME OpenAttempt PROVE [Ledger!Next]_(Ledger!vars)
  <2>1. batch \in Batches /\ deployment.durable /\ UNCHANGED <<deployment, copies>>
    BY <1>1, <1>6 DEF InFlight, AttemptInHand, OpenAttempt
  <2>2. \/ attempt' = attempt
        \/ attempt[batch] = "none" /\ attempt' = [attempt EXCEPT ![batch] = "pending"]
    BY <1>1, <1>6 DEF TypeOK, OpenAttempt
  <2> QED
    BY <1>2, <1>5, <2>1, <2>2
<1>7. ASSUME SettleUnknown \/ ResolveAttempt PROVE [Ledger!Next]_(Ledger!vars)
  <2>1. batch \in Batches /\ deployment.durable /\ UNCHANGED <<deployment, copies>>
        /\ copies[batch] > 0 /\ attempt[batch] \in {"pending", "unknown"}
    BY <1>1, <1>7 DEF InFlight, AttemptInHand, SettleUnknown, ResolveAttempt
  <2>2. attempt' = attempt \/ attempt' = [attempt EXCEPT ![batch] = "resolved"]
    BY <1>7 DEF SettleUnknown, ResolveAttempt
  <2> QED
    BY <1>2, <1>5, <2>1, <2>2
<1>8. ASSUME HoldUnknown PROVE [Ledger!Next]_(Ledger!vars)
  <2>1. batch \in Batches /\ deployment.durable /\ UNCHANGED <<deployment, copies>>
        /\ attempt[batch] = "pending"
    BY <1>1, <1>8 DEF InFlight, AttemptInHand, HoldUnknown
  <2>2. attempt' = attempt \/ attempt' = [attempt EXCEPT ![batch] = "unknown"]
    BY <1>8 DEF HoldUnknown
  <2> QED
    BY <1>2, <1>5, <2>1, <2>2
<1>9. CASE \/ FetchMessage \/ Project \/ Collect \/ CommitOffset \/ Reconcile
           \/ Prepare \/ Place \/ Readback \/ CommitArtifact \/ Announce
           \/ Crash \/ Restart \/ UNCHANGED vars
  <2>1. UNCHANGED <<deployment, attempt, copies>>
    BY <1>9 DEF FetchMessage, Project, Collect, CommitOffset, Reconcile, Prepare,
       Place, PlaceThen, Readback, CommitArtifact, Announce, Crash, Restart, RestartAt,
       vars
  <2> QED
    BY <1>2, <2>1
<1> QED
  BY <1>4, <1>6, <1>7, <1>8, <1>9 DEF Next, Step

(* The durable Delivery Attempts implement their ledger.                   *)
THEOREM DeliveryAttemptsImplementLedger == Spec => ImplementsLedger
<1>1. Init => Ledger!Init
  BY DEF Init, Ledger!Init
<1>2. IInv /\ [Next]_vars => [Ledger!Next]_(Ledger!vars)
  BY LedgerSteps
<1> QED
  BY <1>1, <1>2, InvariantHolds, PTL DEF Spec, ImplementsLedger, Ledger!Spec

-------------------------------------------------------------------------------
(* While no call has failed and the process has not crashed, the events of *)
(* a batch are pending until it is announced, and no pending event is in   *)
(* the table but those of the batch that was just written.                 *)

AfterCopy == {"readback", "publish", "resolve", "announce"}

NoneHeld ==
  /\ pc \notin {"down", "hold", "reconcile", "settle"}
  /\ \A b \in Batches : attempt[b] # "unknown"

BatchIsPending == pc \in InDelivery => batch = pending[RunOf(batch)]

(* The message in hand is pending once it was collected, and written only  *)
(* with the batch it completes.                                            *)
HandledAtMost ==
  /\ \A r \in Runs : pending[r] \subseteq 1..offset
  /\ pc \in {"project", "collect"} => \A r \in Runs : pending[r] \subseteq 1..committed
  /\ \A b \in Batches : copies[b] > 0 => b \subseteq 1..offset
  /\ pc \notin AfterCopy \cup {"commit"} =>
       \A b \in Batches : copies[b] > 0 => b \subseteq 1..committed

PendingIsUnwritten ==
  \A r \in Runs, b \in Batches :
    copies[b] > 0 /\ pending[r] \cap b # {} => pc \in AfterCopy /\ b = batch

WrittenOnce ==
  \A b, c \in Batches :
    copies[b] > 0 /\ copies[c] > 0 /\ b \cap c # {} => b = c /\ copies[b] = 1

Kept(o) == Telemetry(o) => Delivered(o) \/ o \in pending[Log[o].run]
NothingLost ==
  /\ \A o \in 1..committed : Kept(o)
  /\ pc = "commit" => Kept(offset)

FaultFree ==
  /\ NoneHeld /\ BatchIsPending /\ HandledAtMost /\ PendingIsUnwritten
  /\ WrittenOnce /\ NothingLost

FaultFreeInv == faults = 0 => FaultFree

USE DEF AfterCopy

(* A pending batch is not in the table.                                    *)
LEMMA InHandIsUnwritten ==
  ASSUME IInv, FaultFree, pc \in InDelivery \ AfterCopy
  PROVE  /\ batch \in Batches /\ copies[batch] = 0 /\ RunOf(batch) \in Runs
         /\ \A b \in Batches : copies[b] > 0 => batch \cap b = {}
<1>1. batch \in Batches /\ offset \in batch /\ batch = pending[RunOf(batch)] /\ RunOf(batch) \in Runs
  BY BatchFacts DEF IInv, InFlight, FaultFree, BatchIsPending
<1>2. \A b \in Batches : copies[b] > 0 => batch \cap b = {}
  BY <1>1 DEF FaultFree, PendingIsUnwritten
<1>3. copies[batch] \in Nat
  BY <1>1 DEF IInv, TypeOK
<1> QED
  BY <1>1, <1>2, <1>3

(* The calls between two changes of the table or of the pending events.    *)
LEMMA CallsKeepFaultFree ==
  ASSUME IInv, FaultFree, UNCHANGED <<copies, pending, committed, offset, batch>>,
         \A b \in Batches : attempt'[b] # "unknown",
         \/ pc = "fetch" /\ pc' = "fetch"
         \/ pc \in {"open", "prepare", "place"} /\ pc' \in {"prepare", "place", "write"}
         \/ pc \in AfterCopy /\ pc' \in AfterCopy
  PROVE  FaultFree'
<1>1. NoneHeld' /\ BatchIsPending'
  BY DEF FaultFree, NoneHeld, BatchIsPending
<1>2. HandledAtMost' /\ PendingIsUnwritten'
  BY DEF FaultFree, HandledAtMost, PendingIsUnwritten
<1>3. WrittenOnce' /\ NothingLost'
  BY DEF FaultFree, WrittenOnce, NothingLost, Kept, Delivered, Telemetry
<1> QED
  BY <1>1, <1>2, <1>3 DEF FaultFree

(* A full batch is in the table once its writer returned.                  *)
LEMMA WriteKeepsFaultFree ==
  ASSUME IInv, FaultFree, UNCHANGED <<attempt, pending, committed, offset, batch>>,
         pc = "write", copies' = Copied, pc' \in {"readback", "publish"}
  PROVE  FaultFree'
<1>1. /\ batch \in Batches /\ copies[batch] = 0 /\ RunOf(batch) \in Runs
      /\ \A b \in Batches : copies[b] > 0 => batch \cap b = {}
  BY InHandIsUnwritten
<1>2. TypeOK /\ batch = pending[RunOf(batch)]
  BY DEF IInv, FaultFree, BatchIsPending
<1>3. copies'[batch] = 1 /\ \A b \in Batches \ {batch} : copies'[b] = copies[b]
  BY <1>1, <1>2 DEF TypeOK, Copied
<1>4. NoneHeld' /\ BatchIsPending'
  BY DEF FaultFree, NoneHeld, BatchIsPending
<1>5. HandledAtMost'
  BY <1>1, <1>2, <1>3 DEF FaultFree, HandledAtMost
<1>6. PendingIsUnwritten'
  BY <1>1, <1>3 DEF FaultFree, PendingIsUnwritten
<1>7. WrittenOnce'
  BY <1>1, <1>3 DEF FaultFree, WrittenOnce
<1>8. NothingLost'
  BY <1>1, <1>3 DEF FaultFree, NothingLost, Kept, Delivered, Telemetry
<1> QED
  BY <1>4, <1>5, <1>6, <1>7, <1>8 DEF FaultFree

LEMMA FetchKeepsFaultFree ==
  ASSUME IInv, FaultFree, FetchMessage, UNCHANGED faults
  PROVE  FaultFree'
<1>1. /\ pc = "fetch" /\ pc' = "project" /\ offset = committed /\ offset' = offset + 1
      /\ offset \in Nat /\ UNCHANGED <<committed, attempt, copies, pending, batch>>
  BY LogAssumption DEF FetchMessage, IInv, TypeOK, InOrder
<1>2. 1..offset \subseteq 1..offset'
  BY <1>1
<1>3. NoneHeld' /\ BatchIsPending'
  BY <1>1 DEF FaultFree, NoneHeld, BatchIsPending
<1>4. HandledAtMost'
  BY <1>1, <1>2 DEF FaultFree, HandledAtMost
<1>5. PendingIsUnwritten' /\ WrittenOnce'
  BY <1>1 DEF FaultFree, PendingIsUnwritten, WrittenOnce
<1>6. NothingLost'
  BY <1>1 DEF FaultFree, NothingLost, Kept, Delivered, Telemetry
<1> QED
  BY <1>3, <1>4, <1>5, <1>6 DEF FaultFree

LEMMA ProjectKeepsFaultFree ==
  ASSUME IInv, FaultFree, Project
  PROVE  FaultFree'
<1>1. /\ pc = "project" /\ pc' = (IF Telemetry(offset) THEN "collect" ELSE "commit")
      /\ UNCHANGED <<committed, attempt, copies, pending, batch, offset>>
  BY DEF Project, Telemetry
<1>2. NoneHeld' /\ BatchIsPending'
  BY <1>1 DEF FaultFree, NoneHeld, BatchIsPending
<1>3. HandledAtMost' /\ PendingIsUnwritten' /\ WrittenOnce'
  BY <1>1 DEF FaultFree, HandledAtMost, PendingIsUnwritten, WrittenOnce
<1>4. NothingLost'
  BY <1>1 DEF FaultFree, NothingLost, Kept, Delivered, Telemetry
<1> QED
  BY <1>2, <1>3, <1>4 DEF FaultFree

(* The event that is collected is after everything written so far.         *)
LEMMA CollectKeepsFaultFree ==
  ASSUME IInv, FaultFree, Collect
  PROVE  FaultFree'
<1> DEFINE r == Log[offset].run
           events == pending[r] \cup {offset}
<1>1. /\ TypeOK /\ pc = "collect" /\ offset = committed + 1 /\ committed \in Nat /\ offset \in Nat
      /\ Telemetry(offset) /\ offset \in Offsets /\ r \in Runs
  <2>1. pc = "collect" /\ TypeOK /\ offset = committed + 1 /\ Telemetry(offset)
    BY DEF Collect, IInv, InOrder
  <2>2. committed \in Nat /\ offset \in Offsets
    BY <2>1, LogAssumption DEF TypeOK, Offsets
  <2> QED
    BY <2>1, <2>2, LogAssumption DEF Offsets, Runs
<1>2. /\ pending'[r] = events /\ \A q \in Runs \ {r} : pending'[q] = pending[q]
      /\ UNCHANGED <<committed, attempt, copies, offset>>
      /\ \/ pc' = "commit"
         \/ pc' \in {"open", "prepare"} /\ batch' = events
  BY <1>1 DEF Collect, TypeOK
<1>3. 1..committed \subseteq 1..offset /\ offset \in 1..offset /\ offset \notin 1..committed
  BY <1>1
<1>4. \A b \in Batches : copies[b] > 0 => b \subseteq 1..committed /\ offset \notin b
  BY <1>1, <1>3 DEF FaultFree, HandledAtMost
<1>5. events \in Batches /\ RunOf(events) = r
  <2>1. events \in SUBSET Offsets /\ \A o \in events : Log[o].kind = "telemetry" /\ Log[o].run = r
    BY <1>1 DEF TypeOK, IInv, PendingIsOwn, Telemetry
  <2> QED
    BY <1>1, <2>1, EventsAreABatch
<1> HIDE DEF r
<1>6. NoneHeld' /\ BatchIsPending'
  BY <1>2, <1>5 DEF FaultFree, NoneHeld, BatchIsPending
<1>7. HandledAtMost'
  <2>1. \A q \in Runs : pending'[q] \subseteq 1..offset
    BY <1>1, <1>2, <1>3 DEF FaultFree, HandledAtMost
  <2> QED
    BY <1>1, <1>2, <1>3, <1>4, <2>1 DEF HandledAtMost
<1>8. PendingIsUnwritten' /\ WrittenOnce'
  <2>1. \A q \in Runs, b \in Batches : copies[b] > 0 => pending[q] \cap b = {}
    BY <1>1 DEF FaultFree, PendingIsUnwritten
  <2>2. \A q \in Runs, b \in Batches : copies[b] > 0 => pending'[q] \cap b = {}
    BY <1>1, <1>2, <1>4, <2>1
  <2> QED
    BY <1>2, <2>2 DEF FaultFree, PendingIsUnwritten, WrittenOnce
<1>9. NothingLost'
  <2>1. \A o, q : q \in Runs /\ o \in pending[q] => o \in pending'[q]
    BY <1>1, <1>2
  <2>2. ASSUME NEW o \in 1..committed, Telemetry(o)
        PROVE  Delivered(o) \/ o \in pending'[Log[o].run]
    <3>1. Log[o].run \in Runs
      BY <1>1, <2>2, LogAssumption DEF TypeOK, Offsets, Runs
    <3> QED
      BY <2>1, <2>2, <3>1 DEF FaultFree, NothingLost, Kept
  <2>3. offset \in pending'[Log[offset].run]
    BY <1>2 DEF r
  <2> QED
    BY <1>2, <2>2, <2>3 DEF NothingLost, Kept, Delivered, Telemetry
<1> QED
  BY <1>6, <1>7, <1>8, <1>9 DEF FaultFree

LEMMA CommitKeepsFaultFree ==
  ASSUME IInv, FaultFree, CommitOffset, UNCHANGED faults
  PROVE  FaultFree'
<1>1. /\ pc = "commit" /\ pc' = "fetch" /\ committed' = offset /\ offset = committed + 1
      /\ committed \in Nat /\ UNCHANGED <<attempt, copies, pending, batch, offset>>
  BY MaxFaultsAssumption DEF CommitOffset, IInv, TypeOK, InOrder
<1>2. NoneHeld' /\ BatchIsPending'
  BY <1>1 DEF FaultFree, NoneHeld, BatchIsPending
<1>3. HandledAtMost' /\ PendingIsUnwritten' /\ WrittenOnce'
  BY <1>1 DEF FaultFree, HandledAtMost, PendingIsUnwritten, WrittenOnce
<1>4. NothingLost'
  <2>1. \A o \in 1..offset : o \in 1..committed \/ o = offset
    BY <1>1
  <2> QED
    BY <1>1, <2>1 DEF FaultFree, NothingLost, Kept, Delivered, Telemetry
<1> QED
  BY <1>2, <1>3, <1>4 DEF FaultFree

(* The events that are dropped are those of the batch that was written.    *)
LEMMA AnnounceKeepsFaultFree ==
  ASSUME IInv, FaultFree, Announce, UNCHANGED faults
  PROVE  FaultFree'
<1>1. /\ pc = "announce" /\ pc' = "commit" /\ batch \in Batches /\ copies[batch] > 0 /\ offset \in batch
      /\ UNCHANGED <<committed, attempt, copies, offset, batch>> /\ TypeOK /\ RunOf(batch) \in Runs
      /\ batch = pending[RunOf(batch)] /\ \A o \in batch : Log[o].run = RunOf(batch)
  BY BatchFacts, MaxFaultsAssumption DEF Announce, IInv, TypeOK, InFlight, FaultFree, BatchIsPending
<1>2. pending'[RunOf(batch)] = {} /\ \A q \in Runs \ {RunOf(batch)} : pending'[q] = pending[q]
  BY <1>1 DEF Announce, ClearPending, TypeOK
<1>3. \A q \in Runs : pending'[q] \subseteq pending[q]
  BY <1>1, <1>2
<1>4. NoneHeld' /\ BatchIsPending'
  BY <1>1 DEF FaultFree, NoneHeld, BatchIsPending
<1>5. HandledAtMost'
  BY <1>1, <1>3 DEF FaultFree, HandledAtMost
<1>6. PendingIsUnwritten'
  <2>1. ASSUME NEW q \in Runs, NEW b \in Batches, copies[b] > 0, NEW o \in pending'[q] \cap b
        PROVE  FALSE
    <3>1. q # RunOf(batch) /\ o \in pending[q]
      BY <1>2, <1>3, <2>1
    <3>2. b = batch
      BY <2>1, <3>1 DEF FaultFree, PendingIsUnwritten
    <3> QED
      BY <1>1, <3>1, <3>2 DEF IInv, PendingIsOwn
  <2> QED
    BY <1>1, <2>1 DEF PendingIsUnwritten
<1>7. WrittenOnce'
  BY <1>1 DEF FaultFree, WrittenOnce
<1>8. NothingLost'
  <2>1. \A o \in batch : Delivered(o)
    BY <1>1 DEF Delivered
  <2>2. ASSUME NEW o \in 1..committed, Telemetry(o)
        PROVE  Delivered(o) \/ o \in pending'[Log[o].run]
    <3>1. Log[o].run \in Runs
      BY <1>1, <2>2, LogAssumption DEF TypeOK, Offsets, Runs
    <3> QED
      BY <1>1, <1>2, <2>1, <2>2, <3>1 DEF FaultFree, NothingLost, Kept
  <2> QED
    BY <1>1, <2>1, <2>2 DEF NothingLost, Kept, Delivered, Telemetry
<1> QED
  BY <1>4, <1>5, <1>6, <1>7, <1>8 DEF FaultFree

(* A batch is opened before any of its events was written: its attempt is  *)
(* new, or pending from an open that was not followed by a write.          *)
LEMMA OpenKeepsFaultFree ==
  ASSUME IInv, FaultFree, OpenAttempt, UNCHANGED faults
  PROVE  FaultFree'
<1>1. TypeOK /\ pc = "open" /\ batch \in Batches /\ copies[batch] = 0 /\ faults \in Nat
  BY InHandIsUnwritten, MaxFaultsAssumption DEF OpenAttempt, IInv, TypeOK
<1>2. attempt[batch] \in {"none", "pending"}
  BY <1>1 DEF IInv, TypeOK, RecordsAreWritten, FaultFree, NoneHeld
<1>3. /\ attempt' = [attempt EXCEPT ![batch] = "pending"] /\ pc' = "prepare" /\ UNCHANGED pending
      /\ UNCHANGED <<copies, committed, offset, batch>>
  BY <1>1, <1>2 DEF OpenAttempt
<1>4. \A b \in Batches : attempt'[b] # "unknown"
  BY <1>1, <1>3 DEF TypeOK, FaultFree, NoneHeld
<1> QED
  BY <1>1, <1>3, <1>4, CallsKeepFaultFree

LEMMA FaultFreeInvKept == IInv /\ FaultFreeInv /\ [Next]_vars => FaultFreeInv'
<1> SUFFICES ASSUME IInv, FaultFreeInv, [Next]_vars, faults' = 0
             PROVE  FaultFree'
  BY DEF FaultFreeInv
<1>1. faults \in Nat /\ faults' \in {faults, faults + 1}
  <2>1. faults \in Nat
    BY MaxFaultsAssumption DEF IInv, TypeOK
  <2>2. CASE Crash \/ Restart \/ UNCHANGED vars
    BY <2>1, <2>2 DEF Crash, Restart, RestartAt, vars
  <2>3. CASE FetchMessage \/ Project \/ Collect \/ CommitOffset \/ OpenAttempt \/ Reconcile
    BY <2>1, <2>3 DEF FetchMessage, Project, Collect, CommitOffset, OpenAttempt, Reconcile
  <2>4. CASE \/ SettleUnknown \/ Prepare \/ Place \/ HoldUnknown \/ CommitArtifact
             \/ ResolveAttempt \/ Announce
    BY <2>1, <2>4 DEF SettleUnknown, Prepare, Place, PlaceThen, HoldUnknown, CommitArtifact, ResolveAttempt, Announce
  <2>5. CASE WriteManifest \/ AppendTable \/ Readback \/ RunExternalCommand
    BY <2>1, <2>5 DEF WriteManifest, AppendTable, Readback, RunExternalCommand
  <2> QED
    BY <2>1, <2>2, <2>3, <2>4, <2>5 DEF Next, Step
<1>2. faults = 0 /\ UNCHANGED faults /\ FaultFree /\ faults' # faults + 1
  BY <1>1 DEF FaultFreeInv
<1>3. TypeOK /\ InFlight /\ AttemptInHand /\ NoneHeld
  BY <1>2 DEF IInv, FaultFree
<1>4. CASE FetchMessage \/ Project \/ Collect \/ CommitOffset \/ OpenAttempt \/ Announce
  BY <1>2, <1>4, FetchKeepsFaultFree, ProjectKeepsFaultFree, CollectKeepsFaultFree,
     CommitKeepsFaultFree, OpenKeepsFaultFree, AnnounceKeepsFaultFree
<1>5. CASE WriteManifest \/ AppendTable \/ RunExternalCommand
  <2>1. /\ pc = "write" /\ copies' = Copied /\ pc' \in {"readback", "publish"}
        /\ UNCHANGED <<attempt, pending, committed, offset, batch>>
    BY <1>2, <1>5 DEF WriteManifest, AppendTable, RunExternalCommand
  <2> QED
    BY <1>2, <2>1, WriteKeepsFaultFree
<1>6. CASE Prepare \/ Place \/ Readback \/ CommitArtifact
  <2>1. /\ \/ pc \in {"prepare", "place"} /\ pc' \in {"place", "write"}
           \/ pc \in AfterCopy /\ pc' \in AfterCopy
        /\ UNCHANGED <<attempt, copies, pending, committed, offset, batch>>
    BY <1>2, <1>6 DEF Prepare, Place, PlaceThen, Readback, CommitArtifact
  <2>2. \A b \in Batches : attempt'[b] # "unknown"
    BY <1>3, <2>1 DEF NoneHeld
  <2> QED
    BY <1>2, <2>1, <2>2, CallsKeepFaultFree
<1>7. CASE ResolveAttempt
  <2>1. /\ pc = "resolve" /\ pc' = "announce" /\ attempt' = [attempt EXCEPT ![batch] = "resolved"]
        /\ UNCHANGED <<copies, pending, committed, offset, batch>>
    BY <1>2, <1>7 DEF ResolveAttempt
  <2>2. \A b \in Batches : attempt'[b] # "unknown"
    BY <1>3, <2>1 DEF NoneHeld, TypeOK
  <2> QED
    BY <1>2, <2>1, <2>2, CallsKeepFaultFree
<1>8. CASE Crash \/ Restart \/ Reconcile \/ SettleUnknown \/ HoldUnknown
  BY <1>2, <1>3, <1>8 DEF Crash, Restart, RestartAt, Reconcile, SettleUnknown, HoldUnknown, NoneHeld
<1>9. CASE UNCHANGED vars
  BY <1>2, <1>9 DEF vars, FaultFree, NoneHeld, BatchIsPending, HandledAtMost, PendingIsUnwritten,
     WrittenOnce, NothingLost, Kept, Delivered, Telemetry
<1> QED
  BY <1>4, <1>5, <1>6, <1>7, <1>8, <1>9 DEF Next, Step

(* For a batch of any size: as long as no call has failed and the process  *)
(* has not crashed, a telemetry message it acknowledged is in the table or *)
(* waits in memory, and no event was written twice (ProcessEvent,          *)
(* persistWithDelivery, clearPending).                                     *)
THEOREM NothingIsLostWithoutFault == Spec => []NothingLostWithoutFault
<1>1. Init => FaultFreeInv
  <2> SUFFICES ASSUME Init PROVE FaultFree
    BY DEF FaultFreeInv
  <2>1. NoneHeld /\ BatchIsPending /\ WrittenOnce /\ PendingIsUnwritten
    BY DEF Init, NoneHeld, BatchIsPending, WrittenOnce, PendingIsUnwritten
  <2>2. HandledAtMost /\ NothingLost
    BY DEF Init, HandledAtMost, NothingLost
  <2> QED
    BY <2>1, <2>2 DEF FaultFree
<1>2. FaultFreeInv => NothingLostWithoutFault
  BY DEF FaultFreeInv, FaultFree, NothingLost, Kept, WrittenOnce, NothingLostWithoutFault
<1> QED
  BY <1>1, <1>2, FaultFreeInvKept, InvariantHolds, PTL DEF Spec
===============================================================================
