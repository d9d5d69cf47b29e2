---------------------------- MODULE SimopsDelivery ----------------------------
(***************************************************************************)
(* The artifact intent consumer of SimOps: it reads one partition of the   *)
(* telemetry topic, batches the telemetry of each Run in memory, writes a  *)
(* full batch through the configured artifact writer under a Delivery      *)
(* Attempt, announces it and acknowledges the message.  Every call of the  *)
(* broker, the control store and the writer can fail, with or without      *)
(* effect; an error ends the process, as a crash does, and the process is  *)
(* started again at the acknowledged offset with empty memory.             *)
(*                                                                         *)
(* Rows, payloads and timestamps are left out: a batch is its sequence of  *)
(* offsets, a manifest file is the batch whose payload it holds.           *)
(***************************************************************************)
EXTENDS Naturals, Sequences, FiniteSets

CONSTANTS
  Log,           \* the messages of the partition: [run, kind] records
  Deployments,   \* [writer, durable, batch] records the process may run as
  MaxFaults      \* bound on the failed calls and the crashes of a behaviour

Kinds   == {"telemetry", "other", "garbled"}
Writers == {"manifest", "iceberg-go", "external"}
Offsets == 1..Len(Log)
Runs    == {Log[o].run : o \in Offsets}

ASSUME LogAssumption == /\ Len(Log) \in Nat \ {0}
                        /\ \A o \in Offsets : Log[o].kind \in Kinds
ASSUME DeploymentsAssumption ==
  Deployments \subseteq [writer : Writers, durable : BOOLEAN, batch : Nat \ {0}]
ASSUME MaxFaultsAssumption == MaxFaults \in Nat

VARIABLES
  deployment,    \* the configuration of the process, fixed
  committed,     \* broker: offset acknowledged by the consumer group
  attempt,       \* control store: state of the Delivery Attempt of a batch
  location,      \* control store: manifest path the attempt was prepared with
  status,        \* control store: status of the artifact of a Run
  copies,        \* table: how often the batch was appended
  files,         \* disk: <<manifest path, batch of its payload>>
  pc,            \* the step the process is at; "down" when it is not running
  offset,        \* the message being processed
  pending,       \* the events of each Run waiting for a full batch
  sequence,      \* batches cut for each Run since the process started
  batch,         \* the batch being delivered
  retried,       \* the catalog conflict of this append was retried already
  faults

durables == <<deployment, attempt, location, status, copies, files>>
memory   == <<offset, pending, sequence, batch, retried>>
vars     == <<deployment, committed, attempt, location, status, copies, files,
              pc, offset, pending, sequence, batch, retried, faults>>

(* A batch is identified by its Run and its coordinates, which one process *)
(* collects in the order of the partition: a set of offsets of one Run.    *)
RunOf(b) == Log[CHOOSE o \in b : TRUE].run
Batches  == {b \in SUBSET Offsets :
               b # {} /\ \A o \in b : Log[o].kind = "telemetry" /\ Log[o].run = RunOf(b)}
NoBatch  == {}
Torn     == {0}          \* a payload that does not decode

(* The manifest path is made of the Run, the in-memory sequence number and *)
(* the number of events.                                                   *)
Path(b, n) == <<RunOf(b), n, Cardinality(b)>>
Paths      == Runs \X Nat \X Nat
NoPath     == <<>>

Init ==
  /\ deployment \in Deployments
  /\ committed = 0
  /\ attempt = [b \in Batches |-> "none"]
  /\ location = [b \in Batches |-> NoPath]
  /\ status = [r \in Runs |-> "received"]
  /\ copies = [b \in Batches |-> 0]
  /\ files = {}
  /\ pc = "fetch"
  /\ offset = 0
  /\ pending = [r \in Runs |-> {}]
  /\ sequence = [r \in Runs |-> 0]
  /\ batch = NoBatch
  /\ retried = FALSE
  /\ faults = 0

-------------------------------------------------------------------------------
(* Faults                                                                  *)

Goto(label) == pc' = label /\ UNCHANGED faults

(* An error of Persist, of a commit or of a fetch ends RunProjection-      *)
(* Ingestion, its group and the process.                                   *)
StopProcess == pc' = "down"

Fault == faults < MaxFaults /\ faults' = faults + 1

(* A call that fails without effect.                                       *)
FailedCall == Fault /\ StopProcess

Crash ==
  /\ pc # "down"
  /\ FailedCall
  /\ UNCHANGED <<committed, durables, memory>>

RestartAt(o) ==
  /\ pc = "down"
  /\ Goto("fetch")
  /\ offset' = o
  /\ pending' = [r \in Runs |-> {}]
  /\ sequence' = [r \in Runs |-> 0]
  /\ batch' = NoBatch
  /\ retried' = FALSE
  /\ UNCHANGED <<committed, durables>>
(* Mutants of Restart: one off the acknowledged offset, or not rewound.    *)
RestartPastCommitted == RestartAt(committed + 1)
RestartNotRewound    == RestartAt(offset)

(* A new process resumes at the acknowledged offset; the pending events    *)
(* and the sequence numbers were memory of the old one.                    *)
Restart == RestartAt(committed)

-------------------------------------------------------------------------------
(* The consumer: fetch, project, persist, commit                           *)

FetchMessage ==
  /\ pc = "fetch"
  /\ offset < Len(Log)
  /\ \/ Goto("project") /\ offset' = offset + 1
     \/ FailedCall /\ UNCHANGED offset
  /\ UNCHANGED <<committed, durables, pending, sequence, batch, retried>>

(* A message that does not decode is acknowledged (CommitProjectFailure),  *)
(* and so is an event that is not worker telemetry.                        *)
Project ==
  /\ pc = "project"
  /\ Goto(IF Log[offset].kind = "telemetry" THEN "collect" ELSE "commit")
  /\ UNCHANGED <<committed, durables, memory>>

(* ProcessEvent under the lock: the event joins the pending ones, and a    *)
(* full batch takes the next sequence number.                              *)
Collect ==
  LET r == Log[offset].run
      events == pending[r] \cup {offset}
  IN /\ pc = "collect"
     /\ pending' = [pending EXCEPT ![r] = events]
     /\ IF Cardinality(events) < deployment.batch
          THEN Goto("commit") /\ UNCHANGED <<sequence, batch>>
          ELSE /\ sequence' = [sequence EXCEPT ![r] = @ + 1]
               /\ batch' = events
               /\ Goto(IF deployment.durable THEN "open" ELSE "prepare")
     /\ UNCHANGED <<committed, durables, offset, retried>>

(* Mutant of ClearPending.                                                 *)
KeepPending == UNCHANGED pending
ClearPending == pending' = [pending EXCEPT ![RunOf(batch)] = {}]

(* The offset is acknowledged after the event was persisted; a commit that *)
(* fails may have reached the broker.                                      *)
CommitOffset ==
  /\ pc = "commit"
  /\ \/ committed' = offset /\ Goto("fetch")
     \/ committed' \in {committed, offset} /\ FailedCall
  /\ UNCHANGED <<durables, memory>>

-------------------------------------------------------------------------------
(* The Delivery Attempt                                                    *)

(* CreateDeliveryAttempt inserts the attempt unless its identity exists,   *)
(* and reads it back: what is found decides what the processor may do.     *)
OpenAttempt ==
  LET found == IF attempt[batch] = "none" THEN "pending" ELSE attempt[batch]
  IN /\ pc = "open"
     /\ \/ /\ attempt' = [attempt EXCEPT ![batch] = found]
           /\ \/ found = "pending"  /\ Goto("prepare")   /\ UNCHANGED pending
              \/ found = "unknown"  /\ Goto("reconcile") /\ UNCHANGED pending
              \/ found = "resolved" /\ Goto("commit")    /\ ClearPending
        \/ /\ attempt' \in {attempt, [attempt EXCEPT ![batch] = found]}
           /\ FailedCall /\ UNCHANGED pending
     /\ UNCHANGED <<committed, deployment, location, status, copies, files,
                    offset, sequence, batch, retried>>

(* ReconcileDeliveryAttempt: the manifest writer looks for its payload in  *)
(* the file of the attempt, iceberg-go for the identity in the snapshots   *)
(* of the table; the external writer cannot reconcile.                     *)
(* (Mutant: a location on record is taken for the file.)                   *)
ReconciledByLocation(b) == location[b] # NoPath
Reconciled(b) ==
  CASE deployment.writer = "manifest"   -> <<location[b], b>> \in files
    [] deployment.writer = "iceberg-go" -> copies[b] > 0
    [] OTHER                            -> FALSE

Reconcile ==
  /\ pc = "reconcile"
  /\ \/ Reconciled(batch) /\ Goto("settle")
     \/ ~Reconciled(batch) /\ StopProcess /\ UNCHANGED faults
     \/ FailedCall
  /\ UNCHANGED <<committed, durables, memory>>

SettleUnknown ==
  /\ pc = "settle"
  /\ \/ /\ attempt' = [attempt EXCEPT ![batch] = "resolved"]
        /\ ClearPending /\ Goto("commit")
     \/ attempt' \in {attempt, [attempt EXCEPT ![batch] = "resolved"]}
        /\ FailedCall /\ UNCHANGED pending
  /\ UNCHANGED <<committed, deployment, location, status, copies, files,
                 offset, sequence, batch, retried>>

-------------------------------------------------------------------------------
(* The writer                                                              *)

(* Prepare makes the artifact of the Run "prepared"; with a Delivery       *)
(* Attempt the location is recorded with it.                               *)
Prepare ==
  /\ pc = "prepare"
  /\ \/ /\ status' = [status EXCEPT ![RunOf(batch)] = "prepared"]
        /\ Goto(IF deployment.durable THEN "place" ELSE "write")
     \/ FailedCall /\ UNCHANGED status
  /\ retried' = FALSE
  /\ UNCHANGED <<committed, deployment, attempt, location, copies, files,
                 offset, pending, sequence, batch>>

PlaceThen(label) ==
  /\ pc = "place"
  /\ \/ /\ location' = [location EXCEPT ![batch] = Path(batch, sequence[RunOf(batch)])]
        /\ Goto(label)
     \/ FailedCall /\ UNCHANGED location
  /\ UNCHANGED <<committed, deployment, attempt, status, copies, files, memory>>
PlaceAndPublish == PlaceThen("publish")   \* mutant of Place
Place == PlaceThen("write")

Copied == [copies EXCEPT ![batch] = @ + 1]

(* markRunFailed, then MarkDeliveryAttemptUnknown when there is an attempt *)
(* to mark.  Its status update may itself fail.                            *)
WriteFailed ==
  /\ Fault
  /\ status' \in {status, [status EXCEPT ![RunOf(batch)] = "failed"]}
  /\ pc' = IF deployment.durable THEN "hold" ELSE "down"

(* os.WriteFile truncates the file and writes it: a failure leaves it as   *)
(* it was, torn or complete.                                               *)
WriteManifest ==
  LET path == Path(batch, sequence[RunOf(batch)])
      Holding(payload) == {f \in files : f[1] # path} \cup {<<path, payload>>}
  IN /\ pc = "write" /\ deployment.writer = "manifest"
     /\ \/ /\ files' = Holding(batch) /\ copies' = Copied
           /\ Goto("publish") /\ UNCHANGED status
        \/ /\ files' \in {files, Holding(Torn)} /\ UNCHANGED copies
           /\ WriteFailed
        \/ /\ files' = Holding(batch) /\ copies' = Copied
           /\ WriteFailed
     /\ UNCHANGED <<committed, deployment, attempt, location, memory>>

(* AppendTable: a catalog conflict is retried once on the reloaded table;  *)
(* any other error may have committed the snapshot.                        *)
AppendTable ==
  /\ pc = "write" /\ deployment.writer = "iceberg-go"
  /\ \/ copies' = Copied /\ Goto("readback") /\ UNCHANGED <<status, retried>>
     \/ /\ ~retried /\ retried' = TRUE
        /\ Fault /\ UNCHANGED <<pc, copies, status>>
     \/ copies' \in {copies, Copied} /\ WriteFailed /\ UNCHANGED retried
  /\ UNCHANGED <<committed, deployment, attempt, location, files, offset,
                 pending, sequence, batch>>

(* verifyFreshReadback: the coordinates of the batch are read back from    *)
(* the reloaded table, and the status is written as "prepared" again.      *)
Readback ==
  /\ pc = "readback"
  /\ \/ copies[batch] > 0 /\ Goto("publish") /\ UNCHANGED status
     \/ WriteFailed
  /\ UNCHANGED <<committed, deployment, attempt, location, copies, files, memory>>

(* The exit status of the external command is all the gateway learns.      *)
RunExternalCommand ==
  /\ pc = "write" /\ deployment.writer = "external"
  /\ \/ copies' = Copied /\ Goto("publish") /\ UNCHANGED status
     \/ copies' \in {copies, Copied} /\ WriteFailed
  /\ UNCHANGED <<committed, deployment, attempt, location, files, memory>>

(* Mutant of HoldUnknown: the error is swallowed and the message consumed. *)
HoldAndConsume ==
  /\ pc = "hold"
  /\ Goto("commit")
  /\ attempt' = [attempt EXCEPT ![batch] = "unknown"]
  /\ UNCHANGED <<committed, deployment, location, status, copies, files, memory>>

(* MarkDeliveryAttemptUnknown: its own failure is ignored.                 *)
HoldUnknown ==
  /\ pc = "hold"
  /\ StopProcess
  /\ \/ attempt' = [attempt EXCEPT ![batch] = "unknown"] /\ UNCHANGED faults
     \/ Fault /\ UNCHANGED attempt
  /\ UNCHANGED <<committed, deployment, location, status, copies, files, memory>>

(* Commit of the writer: the artifact of the Run becomes "committed".      *)
CommitArtifact ==
  /\ pc = "publish"
  /\ \/ /\ status' = [status EXCEPT ![RunOf(batch)] = "committed"]
        /\ Goto(IF deployment.durable THEN "resolve" ELSE "announce")
     \/ /\ Fault /\ UNCHANGED status
        /\ pc' = IF deployment.durable THEN "hold" ELSE "down"
  /\ UNCHANGED <<committed, deployment, attempt, location, copies, files, memory>>

ResolveAttempt ==
  /\ pc = "resolve"
  /\ \/ attempt' = [attempt EXCEPT ![batch] = "resolved"] /\ Goto("announce")
     \/ attempt' \in {attempt, [attempt EXCEPT ![batch] = "resolved"]} /\ FailedCall
  /\ UNCHANGED <<committed, deployment, location, status, copies, files, memory>>

(* The pending events are dropped, then the artifact intent is published.  *)
Announce ==
  /\ pc = "announce"
  /\ ClearPending
  /\ (Goto("commit") \/ FailedCall)
  /\ UNCHANGED <<committed, durables, offset, sequence, batch, retried>>

-------------------------------------------------------------------------------
Step ==
  \/ FetchMessage \/ Project \/ Collect \/ CommitOffset
  \/ OpenAttempt \/ Reconcile \/ SettleUnknown
  \/ Prepare \/ Place \/ WriteManifest \/ AppendTable \/ Readback
  \/ RunExternalCommand \/ HoldUnknown
  \/ CommitArtifact \/ ResolveAttempt \/ Announce

Next == Step \/ Crash \/ Restart

(* The process keeps executing and its supervisor restarts it.             *)
Spec == Init /\ [][Next]_vars /\ WF_vars(Step) /\ WF_vars(Restart)
-------------------------------------------------------------------------------
(* Properties                                                              *)

PcLabels == {"fetch", "project", "collect", "commit", "open", "reconcile",
             "settle", "prepare", "place", "write", "readback", "hold",
             "publish", "resolve", "announce", "down"}

(* The broker, the control store, the table, the disk and the memory of    *)
(* the process hold values of their types.                                 *)
TypeOK ==
  /\ deployment \in Deployments
  /\ committed \in 0..Len(Log)
  /\ attempt \in [Batches -> {"none", "pending", "unknown", "resolved"}]
  /\ location \in [Batches -> Paths \cup {NoPath}]
  /\ status \in [Runs -> {"received", "prepared", "committed", "failed"}]
  /\ copies \in [Batches -> Nat]
  /\ files \subseteq Paths \X (Batches \cup {Torn})
  /\ pc \in PcLabels
  /\ offset \in 0..Len(Log)
  /\ pending \in [Runs -> SUBSET Offsets]
  /\ sequence \in [Runs -> Nat]
  /\ batch \in Batches \cup {NoBatch}
  /\ retried \in BOOLEAN
  /\ faults \in 0..MaxFaults

Telemetry(o) == Log[o].kind = "telemetry"
Delivered(o) == \E b \in Batches : o \in b /\ copies[b] > 0

(* Whatever fails or crashes, with a batch of one event the consumer never *)
(* acknowledges a telemetry message that was not written: the offset is    *)
(* committed last, and an attempt found resolved was really delivered.     *)
AcknowledgedIsDelivered ==
  deployment.batch = 1 =>
    \A o \in 1..committed : Telemetry(o) => Delivered(o)

(* With larger batches a message is acknowledged while its event is still  *)
(* only in memory; as long as no call fails and the process does not crash *)
(* it is in the table or waiting, and no event is written twice.           *)
NothingLostWithoutFault ==
  faults = 0 =>
    /\ \A o \in 1..committed :
         Telemetry(o) => Delivered(o) \/ o \in pending[Log[o].run]
    /\ \A b, c \in Batches :
         copies[b] > 0 /\ copies[c] > 0 /\ b \cap c # {} => b = c /\ copies[b] = 1

(* The control store says "committed" of the artifact of a Run only when   *)
(* a batch of that Run has been written (and, by iceberg-go, read back).   *)
CommittedArtifactIsWritten ==
  \A r \in Runs : status[r] = "committed" =>
    \E b \in Batches : RunOf(b) = r /\ copies[b] > 0

(* The durable Delivery Attempts keep the promise of DeliveryLedger: no    *)
(* copy is written of a batch that is held as unknown or resolved already, *)
(* a batch is resolved only when the table holds it, and for good.  A      *)
(* process without a delivery store keeps no ledger.                       *)
Ledger == INSTANCE DeliveryLedger WITH
            copies <- IF deployment.durable THEN copies ELSE [b \in Batches |-> 0]
ImplementsLedger == Ledger!Spec

(* Once calls stop failing, every message is acknowledged, unless an       *)
(* attempt is unknown and the writer cannot find the batch: that attempt   *)
(* is held, and with it the partition.                                     *)
Held == \E b \in Batches : attempt[b] = "unknown" /\ ~Reconciled(b)
AcknowledgedOrHeld == <>[](committed = Len(Log) \/ Held)
===============================================================================
