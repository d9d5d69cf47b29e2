# Specifications of radiant-prj

TLA+ modules of the Go gateway (`src/backend/slurm-gateway`): the SimOps control
plane, the artifact delivery, the consumers and the Digital Twin pipeline of the
Workbench, the reactor telemetry workers and the Artifact Forge of the Fleet
Board. TLC configurations check them on small instances, and TLAPS proofs hold
for every instance. Paths below are
relative to `src/backend/slurm-gateway/internal/gateway/` unless they start
with `src/`.

## The system

The repository is a console for simulation runs. Its program logic is the Go
gateway; the browser code is a client of it, the Rust programs are load
generators that run in containers.

| Part | State | Operations | Talks to |
|---|---|---|---|
| Run lifecycle policy (`simops_run_lifecycle.go`) and controller (`simops_controller.go`) | none of its own; each HTTP request holds what it read | create, idempotent retry and recovery, compensation and failure, stop, get, events, ingest, intent dispatch | store, runtime, event log |
| State algebra (`simops_state.go`) | pure | launch outcome, observation, cleanup outcome, aggregate, v1 projection | used by both stores |
| Control store (`simops_store.go`, `simops_postgres_store.go`) | Run, workers, artifact, publication intents, events, delivery attempts | one mutex section, or one transaction, per call | |
| Stop orchestrator (`simops_stop_orchestrator.go`) | none | requested, runtime stop, in progress, runtime cleanup, final disposition | store, runtime |
| Container runtimes (`simopsdocker`, `simopskubernetes`) | containers | start, stop, clean up, observe, worker by worker | Docker, Kubernetes |
| Event log (`simops_broker.go`, `simops_redpanda_event_log.go`) | topics | publish | Redpanda |
| Artifact delivery (`simops_iceberg_writer.go` and its Go writer) | pending batches, delivery attempts | batch, prepare, write, commit, reconcile | Iceberg, store |
| Background consumers (`projection_ingestion.go`, `simops_consumers.go`, `background_consumer_process.go`, `simops_kafka_dataplane.go`) | offsets, projections | fetch, project, commit, shut down | Redpanda, Timescale |
| Twin publication (`twin_state_publication.go`, `workbench_consumers.go`) | publications, acknowledgements | publish, resume, acknowledge | Workbench store, log |
| Workbench (`workbench_store.go`, `workbench_controller.go`, `workbench_iceberg_writer.go`) | sources, values, lineage, generations | project, snapshot, publish | consumers |
| Reactor telemetry (`reactor_telemetry_worker_set.go`) | worker sets per game session | register, retry, remove, expire | runtime, store |
| Artifact Forge (`artifact_forge.go`) | requests and outcomes | request, resume, evaluate, prune | SimOps controller |
| Data flush (`configured_data_flush.go`) | a generation, tables | plan, apply | Postgres |
| MoQ tracks, Fleet Board intents, lifecycle health, Slurm jobs | small in-memory tables | see `PROJECT.json` | the managers above |

How they are joined: the worker programs post frames to the gateway, which
checks them against the SimOps Run or the reactor's worker set and publishes
them to Redpanda topics. Five consumer programs read the topics: two of them
write SimOps telemetry (Iceberg, Timescale), one projects the Workbench topics
to Postgres, one appends them to Iceberg, and the Twin projector joins measured
frames and simulated results to Twin States, which it publishes on a topic of
its own. The Artifact Forge starts SimOps Runs and reads, from the projections,
the evidence that a Run's result came with a Lineage bound to its request.

### What is hard in it

* A request is a sequence of calls to a store, a runtime and a log with no
  lock around it. Two requests for one Run interleave at every call. The worker
  set and Artifact Forge managers do hold a mutex, per process and not over a
  crash, and the session activity every intent records goes around it.
* The runtime acts container by container, and a failing call may have acted
  on some of them.
* A start that has taken a minute is taken for dead and recovered by a retry,
  although its request may still be running.
* Publication is an outbox: the intent is stored with the transition and
  dispatched later, by whichever request comes by. There is no dispatcher of
  its own.
* The same facts are folded by Go code in memory and by SQL in Postgres, and a
  record loaded from its JSON is not the record that was saved.
* A consumer persists, then commits its offset, in two systems; between them it
  may die, and a message comes again to a process that has forgotten what the
  last one knew. A write whose answer is lost may have been made.
* The Twin projector saves, delivers, acknowledges and commits in four calls,
  while other processes project what it hydrates from and an operator may flush
  the tables.
* A process ends by one select over a signal, its server and its consumers,
  with a deadline on the drain and, in the Twin projector, a second group
  inside that has none.

`PROJECT.json` lists these hazards at their lines, with the properties that
cover them or the reason none does.

## What makes each part correct

* Lifecycle: the workers of a Run are launched once; a failed start records as
  stopped only what it removed; a stopped Run leaves nothing running and has
  its cleanup on record; a failure is not repaired by a cleanup.
* Store: a terminal observation and a counted frame are not taken back; a
  transition has its intent; two adapters agree.
* Publication: nothing is published that the Run did not enter, and nothing
  marked published is missing from the log; an intent is
  published in the end if someone keeps asking.
* Artifact delivery: nothing is acknowledged that was not written; a batch
  whose outcome is unknown is not appended again before it is reconciled; an
  artifact that reads committed has data.
* Twin pipeline: a publication has one content however often it is delivered;
  a source is committed after its publication is on the topic; a message is
  projected once; what a snapshot shows changes only with its generation.
* Reactor telemetry: what is on record about a set's containers is true; a
  revocation is for good; a cleanup once begun finishes.
* Artifact Forge: an outcome is applied once and is earned; the caps hold as long
  as no failed request is reopened; a failed Run is recorded for a client that
  repeats its request.
* Consumer processes: a clean exit has drained; a failure keeps the process
  unready; a signal, or a failed stream, ends it.

## Modules

    SimopsState           pure state algebra of Run and worker records
      SimopsStores        the store calls, per adapter
        PublicationOutbox what the Run promises of its publications (abstract)
        SimopsRun         requests, store, runtime and log of one Run
          MCSimopsRun     symmetry for TLC
          SimopsRunProofs   types of the store operators and of the Run
            SimopsRunSafety   the safety of the Run
        SimopsLedgerParity  both adapters fed the same calls
          SimopsLedgerParityProofs
    DeliveryLedger        what a durable Delivery Attempt promises (abstract)
      SimopsDelivery      the artifact intent consumer, an implementation of it
        MCSimopsDelivery  a partition and the deployments, for TLC
        SimopsDeliveryProofs
    TwinPublications      what the projector promises of a publication (abstract)
      TwinPipeline        projector, projections and lake, an implementation of it
        MCTwinPipeline
        TwinPipelineProofs
    ReactorTelemetry      worker sets of one game session
      MCReactorTelemetry
      ReactorTelemetryProofs
    ArtifactForge         requests of one game session, with their evidence
      MCArtifactForge
      ArtifactForgeProofs
    ConsumerProcess       start to exit of the five consumer programs
      MCConsumerProcess
      ConsumerProcessProofs

The components meet where their modules abstract each other. The offsets,
batches and projections of a consumer are in SimopsDelivery and TwinPipeline,
the life of its process in ConsumerProcess; the first two take from the third
that a consumer that fails ends its process and that a new one starts at the
committed offsets. ArtifactForge composes the manager with the lifecycle of the
SimOps Runs it starts, as their launches and stops write it, and with the part of
the Twin pipeline that makes its evidence.

### SimopsState, SimopsStores, SimopsRun, SimopsLedgerParity

**SimopsState** keeps of a worker the fields decisions read: v1 lifecycle,
frames, observed lifecycle, whether a runtime id is known, and the state
(phase, launch, active execution, condition, cleanup). A record that carries no
state yet has phase `"unset"`, the empty string of the code. Its operators have
the names of the functions of `simops_state.go`.

**SimopsStores** translates each store call to an operator on stored records.
Where the adapters differ there are two: `MergeLaunchMemory` replaces a worker,
`MergeLaunchPostgres` keeps the larger frame count and missing observed fields;
`StopWorkerPostgres` reads the row as it was before the UPDATE, as SQL does;
`AggregatePostgres` is the SQL aggregate.

**SimopsRun** is the state machine. The constants `Creates`, `Stops`, `Gets`
and `Ingests` are requests; a request is a process whose label in `pc` is the
call it makes next and whose record in `local` is what it holds between calls.

| Variables | In the code |
|---|---|
| `created`, `run`, `worker`, `intent`, `artifact` | the rows of the control store for this Run |
| `stale` | `UpdatedAt` older than `incompleteStartStaleAfter` |
| `exec` | the container of each worker: absent, running, exited, killed |
| `log`, `telemetry` | what the event log has accepted |
| `pc`, `local`, `reply` | the HTTP requests |
| `launches`, `faults`, `crashes` | history and bounds |

| Actions | Code |
|---|---|
| `CreateRun` (insert, recover, replay), `LaunchWorker`, `SaveLaunch`, `SetStreaming`, `SaveArtifact` | `Start` |
| `RecoverList`, `RecoverSync`, `RecoverObserve` | `recoverIncompleteStart` |
| `CompensateStop`, `CompensateClean`, `FailSaveLaunch`, `FailWorker`, `FailRun`, `FailArtifact`, `FailEvent` | `compensate` and `fail` |
| `ListIntents`, `Publish`, `MarkPublished`, `MarkFailed` | `dispatchSimopsPublicationIntents` |
| `StopRead`, `StopRequest`, `StopRuntime`, `StopProgress`, `StopCleanup`, `StopFinal` | `StopRun` and the orchestrator |
| `GetRead`, `GetSync`, `GetObserve`, `ListEvents` | `GetRun`, `syncRunWorkers`, `ListEvents` |
| `IngestRead`, `IngestPublish`, `IngestCount` | `Ingest` |
| `WorkerExit`, `MinutePasses`, `Crash` | the environment |

`SimopsRun` implements `PublicationOutbox` (`ImplementsOutbox`), whose lifecycle is
that of the Run record, whose intents are the stored ones and whose published
topics are those that occur in the log.

| PublicationOutbox | SimopsRun |
|---|---|
| `Enter` | `SetStreaming`; a stop transition that reaches the stopped phase; applied, answered or not |
| `Leave` | the insert, `FailRun`, the other stop transitions |
| `Publish` | `Publish`, when the event reaches the log, answered or not |
| `MarkPublished`, `MarkFailed` | `MarkPublished`, `MarkFailed`, when applied |
| stutter | all other steps |

What PublicationOutbox implies and no run checks apart from it: an intent that is
published has its event in the log (`PublishedWasDelivered`), and a Run that reads
streaming or stopped has its intent (`TransitionHasIntent`). A renewed intent
(`Renewable`) is what the adapters differ in: in memory a stop
that stops the Run again makes its intent pending again, Postgres keeps the row.

A call of the store is one step, because it holds a mutex or is a transaction;
with Postgres any of them may fail. A call of the runtime launches one worker
per step; a stop or a removal is one step that, when it fails, has acted on any
subset. A crash loses the requests in flight and keeps store, containers and
log; it is only possible over Postgres, since the in-memory store would go too.

**SimopsLedgerParity** starts from a streaming Run in each adapter and applies
the same observations, frames and stop transitions to both.

### SimopsDelivery and DeliveryLedger

The consumer of the SimOps telemetry topic (`simops_iceberg_writer.go`,
`simops_iceberg_go_writer.go`): one partition, one process at a time.
`deployment` chooses the writer (manifest file, iceberg-go, external command),
whether there is a delivery store (then the code batches one event), and the
batch size. A batch is the set of offsets it is made of, which is its identity
in the code too.

| Variables | In the code |
|---|---|
| `committed` | offset of the consumer group |
| `attempt`, `location`, `status` | Delivery Attempts and artifact status in the control store |
| `copies`, `files` | the table's logical appends, the manifests on disk |
| `pc`, `offset`, `pending`, `sequence`, `batch`, `retried` | the process: its step and its memory |

| Actions | Code |
|---|---|
| `FetchMessage`, `Project`, `CommitOffset` | `RunProjectionIngestion` |
| `Collect`, `ClearPending` | `ProcessEvent` under its lock |
| `OpenAttempt`, `Reconcile`, `SettleUnknown`, `HoldUnknown`, `ResolveAttempt` | the Delivery Attempt's calls |
| `Prepare`, `Place`, `CommitArtifact`, `Announce` | the writer interface and the publication |
| `WriteManifest`; `AppendTable`, `Readback`; `RunExternalCommand` | the three writers |
| `Crash`, `Restart` | a failed call ends the process; a new one starts at `committed` |

**DeliveryLedger** says what a Delivery Attempt promises, with four actions and
two variables. `SimopsDelivery` implements it with `attempt` as it is and
`copies` as a process with a delivery store makes them; without a store there is
no ledger and the abstract `copies` stays 0.

| DeliveryLedger | SimopsDelivery |
|---|---|
| `Open` | `OpenAttempt` of a batch not seen before, answered or not |
| `Append` | `WriteManifest`, `AppendTable`, `RunExternalCommand`, when they write |
| `Hold` | `HoldUnknown` |
| `Resolve` | `ResolveAttempt`, `SettleUnknown` |
| stutter | all other steps |

### TwinPipeline

Frames and results have one partition each; a message is its topic and offset.
A Twin State is what it was built from: the last frame of each tag and the last
result. The snapshot is the newest stored frame of each tag, the newest result
and the current Twin State.

| Variables | In the code |
|---|---|
| `committed`, `topic` | consumer groups and the Twin topic in Redpanda |
| `rows`, `processed`, `publication`, `canonical`, `twin`, `generation` | Postgres: projections, processed keys, Twin publications, current Twin State, snapshot generation |
| `lake` | the snapshots of the Twin table that carry a publication's id |
| `pc`, `source`, `measured`, `result`, `built`, `stopped` | the Twin projector |

| Actions | Code |
|---|---|
| `Resume`, `Project`, `Save`, `ReadCanonical`, `Deliver`, `Acknowledge`, `CommitSource` | `consume` of `workbench_consumers.go` and `twin_state_publication.go` |
| `Begin`, `Exit`, `Crash`, `Restart` | `RunTwinProjector`, `NewTwinProjector` (hydration) |
| `Consume(c)` with `SaveFrame`, `SaveTwinStateProjection`, `AppendTwin` | the projection writer and the Twin stream of the Iceberg writer |
| `PruneDynamicMeasured`, `Flush` | retention, the transaction of Configured Data Flush |

`TwinPipeline` implements `TwinPublications` (`ImplementsPublications`). A
publication of that module is a message of the sources. `Phase` reads the row of
the publication, and the processed key once a flush has taken the row. `Content`
is the canonical Twin State as long as the row is pending; then what was
delivered; and for a publication that a flush took on its way to the topic, what
the projector has in hand.

| TwinPublications | TwinPipeline |
|---|---|
| `Make` | `Save` of a message without a processed key |
| `Deliver` | `Deliver`, when the event reaches the topic, answered or not |
| `Acknowledge` | `Acknowledge` of a publication that is pending |
| `Withdraw` | `Flush` |
| `Abandon` | a failed `Deliver` or a `Crash`, of a publication that a flush took before any delivery |
| stutter | all other steps |

### ReactorTelemetry

| Variables | In the code |
|---|---|
| `store`, `cap` | configuration |
| `row`, `expired` | the saved sets; `ExpiresAt` in the past |
| `containers` | Docker |
| `pc`, `op`, `todo`, `failed`, `reactor`, `hand`, `made` | the operation under the manager's mutex |
| `waiting` | requests that have recorded their session activity and not yet registered |

| Actions | Code |
|---|---|
| `Receive`, `NextSet`, `Touch`, `Finish` | `recordSessionActivity`, `TouchSession` |
| `Register`, `DeclareSources`, `SaveStarting`, `ClearWorkers`, `LaunchWorker`, `Launched`, `Rollback`, `SaveLaunchFailed`, `SaveActive` | `RegisterDynamicReactor`, `retryWorkerSet`, `StartWorkerSet` |
| `Remove`, `SaveCleanup`, `StopWorkers`, `SaveCleanupFailed`, `SaveRemoved` | `RemoveDynamicReactor`, `cleanupWorkerSet` |
| `Boot`, `ReconcileExpired` | `ReconcileActive` before the gateway serves, `ReconcileExpired` on each tick |
| `Expire`, `Crash` | the environment |

`Load` is what the Postgres store makes of a set: the registration key and the
gateway profile are not in its JSON. A set retried from such a copy fails at
its first worker (`~hand.profile` in `LaunchWorker`).

### ArtifactForge

| Variables | In the code |
|---|---|
| `backend`, `reactorOf`, `maxActive` | the store; the reactor a request is for; the session's cap |
| `ledger` | the saved record of each idempotency key |
| `pc`, `key`, `record`, `createFailed` | the request under the manager's mutex |
| `listed` | the copies a session touch has read and not yet saved |
| `run`, `stops`, `completed` | SimOps: the lifecycle of the Run of each request, the stops of it under way, and (history) whether it was ever complete |
| `results`, `projected`, `twin`, `evidence` | the results topic, its projection, the Twin projector, the stored evidence |

| Actions | Code |
|---|---|
| `Request`, `Find`, `EnforceCaps`, `Admit`, `CreateRun`, `Lookup`, `Associate`, `Evaluate`, `ReadEvidence`, `Decide` | `Request`, `resume`, `enforceCaps`, `associateRun`, `evaluate`, `recordDecision` |
| `RecordActivity`, `SaveListed` | `TouchSession` of the Postgres store |
| `IngestResult`, `ProjectResult`, `PublishTwin` | `ResultLineageContext`, `SaveResultProjection`, `attachArtifactForgeLineage` |
| `StopRun`, `SaveStop` | `StopRun` of the SimOps controller and the `ApplyStopTransition` calls of its stop |
| `RunCompletes` | `UpdateRunLifecycle` with complete, which only tests call |
| `PruneExpired`, `Flush`, `Crash` | retention, data flush, the environment |

Of a Run only the lifecycle matters here, and of that whether it is failed,
stopped, complete or none of these (`active`: starting, streaming, degraded).
`CreateRun` is one step, the manager's mutex being held: it takes effect at its
last write of the lifecycle, streaming or failed, which may fall between two
writes of a stop. `StopRun` leaves only a stopped or complete Run alone. A stop
of a failed Run writes degraded, and `Evaluate` then puts its request, recorded
run-failed, back to awaiting the Run. The field `failed` of a record stands for
the event such a decision leaves in it, which nothing takes out.

No code of the gateway gives a Run the lifecycle complete; its tests do, by a call
to the store. `CompleteKeys` names the Runs it happens to: with `{}` the module is
the gateway as built, and what is said of outcomes is then said of none. `forge_pass`
lets one Run complete, so that the evaluation of evidence, which the gateway has
and its tests exercise, is checked too.

### ConsumerProcess

A process is one of five `Programs`, records that say which streams it has, by
which loop they are read, whether a message that does not decode is passed
over, and whether the streams run in a nested group (the Twin projector).

| Variables | In the code |
|---|---|
| `pc`, `cause` | each consumer's place in its loop, and why it returned |
| `received`, `inner`, `group` | what each group has taken; the two contexts |
| `proc`, `failure`, `server`, `signalled` | `Run` of `background_consumer_process.go` |
| `conn`, `failedWrites`, `lastError` | `SimopsDataPlaneMetrics`, as `/readyz` reads them |

| Actions | Code |
|---|---|
| `Consume`: `FetchMessage`, `FetchCancelled`, `FetchFails`, `Project`, `CommitSkipped`, `Persist`, `CommitMessages` | `RunProjectionIngestion`, the Timescale and Twin loops |
| `Hydrate`, `InnerReceive`, `InnerReturn` | `RunTwinProjector`, the nested group |
| `ConsumerEnds`, `ServerEnds`, `SignalSeen` | the select of `Run` |
| `Receive`, `ServerDrained`, `DrainFails`, `ForceClose`, `Exit` | the shutdown |

## Runs

Passing runs. All bounds are constants of the configuration.

| Run | Instance | Shows |
|---|---|---|
| `stop_memory` | 2 workers, 1 create, 2 stops, 1 read, 1 fault (uncertain or confirmed), in memory; 1.06 M states | `TypeOK`, `NoWorkerOutlivesStop`, `StoppedRecordsCleanup`, `FailureSurvivesCleanup` |
| `start_postgres` | 2 workers, 2 creates with one key, 1 stop, slow start, 1 fault, 1 crash, Postgres; 738 k | `ImplementsOutbox`, `CompensatedFailureIsClean`, `SingleLaunch` |
| `records_postgres` | 1 worker, 2 creates, 2 frames, a polling reader, Postgres; 40 k | `FramesMatchTelemetry`, `TerminalObservationKept` |
| `publish_live` | 1 worker, 1 create, 1 stop, a polling reader, 1 fault, 1 crash, fair, Postgres; 119 k | `IntentsArePublished` |
| `parity_pass` | 2 workers, repeated stops, runtime failures uncertain or none, no worker observed failed; 6.6 k | `SameView`, `SameWorkerFacts`, `SameCondition` |
| `delivery_pass` | a partition of 5 messages (telemetry of 2 Runs, one that does not decode, one of another kind), 3 writers with and without a store, batches of 1 and 2, 3 faults; 27 k | `TypeOK`, `AcknowledgedIsDelivered`, `NothingLostWithoutFault`, `CommittedArtifactIsWritten`, `ImplementsLedger`, `AcknowledgedOrHeld` |
| `reactor_pass` | 2 reactors, 2 keys, 1 worker each, both stores, caps of 1 and 2, 2 faults; 451 k | `TypeOK`, `RemovedHasNoContainers`, `ActiveIsLaunched`, `RevokedForGood`, `CleanupFinishes` |
| `twin_pass` | 2 frames of 2 tags, one dynamic, 1 result, 1 flush, 1 fault; 466 k | `TypeOK`, `DeliveredIsCanonical`, `CommittedIsDelivered`, `ProjectedOnce`, `GenerationMoves`, `ImplementsPublications`, `SourcesAreConsumed` |
| `forge_pass` | 2 requests, for one reactor over either store with a cap of 2, for two in memory with a cap of 1; 2 events; 110 k | `TypeOK`, `OutcomeIsEarned`, `MemoryCapsUnlessReopened`, `OutcomeIsForGood`, `FailureIsRecorded` |
| `consumers_pass` | the five programs; 32 k | `TypeOK`, `CleanExitIsDrained`, `FailureIsShown`, `StopsWhenTold` |

Why the bounds are enough to be interesting:

* SimopsRun: two requests of a kind are what a check-then-act needs; two workers
  are what a partial launch, stop or removal needs; one fault per behaviour
  reaches every error path, a crash and a fault a failing compensation of a
  start that is recovered; two creates let a client learn the run id (by a replayed create) while
  the first is still launching, so that a stop really overtakes a start.
* SimopsDelivery: two Runs interleave in the partition, so that a pending batch
  of one waits while the other's is written; three faults are a lost answer, a
  failing reconciliation or mark after the restart, and one more; a restart
  repeats a sequence number, so that two batches compete for a manifest path.
* ReactorTelemetry: two sets are what the unique key and the cap of one need;
  one worker is launched or not, which the crash or failure between the two
  saves of a launch turns on; two faults a failed save and a failed rollback, or
  a crash in the retry of a failed launch.
* TwinPipeline: two frames and a result are what a Twin State rebuilt from other
  measurements needs; a flush and a fault reach the interrupted publication.
* ArtifactForge: two requests for one reactor with room for both are what the
  reactor's cap excludes, two for two reactors with room for one what the session's
  cap excludes; two events are a failed launch and the stop that reopens its
  request, two results, or a result and a failure, a stop, a crash, a touch, an
  expiry or a flush.
* ConsumerProcess: nothing is bounded but the program itself.

Each run is small enough to be repeated with every change. Four of them also pass
on the next larger instance, in several minutes: `start_postgres` with two faults
(3.4 M states), `reactor_pass` with two workers (936 k), `forge_pass` with three
events (1.58 M) and `twin_pass` with a second result that does not decode
(1.64 M). The safety properties of the four are proved for every value of these
constants (see Proofs for the hypotheses of `CompensatedFailureIsClean`).

Deadlock. In SimopsRun, SimopsDelivery, TwinPipeline and ConsumerProcess the
requests, the partition, the topics are finite or the process ends: a behaviour
ends, and their configurations switch the deadlock check off. It is on for
SimopsLedgerParity, ReactorTelemetry and ArtifactForge, which never end.

Violation runs. Each checks one statement of a document of the repository, and
shows a behaviour of the code that contradicts it; quotes are in `PROJECT.json`,
"findings".

| Run | Statement | What happens |
|---|---|---|
| `v_reactor_expired` | `ExpiredIsCleanedUp` | Postgres, no fault: two sets that were both loaded and saved again collide on the empty registration key; the second can never be saved, so it expires without its credentials being revoked or its workers stopped |
| `v_forge_caps` | `CapsAreKept` | Postgres, a launch that failed, no stop: a session touch saves the copy it read before the request was decided; the request is active again beside the one admitted after it |

## Fairness

Fairness is stated for what the code, or what runs it, repeats without being
asked, and for nothing else.

* `SimopsRun!FairSpec`: weak fairness of the steps of a polling reader. The
  gateway finishes a request it has begun and the client asks again. An intent
  whose publication failed is retried only when a request for that Run
  dispatches, so without a polling client `IntentsArePublished` does not hold.
* `SimopsDelivery`: the process goes on (`Step`) and its supervisor restarts it.
  Faults are bounded, so that calls fail finitely often, but a held attempt
  stops the process at every restart: `AcknowledgedOrHeld` says that this is the
  only way a partition stays.
* `ReactorTelemetry`: the operation that holds the mutex goes on, a supervisor
  restarts the gateway, and the scheduler's tick gets the mutex again and again
  (strong fairness: requests may hold it at any given time; Go's mutex does not
  starve a waiter).
* `TwinPipeline`: each consumer and the projector go on; Compose restarts what
  has ended. Retention, flush and faults are not fair.
* `ArtifactForge`: the client repeats its request and gets the mutex (strong,
  for the same reason), the manager finishes what it has begun, a touch saves
  each copy it has listed. Nothing is assumed of a Run, a stop or a result:
  `FailureIsRecorded` is about a Run that is failed or stopped and stays so.
* `ConsumerProcess`: `Run`'s select sees what is ready and its deadline passes.
  Nothing is assumed of a flat program's consumers: a store call may hang and
  the deadline still ends the process. Nothing bounds the nested group's wait
  (`background_consumer_process.go:109`): for `StopsWhenTold` the projector's
  streams are assumed to return from their calls and to see that their context
  was cancelled.

## Proofs

TLC finds out whether a formula holds of an instance; the theorems hold for
every value of the constants, under the named assumptions of the modules.

**SimOps Run.** Assumptions: `HandlersAssumption` (the kinds of request are
disjoint) and `ParameterAssumption` (at least one worker, an adapter, natural
bounds). The sets of workers and requests may be of any size, infinite ones
included, and the number of faults and crashes any.

* `SimopsRunProofs` first proves that every operator of `SimopsState` and
  `SimopsStores` takes well-typed records to well-typed records.
* `SimopsRunProofs!TypeCorrect`: `Spec => []TypeOK`. `TypeOK` is four
  conjuncts, for the store, what is outside, the requests and the bounds. Three
  framing lemmas (`Frames`, `RequestStep`, `BoundsStep`) discharge the
  conjuncts a step leaves alone; then one lemma per action.
* `SimopsRunSafety!LaunchedAtMostOnce`: `Spec => []SingleLaunch`. `launches <= 1`
  is not inductive; the invariant adds that before the Run is created it is 0.
  Only the insert changes it, and the insert needs the Run not to exist.
* `SimopsRunSafety!NothingPublishedIsLost`: `Spec => []PublishedWasDelivered`.
  The strengthening: a dispatcher about to mark a topic has it in the log. It is
  kept because the log only grows, no step but `Publish` reaches that label,
  and a handler's topic changes only there.
* `SimopsRunSafety!NoTransitionWithoutIntent`: `Spec => []TransitionHasIntent`.
  An intent once recorded is never none again, and the only calls that make a
  Run streaming or stopped record one in the same step.
* `SimopsRunSafety!RunImplementsOutbox`: `Spec => ImplementsOutbox`, in either store
  and over any requests. Beside what the two theorems before it have,
  `HoldsRecorded`: what a handler has listed as due, or is about to mark, has its
  intent on record. It is kept because an intent is never forgotten, a list is
  read from the store, and a handler marks what it has listed (`DispatchHolds`).
  `OutboxEnters`, `OutboxLeaves`, `OutboxPublishes` and `OutboxMarks` are the
  steps of the outbox, `OutboxSteps` gives each call of a handler one of them.
* `SimopsRunSafety!CleanupKeepsFailure`: with the in-memory store,
  `Spec => FailureSurvivesCleanup`. Two invariants are needed. A stop request
  only ever makes a stop's calls (`StopsOnlyStop`), so a step that moves one is
  its own, or a crash, and it writes workers only by `ApplyStopTransition`. And
  every stored worker carries a state (`StateIsStored`): were one unset,
  `ensureSimopsWorkerState` would rebuild it, condition included. Without the
  assumption on the adapter the theorem is false (see Divergences).
* `StopLeavesNoWorker` and `CompensationIsHonest` are about behaviours, of any
  creates, stops, reads and ingests, in which a launch is alone: `Spec /\
  []LaunchesAlone => []NoWorkerOutlivesStop`. While a create has the workers
  launched, no other create and no stop is under way; every other overlap is
  allowed, so are a gateway that dies in the launch, the recovery of that start
  by a later create, and a stop that overtakes what a start does after its
  launch. `Still` says that the Run exists, that nothing runs and that nobody
  launches; it is stable, because only a create that makes the Run goes on to
  launch. The strengthening is `StoppedIsStill`: what is recorded as stopped,
  what a request holds as stopped and is yet to save, and a runtime stop that
  worked and whose outcome is yet to be recorded, each imply `Still`.
  `OwnCalls` (each request makes the calls of its kind) and `NothingBefore`
  (no request gets anywhere before the Run exists) complete the invariant.
* `StopRecordsItsCleanup`: `Spec /\ []StopsAlone => []StoppedRecordsCleanup`,
  where starts may overlap each other but not a stop. `CleanedUp` adds that no
  start is under way of a Run that reads stopped. It is kept because a start
  begins only by an insert or of a Run that reads starting (`NoStartBegins`),
  because the lifecycle becomes stopped only by the transition that settles,
  which records the disposition everywhere, and because an observation of a
  worker that carries its state keeps it.
* `StopsOfOneCreateAreTrue` has no hypothesis on the behaviour: with `OneCreate`,
  `Spec => [](LaunchesAlone /\ StopsAlone)` (`OneCreateTakesTurns`), since nobody
  knows the id of the Run before that create has answered (`Awaited`).
* `NoFrameIsTakenBack` assumes the Postgres store, and any creates. The
  invariant `FramesInv` adds to `FramesMatchTelemetry` that no request holds a
  plan or a launch record with more frames than the store counts
  (`PlansBehind`), so that the `GREATEST` of `SaveLaunch` keeps the stored
  count; that an ingest has one frame (`OneFrameEach`); and that finitely many
  ingests are under way, as the property counts them. It speaks of behaviours
  without a fault: a frame whose count fails is published and not counted.
* `TerminalOutcomeStays` assumes the Postgres store and is about behaviours in
  which no create recovers a launch, `Spec /\ []NoRecovery =>
  TerminalObservationKept`, over any creates, faults and crashes. Only a recovery
  puts an observed outcome into what a start later saves; without one every
  launch record has none (`PlansAreUnobserved`), and the `COALESCE` keeps the
  stored one. With a recovery it is false (see Divergences, "Stale recovery").
* `TerminalOutcomeOfOneCreateStays` has no hypothesis on the behaviour: with
  `OneCreate`, `Spec => []NoRecovery` (`OneCreateRecoversNothing`, by `NoRetry`:
  once the Run exists no create is left to ask for it again).

**The two adapters** (`SimopsLedgerParityProofs`), for every set of workers and
number of frames, as long as no observation is of a failed worker and no error
of a stop or of a cleanup is confirmed (`NothingFails`): `AdaptersShowTheSame`,
`AdaptersHoldTheSameFacts`, `AdaptersJudgeAlike`. The three are inductive only
together, and with what both adapters keep of a worker while nothing fails one:
it carries a state that is not failed. With a failure the adapters do disagree
(see Divergences, "Forgotten failure").

**Artifact delivery** (`SimopsDeliveryProofs`), from `LogAssumption`,
`DeploymentsAssumption`, `MaxFaultsAssumption`: any partition, deployments and
number of faults. The inductive invariant `IInv` has, beside the types and the
two promises: what is pending of a Run is telemetry of that Run
(`PendingIsOwn`); the process works on the message after the acknowledged one
(`InOrder`); the batch it delivers holds that message, and after the write the
table holds the batch (`InFlight`); it does with an attempt what the attempt on
record allows (`AttemptInHand`); a resolved attempt, or a payload in a manifest
file, has its copy (`RecordsAreWritten`); and with batches of one, a message
about to be acknowledged was delivered (`HandledIsDelivered`). From it:

* `DeliveryAttemptsImplementLedger`: `Spec => ImplementsLedger`, by the lemma
  `LedgerSteps`, which maps each step to a step of the ledger or a stutter.
* `TypeCorrect`, `AcknowledgedMessagesAreDelivered` and
  `CommittedArtifactsAreWritten`.
* `NothingIsLostWithoutFault`, for batches of any size. The invariant
  `FaultFree` says what holds as long as `faults = 0`: no attempt is unknown or
  held (`NoneHeld`); the batch in hand is all that is pending of its Run
  (`BatchIsPending`); nothing after the message in hand was collected or written
  (`HandledAtMost`); a pending event is in the table only between the write of
  its batch and the announcement (`PendingIsUnwritten`); two written batches
  are disjoint, and each was written once (`WrittenOnce`); and what was
  acknowledged is written or pending (`NothingLost`).

**Twin pipeline** (`TwinPipelineProofs`), from `LogAssumption` and
`BoundsAssumption`: any tags, frames, results, flushes and faults. `IInv` is the
types; `AtMessage`, the projector works on a message of its source; `Keys`, a
row, a publication or an event has its processed key, which outlives them;
`Canonical`, the events of a publication that is pending carry the Twin State
saved for it, and events of one publication agree even after a flush has taken
it; `InHand`, what the projector knows of its message between two calls, a
flush being possible at each; and `Settled`. From it:

* `TypeCorrect`, `OneStatePerPublication`, `DeliveredBeforeCommitted`.
* `InsertedOnce`: `Spec => ProjectedOnce`, from `Keys`.
* `OneSnapshotPerGeneration`: `Spec => GenerationMoves`. A step that inserts a
  row or changes the current Twin State advances the generation, and so does one
  that removes rows; the others leave what the snapshot is computed from.

* `PipelineImplementsPublications`: `Spec => ImplementsPublications`. The content
  of a publication is chosen from its deliveries, of which `Canonical` leaves one
  (`ContentIsOne`); `ContentFactsNext` carries that over a step, and
  `ContentKept` and the lemmas on it show which steps leave every phase and every
  content alone. `PublicationSteps` maps each action to its step or a stutter.
  `InHand` is what makes `Deliver` carry the content and not a Twin State built
  again: the one in hand is the canonical one while the row is pending, that of
  the earlier deliveries when there are any, and never none.

That a newest frame of a tag exists, which the type of a Twin State needs, is a
least counterexample over `<` on the natural numbers (`WFMin`), not an
induction.

**Reactor telemetry** (`ReactorTelemetryProofs`), from `KeysAssumption`,
`StoresAssumption`, `BoundsAssumption`. `IInv` is the types; `RevokedIsEnded`, a
revoked row is in cleanup or removed; `InHand`, the manager's copy agrees with
the row where it matters, since no one but the manager, under its mutex, writes
a record; `Containers`, what each step knows of the containers; and the two
invariants themselves. It gives
`TypeCorrect`, `RevocationIsForGood`, `RemovedSetsHaveNoContainers`,
`ActiveSetsAreLaunched`.

**Artifact Forge** (`ArtifactForgeProofs`). Here others do write the ledger, from
copies they read at any time before. The invariant therefore says of every copy
of a record, in the ledger, in the manager's hand, in the list of a touch, what
`OutcomeIsEarned` says of the ledger (`SoundCopies`): then it does not matter
which is saved when. `LineageIsOwn` says of the evidence of a Run that its
Lineage is of a result of that Run. `OutcomesAreEarned` follows;
`OutcomesAreFinal` follows from the guard of the upsert, `MaySave`, at each of
its uses. `CapsHoldInMemory` has an invariant of its own, `MemoryInv`, of the
store in memory: no touch has copies in hand, since there it saves under the
lock it reads under; the request in hand is counted already, or a failure of it
is on record, or it found the caps kept a moment ago and no other can be
admitted before it (`Counted`); the active requests are finitely many, and those
never recorded as failed are within the caps (`Capped`), by the cardinality of a
set with one element more. It assumes nothing of the Runs: they may fail, be
stopped and become active again at any time. What it leaves out are the requests
so reopened, for which the caps are false (see Divergences); that a decision
run-failed leaves its event in the record (`Sound`) is what tells them apart.

**Consumer processes** (`ConsumerProcessProofs`), from `ProgramsAssumption`: any
choice of the five programs. `IInv` is the types, `Groups` (what a group has
taken has returned; the nested group starts and ends its streams together),
`Stopping` (what a process that has left its select knows, clean or failed) and
`Counted` (outside the Twin projector a failure is counted when it happens).
`TypeCorrect`, `CleanExitsAreDrained` and `FailuresAreShown` follow.

Every invariant and every action property of the passing runs is stated by a
theorem. Only model-checked are the liveness properties (`IntentsArePublished`,
`AcknowledgedOrHeld`, `CleanupFinishes`, `SourcesAreConsumed`,
`FailureIsRecorded`, `StopsWhenTold`), which are out of this prover's reach, and
the two refutations.

Eight theorems of the Run and the three of the adapters have hypotheses beside
the assumptions of their modules, and say nothing beyond them:

* `LaunchesAlone`, of the behaviours `StopLeavesNoWorker` and
  `CompensationIsHonest` are about, and `StopsAlone`, of those of
  `StopRecordsItsCleanup`. Once a second create with the key of the first was
  answered, the id of the Run is known while the first still launches; the three
  properties are false when a stop then overtakes it, in the ways "Start over
  stop" describes. `start_postgres` checks `CompensatedFailureIsClean` with two
  creates and without the hypothesis, within its bound of a fault and a crash; it
  still holds with two faults, and no longer with three. That `LaunchesAlone` also leaves out a create
  that recovers a launch still going on is what the invariant needs, whose
  `Still` speaks of all workers at once; no behaviour is known in which such a
  recovery alone breaks either property.
* `OneCreate`, of `StopsOfOneCreateAreTrue` and `TerminalOutcomeOfOneCreateStays`:
  one create makes the Run, and these hold of all its behaviours.
* `NoRecovery`, of the behaviours `TerminalOutcomeStays` is about:
  `records_postgres` checks `TerminalObservationKept` with two creates that race,
  where no start is slow, nothing crashes and so none is recovered.
* the adapter. `FailureSurvivesCleanup` is false in Postgres,
  `FramesMatchTelemetry` false in memory.
* `NothingFails`, which `parity_pass` keeps by its constants.

## Divergences

What the models showed of the code while they were written. The first two have
runs; the others are behaviours of the modules that no run asserts, some of
which limit what a passing property is checked over.

With a violation run: `v_reactor_expired` and `v_forge_caps`, above.

SimOps Runs:

* Start over stop. `NoWorkerOutlivesStop` and `StoppedRecordsCleanup` are checked
  with one create, where a stop starts after the start was answered. With a
  second create, whose replay tells a client the run id, a stop can overtake
  the start: the start's Streaming write comes last and revives the stopped Run
  (`simops_run_lifecycle.go:119`), and a container launched after the stop's
  cleanup runs on (`simops_stop_orchestrator.go:46`). If that start then fails
  and so do its compensation and the save of its outcome, three faults in all,
  the Run reads failed and the worker that still runs stopped:
  `CompensatedFailureIsClean` is checked with one.
* Forgotten failure. In Postgres an uncertain cleanup degrades a failed worker
  (`simops_postgres_store.go:591`), in memory it does not.
  `FailureSurvivesCleanup` is checked in memory, and `parity_pass` reports no
  failed worker.
* Killed reads failed. A read between a stop's kill and its removal stores a
  worker the stop killed as failed (`simops_controller.go:243`).
* Lifecycle and phase. An observation moves the phase of the Run and not its
  lifecycle, and a read between a stop's calls takes the phase out of stopping
  (`simops_store.go:414`).
* Stale recovery. A recovery that runs while a worker is observed saves an older
  record over a terminal observation (`simops_run_lifecycle.go:196`).
  `TerminalObservationKept` is checked without recovery.
* Recovery without a list. If the workers cannot be listed, the recovery of a start
  goes on to fail the Run with none (`simops_run_lifecycle.go:147`). The Docker
  adapter takes an empty list of profiles for every container of the Run
  (`simopsdocker/spooler.go:600`), so that they are stopped and removed all the same, but no
  worker record says so.
* Aggregates. SQL and Go aggregate the same facts differently
  (`simops_postgres_store.go:690`): `parity_pass` compares the v1 view, the facts
  and the condition, not the aggregate.
* The in-memory `SaveLaunch` replaces the worker and its frame count
  (`simops_store.go:239`); `FramesMatchTelemetry` is checked in Postgres.
* The second of two overlapping stops re-opens the Run the first has stopped
  (`simops_controller.go:229`); a frame admitted before a stop is counted after
  it (`simops_controller.go:321`); of two dispatchers one publishes streaming
  after the other has published stopped (`simops_run_lifecycle.go:391`).

Artifact delivery:

* A pending attempt may be appended twice: the process can die, or the call that
  marks it unknown can fail, after the append and before its outcome is on
  record. `DeliveryLedger!Append` allows it. The design asks more:
  `src/docs/design/recoverable-delivery-run-review-truth.md` says "An Unknown
  Commit must be reconciled before another logical append for the same batch is
  attempted".
* An unknown attempt whose batch reconciliation does not find is held for good,
  and the partition with it; the external command cannot be reconciled at all.
* With batches of more than one event, which only a process without a delivery
  store has, a partial batch is acknowledged while it is only in memory and lost
  by a restart (`simops_iceberg_writer.go:463`). `AcknowledgedIsDelivered` is
  about batches of one.
* The manifest path's sequence number starts again at 1 with the process
  (`simops_iceberg_writer.go:164`), so a later batch may overwrite the file of an
  earlier one. Reconciliation compares the payload, and is not deceived.

Twin pipeline:

* The wedged source. A flush that takes a saved publication before it is
  acknowledged leaves the processed key (`configured_data_flush.go:148`): when
  the message is delivered again, `Save` says it is processed already, there is
  no canonical row, and the projector fails at it at every restart
  (`workbench_store.go:860`; the comment at `twin_state_publication.go:61-63`
  takes the row to be there). If the restarted projector has nothing to build a
  Twin State from, it commits the source undelivered instead.
  `SourcesAreConsumed` names this exception, `Wedged`.
* A result that does not decode, by its `ProducedAt` for instance
  (`workbench_controller.go:240`), stops the projector and the projection writer
  at every restart (`Poisoned`).
* A restarted projector hydrates from projections that may lag behind what it
  had acknowledged: measured values it knew are dropped from the next Twin
  States. A flush does not reach its memory: what was flushed reappears in the
  next Twin State.
* The in-memory event log starts its offsets at 0 in each process
  (`workbench_adapters.go:28`), while the Postgres store knows messages by
  topic and offset: with that pairing, new messages are taken for old ones after
  a restart.

Reactor telemetry and Artifact Forge:

* A set loaded from Postgres has no gateway profile, so that a retry after a
  restart cannot launch it (`reactor_telemetry_worker_set.go:124`); a removed
  reactor cannot be registered again, as its removed set is what a registration
  finds, until a Configured Data Flush deletes the rows of removed sets.
* Reopened request. In either store, with no fault and no race, the caps of
  ADR-0007 (`src/docs/adr/adr-0007.md:61`) break by a stop: the Run of a request
  fails, its request is recorded run-failed and another is admitted for the
  reactor; a client stops the failed Run again, which makes it degraded
  (`simops_controller.go:229`, `simops_store.go:471`); the first request, repeated,
  awaits its Run again (`artifact_forge.go:420`) and is active beside the second. No
  cap is looked at on this way. TLC finds it for `CapsAreKept` in `forge_pass`'s
  sessions in memory; `MemoryCapsUnlessReopened` states what is left of the caps.
* No reward. `evaluate` applies an outcome only to a Run with the lifecycle
  complete (`artifact_forge.go:418`), and no code of the gateway writes it: a launch
  writes starting, streaming or failed, a stop degraded, stopped or failed, an
  observation of finished workers moves the phase only. The tests that see an
  outcome write the lifecycle themselves (`artifact_forge_test.go:114`). A client of
  the gateway is never rewarded, and its request counts as active until it fails.
* The Lineage joins an evidence only while its Run's result is the projector's
  last one; a result ingested before its Run is associated is ineligible for
  good; and a request repeated under its key after the ledger was pruned is
  evaluated again from the same Run.

Processes and health:

* `WriteFailures` is never reset (`simops_data_plane.go:278`): after one message
  that does not decode, a writer that passes it over answers unready for good.
  `FailureIsShown` is about failed streams and does not depend on it.
* A consumer's failure that `Run`'s select takes after a signal is dropped: if
  no other follows, the process exits clean. `CleanExitIsDrained` says that it
  has drained, not that nothing failed.
* A reconciliation cycle that meets its deadline returns the outcomes it has, and
  no error (`fleet_board_intents.go:113-122`); the health of the gateway marks the
  task ready (`lifecycle_health.go:54-78`), while the comment at
  `handlers.go:155-156` says "A deadline remains evidence of an unhealthy
  reconciliation cycle." The gateway's lifecycle health has no module.

## Abstractions

SimopsRun and its stores:

* One Run and one idempotency key. The admission cap and its lookup need
  several (plan). A create whose key has a Run goes on with that Run.
* Evidence lists, failure stage, labels, timestamps and messages are dropped.
  Time is the flag `stale`, which `MinutePasses` sets; with `SlowStart` false it
  does so only when no start is in flight.
* The store's event table, delivery attempts and commands are left out; the log
  is the broker's. A telemetry request has one frame; a batch is several
  requests, except that it stops at its first error.
* List and inspect of the containers is one snapshot. A stop exit code (137,
  143) reads as failed unless the Run was already stopped, an absent container
  as missing unless it was. `pending`, image pull failures and a container that
  cannot be inspected are not generated. A container whose start fails is
  removed, as the adapter does.
* Intents are listed as a set; the store orders them by creation time.
* A read that fails before anything is changed and leaves the request as if it
  had not come (lists for the answer, `responseFor`) is left out.
* A Postgres transaction is one atomic step. Two things this hides: an
  observation locks the worker and then the Run, a stop the Run and then the
  workers, so that the database may abort one (a `StoreFault` here); and the
  SQL aggregate reads other workers' rows under READ COMMITTED.
* Only the Docker runtime is modelled; the Kubernetes one is not.

The others:

* SimopsDelivery: one partition and one process; rows and payloads are dropped.
  The disabled writer, which only acknowledges, and the creation of the table
  are left out.
* TwinPipeline: one partition per topic. A projection consumer's persist and
  commit are one step that may also fail between the two: no one else reads its
  offset. The Iceberg appends of frames and results, at least once each, and the
  in-memory Workbench store are left out. That a flush applies only a plan
  whose fingerprint is that of the transaction it deletes in is read from the
  code.
* ReactorTelemetry: time is whether a set has expired. Tags, frames and
  signatures are dropped, and so is the deletion of removed sets by a flush,
  after which a reactor is as new. A crash of a gateway with the in-memory store forgets
  the sets and leaves the containers.
* ArtifactForge: a Run is its lifecycle, without workers or phase; a launch that
  fails leaves any lifecycle a failure can leave, and a stop ends in any of the
  three a stop can end in, whatever the workers did. SimopsRun has the workers. A
  crash with the store in memory, after which all is new, is left out. Results are valid frames of the expected value. Retention is
  not counted: a prune takes the whole ledger when nothing is under way.
* ConsumerProcess: of the metrics only what `/readyz` and `/healthz` read.

## Plan

1. `SimopsAdmission`: several keys and Runs; the lookup by key, the count of
   active Runs, the insert. How far the cap may be exceeded by concurrent
   creates, and by stops and starts that make a Run active again; whether a
   request whose key has a Run may be refused for the cap.
2. `SimopsTransactions`: the Postgres adapter at the level of row locks and
   statement snapshots, for observations and stops; that it implements the
   atomic calls of `SimopsStores`, or where it does not; absence of deadlock.
3. The Kubernetes adapter as a second runtime of SimopsRun; `LifecycleHealth`;
   `MoqTracks`; `SlurmJobs`.
4. Proofs. For the Run, what is still true of a stop that overtakes a launch:
   which of its records are wrong, and which later call repairs them; and
   `Still` worker by worker, so that `LaunchesAlone` need not exclude a recovery.

## Not modelled

* SimOps admission, the transactions of the control store, the Kubernetes
  adapter, MoQ tracks, Slurm jobs, the gateway's lifecycle health: see the plan.
* Session outcomes and wire envelopes of Fleet Board intents: formatting around
  the managers that are modelled.
* The read-only queries of the Workbench and the control store.
* Configuration, wire types, routing: no state of their own. The browser console
  is a client, the worker programs are load generators, deployment is static.
