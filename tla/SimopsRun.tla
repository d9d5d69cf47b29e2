------------------------------ MODULE SimopsRun ------------------------------
(***************************************************************************)
(* The SimOps control plane of the gateway, for one Run: the HTTP requests *)
(* that create, stop and read it and the telemetry its workers ingest, the *)
(* control store they share, the container runtime that executes the       *)
(* workers, and the event log the lifecycle of the Run is published to.    *)
(*                                                                         *)
(* A request is a process.  One action is one call the handler makes: to   *)
(* the store (atomic: a mutex or a transaction), to the runtime (which     *)
(* works worker by worker, so a stop, a launch and an exit interleave), or *)
(* to the event log.  Between two calls a handler holds what it read.      *)
(***************************************************************************)
EXTENDS SimopsStores, Sequences, FiniteSets

CONSTANTS
  Creates,      \* POST /runs requests, all with one idempotency key
  Stops,        \* POST /runs/{id}/stop requests
  Gets,         \* GET /runs/{id} requests
  Pollers,      \* the Gets whose client asks again and again
  Ingests,      \* telemetry POSTs of the workers, one frame each
  Adapter,      \* which control store: "memory" or "postgres"
  SlowStart,    \* may a live start outlast incompleteStartStaleAfter?
  RuntimeErrors,\* how a runtime stop or cleanup may fail
  MaxFaults,    \* bound: failing calls in a behaviour
  MaxCrashes    \* bound: crashes of the gateway in a behaviour

Handlers == Creates \cup Stops \cup Gets \cup Ingests
Topics   == {"streaming", "stopped"}   \* lifecycles published by intent

ASSUME HandlersAssumption ==
  /\ Creates \cap Stops = {} /\ Creates \cap Gets = {}
  /\ Creates \cap Ingests = {} /\ Stops \cap Gets = {}
  /\ Stops \cap Ingests = {} /\ Gets \cap Ingests = {}
  /\ Pollers \subseteq Gets

ASSUME ParameterAssumption ==
  /\ Workers # {}
  /\ Adapter \in Adapters
  /\ SlowStart \in BOOLEAN
  /\ RuntimeErrors \subseteq {"uncertain", "confirmed"}
  /\ MaxFaults \in Nat /\ MaxCrashes \in Nat
  /\ Adapter = "memory" => MaxCrashes = 0   \* a crash loses that store

VARIABLES
  (* the control store *)
  created,   \* does the Run exist?
  run,       \* its record
  worker,    \* its worker records
  stale,     \* has it been untouched for incompleteStartStaleAfter?
  intent,    \* the publication intent of each topic
  artifact,  \* the disposition of the planned artifact
  (* the runtime, the event log *)
  exec,      \* what runs, or is left, of each worker
  log,       \* lifecycle events published, in order
  telemetry, \* telemetry events published, by worker
  (* the requests *)
  pc,        \* the call each handler makes next
  local,     \* what each handler holds between two calls
  reply,     \* what each request was answered
  (* history and bounds *)
  launches,  \* how often the runtime was asked to launch the Run
  faults, crashes

store   == <<created, run, worker, stale, intent, artifact>>
outside == <<exec, log, telemetry>>
request == <<pc, local, reply>>
bounds  == <<launches, faults, crashes>>
vars    == <<store, outside, request, bounds>>

NoVerdict == "ok"
Blank ==
  [plan |-> [w \in Workers |-> PlannedWorker], launched |-> {},
   seen |-> [w \in Workers |-> "missing"], todo |-> {}, due |-> {},
   topic |-> "streaming", stop |-> NoVerdict, clean |-> NoVerdict,
   lifecycle |-> "starting", unlisted |-> FALSE]

(* The record a create inserts (CreateRun, ensureSimopsRunState).          *)
AdmittedRun == [lifecycle |-> "starting", phase |-> "admitted",
                condition |-> "nominal", cleanup |-> "not_requested"]

Init ==
  /\ created = FALSE
  /\ run = AdmittedRun
  /\ worker = [w \in Workers |-> EnsureWorkerState(PlannedWorker)]
  /\ stale = FALSE
  /\ intent = [t \in Topics |-> "none"]
  /\ artifact = "none"
  /\ exec = [w \in Workers |-> "absent"]
  /\ log = <<>>
  /\ telemetry = [w \in Workers |-> 0]
  /\ pc = [h \in Handlers |-> "idle"]
  /\ local = [h \in Handlers |-> Blank]
  /\ reply = [h \in Handlers |-> "none"]
  /\ launches = 0 /\ faults = 0 /\ crashes = 0

-----------------------------------------------------------------------------
Goto(h, label) == pc' = [pc EXCEPT ![h] = label]
Hold(h, held)  == local' = [local EXCEPT ![h] = held]

(* The request is answered.  A poller's client asks again.                 *)
Answer(h, status) ==
  /\ pc' = [pc EXCEPT ![h] = IF h \in Pollers THEN "idle" ELSE "done"]
  /\ reply' = [reply EXCEPT ![h] = status]
  /\ local' = [local EXCEPT ![h] = Blank]

Fault == faults < MaxFaults /\ faults' = faults + 1

(* A call of the store can fail only when the store is a database.         *)
StoreFault == Adapter = "postgres" /\ Fault

(* A client has learned the run id: from a create that was answered.       *)
RunIDKnown == \E c \in Creates : reply[c] = "ok"

RecordIntent(topic, replaces) ==
  intent' = [intent EXCEPT ![topic] =
               RecordIntentIn(Adapter, intent[topic], replaces)]

-----------------------------------------------------------------------------
(* POST /runs: SimopsRunLifecyclePolicy.Start                              *)

(* store.CreateRun inserts the Run, with its planned workers, unless the   *)
(* idempotency key has one.                                                *)
InsertRun(h) ==
  /\ ~created
  /\ created' = TRUE
  /\ run' = AdmittedRun
  /\ worker' = [w \in Workers |-> EnsureWorkerState(PlannedWorker)]
  /\ stale' = FALSE
  /\ local' = [local EXCEPT ![h].todo = Workers]
  /\ Goto(h, "launch")
  /\ launches' = launches + 1
  /\ UNCHANGED <<reply, faults>>

(* A stale start is taken for a start whose gateway died.                  *)
RelaunchStaleRun(h) ==   \* mutant: the retry launches the workers itself
  /\ created /\ run.lifecycle = "starting" /\ stale
  /\ local' = [local EXCEPT ![h].todo = Workers]
  /\ Goto(h, "launch")
  /\ launches' = launches + 1
  /\ UNCHANGED <<created, run, worker, stale, reply, faults>>

RetryStaleRun(h) ==
  /\ created /\ run.lifecycle = "starting" /\ stale
  /\ Goto(h, "recoverList")
  /\ UNCHANGED <<created, run, worker, stale, local, reply, launches, faults>>

ReplayRun(h) ==
  /\ created /\ ~(run.lifecycle = "starting" /\ stale)
  /\ Answer(h, "ok")
  /\ UNCHANGED <<created, run, worker, stale, launches, faults>>

CreateRun(h) ==
  /\ pc[h] = "idle" /\ h \in Creates
  /\ \/ InsertRun(h)
     \/ RetryStaleRun(h)
     \/ ReplayRun(h)
     \/ /\ StoreFault
        /\ Answer(h, "error")
        /\ UNCHANGED <<created, run, worker, stale, launches>>
  /\ UNCHANGED <<intent, artifact, outside, crashes>>

(* spooler.StartRunProfiles creates and starts one worker after another,   *)
(* and gives up at the first that fails, returning those it launched.      *)
LaunchWorker(h) ==
  /\ pc[h] = "launch"
  /\ \E w \in local[h].todo :
       \/ /\ exec' = [exec EXCEPT ![w] = "running"]
          /\ Hold(h, [local[h] EXCEPT
                 !.todo     = local[h].todo \ {w},
                 !.launched = local[h].launched \cup {w},
                 !.plan     = [local[h].plan EXCEPT ![w] = LaunchedWorker]])
          /\ IF local[h].todo = {w} THEN Goto(h, "saveLaunch")
             ELSE UNCHANGED pc
          /\ UNCHANGED faults
       \/ /\ Fault
          /\ local' = [local EXCEPT ![h].todo = {}]
          /\ Goto(h, "compensateStop")
          /\ UNCHANGED exec
  /\ UNCHANGED <<store, log, telemetry, reply, launches, crashes>>

SaveLaunch(h) ==
  /\ pc[h] = "saveLaunch"
  /\ \/ /\ worker' = SaveLaunchIn(Adapter, worker, local[h].plan)
        /\ Goto(h, "stream")
        /\ UNCHANGED faults
     \/ /\ StoreFault
        /\ Goto(h, "compensateStop")
        /\ UNCHANGED worker
  /\ UNCHANGED <<created, run, stale, intent, artifact, outside, local, reply,
                 launches, crashes>>

(* UpdateRunLifecycleWithPublicationIntent: the Run is streaming, whatever *)
(* it was.  Postgres reads the intent back after the commit: that read can *)
(* fail too, with the transition already stored.                           *)
SetStreaming(h) ==
  /\ pc[h] = "stream"
  /\ \/ /\ run' = SetRunLifecycleIn(Adapter, run, "streaming")
        /\ RecordIntent("streaming", FALSE)
        /\ stale' = FALSE
        /\ \/ Goto(h, "artifact") /\ UNCHANGED faults
           \/ StoreFault /\ Goto(h, "compensateStop")
     \/ /\ StoreFault
        /\ Goto(h, "compensateStop")
        /\ UNCHANGED <<run, intent, stale>>
  /\ UNCHANGED <<created, worker, artifact, outside, local, reply, launches,
                 crashes>>

SaveArtifact(h) ==
  /\ pc[h] = "artifact"
  /\ \/ /\ artifact' = "received"
        /\ Goto(h, "dispatch")
        /\ UNCHANGED faults
     \/ /\ StoreFault
        /\ Goto(h, "compensateStop")
        /\ UNCHANGED artifact
  /\ UNCHANGED <<created, run, worker, stale, intent, outside, local, reply,
                 launches, crashes>>
-----------------------------------------------------------------------------
(* recoverIncompleteStart: an idempotent retry finds a Run that has been   *)
(* starting for too long.                                                  *)

(* What the Docker adapter reports of a worker: a container that was       *)
(* killed has a stop exit code, which reads as stopped only for a Run that *)
(* was already stopped; an absent container likewise.                      *)
Observation(resource, lifecycle) ==
  CASE resource = "running"   -> "active"
    [] resource = "succeeded" -> "succeeded"
    [] resource = "failed"    -> "failed"
    [] resource = "killed"    -> IF lifecycle = "stopped" THEN "stopped"
                                 ELSE "failed"
    [] OTHER                  -> IF lifecycle = "stopped" THEN "stopped"
                                 ELSE "missing"

(* Without a list of its workers the Run fails all the same: an empty list *)
(* of profiles is every container of the Run to the Docker adapter.        *)
RecoverList(h) ==
  /\ pc[h] = "recoverList"
  /\ \/ /\ local' = [local EXCEPT ![h].plan = worker]
        /\ Goto(h, "recoverSync")
        /\ UNCHANGED faults
     \/ /\ StoreFault
        /\ local' = [local EXCEPT ![h].unlisted = TRUE]
        /\ Goto(h, "compensateStop")
  /\ UNCHANGED <<store, outside, reply, launches, crashes>>

RecoverSync(h) ==
  /\ pc[h] = "recoverSync"
  /\ \/ /\ Hold(h, [local[h] EXCEPT
               !.seen = [w \in Workers |-> Observation(exec[w], "starting")],
               !.todo = Workers])
        /\ Goto(h, "recoverObserve")
        /\ UNCHANGED faults
     \/ Fault /\ Goto(h, "compensateStop") /\ UNCHANGED local
  /\ UNCHANGED <<store, outside, reply, launches, crashes>>

(* store.UpdateWorkerObservedLifecycle                                     *)
Observe(w, observed) ==
  /\ worker' = [worker EXCEPT ![w] =
                  ObserveWorker(worker[w], observed, observed # "missing")]
  /\ run' = ObserveRunIn(Adapter, run, worker')
  /\ stale' = FALSE

RecoverObserve(h) ==
  /\ pc[h] = "recoverObserve"
  /\ \E w \in local[h].todo :
       LET seen == local[h].seen[w]
           plan == local[h].plan
       IN /\ Hold(h, IF seen = "missing"
                     THEN [local[h] EXCEPT !.todo = local[h].todo \ {w}]
                     ELSE [local[h] EXCEPT
                       !.todo     = local[h].todo \ {w},
                       !.launched = local[h].launched \cup {w},
                       !.plan = [plan EXCEPT ![w] =
                                   ApplyObserved(plan[w], seen, TRUE)]])
          /\ IF local[h].todo = {w} THEN Goto(h, "compensateStop")
             ELSE UNCHANGED pc
          /\ \/ Observe(w, seen) /\ UNCHANGED faults
             \/ StoreFault /\ UNCHANGED <<worker, run, stale>>
  /\ UNCHANGED <<created, intent, artifact, outside, reply, launches, crashes>>
-----------------------------------------------------------------------------
(* fail: compensate the launch, then record the failure.  Every call of it *)
(* may fail; only a failed runtime call changes what the next ones record. *)

(* The runtime stops, or removes, every worker of the Run: all of them, or *)
(* some of them and an error.                                              *)
StopContainers(stopped) ==
  exec' = [w \in Workers |-> IF w \in stopped /\ exec[w] = "running"
                             THEN "killed" ELSE exec[w]]
RemoveContainers(removed) ==
  exec' = [w \in Workers |-> IF w \in removed THEN "absent" ELSE exec[w]]

CompensateStop(h) ==
  /\ pc[h] = "compensateStop"
  /\ \/ /\ StopContainers(Workers)
        /\ Goto(h, "compensateClean")
        /\ UNCHANGED <<local, faults>>
     \/ /\ Fault
        /\ \E some \in SUBSET Workers : StopContainers(some)
        /\ local' = [local EXCEPT ![h].stop = "uncertain"]
        /\ Goto(h, "failSave")
  /\ UNCHANGED <<store, log, telemetry, reply, launches, crashes>>

CompensateClean(h) ==
  /\ pc[h] = "compensateClean"
  /\ \/ RemoveContainers(Workers) /\ UNCHANGED <<local, faults>>
     \/ /\ Fault
        /\ \E some \in SUBSET Workers : RemoveContainers(some)
        /\ local' = [local EXCEPT ![h].clean = "uncertain"]
  /\ Goto(h, "failSave")
  /\ UNCHANGED <<store, log, telemetry, reply, launches, crashes>>

Compensated(h) == local[h].stop = "ok" /\ local[h].clean = "ok"

FailedLifecycleOfLaunched(h, w) ==  \* mutant: the compensation is not asked
  IF w \in local[h].launched THEN "stopped" ELSE "failed"

(* failedWorkerOutcomes                                                    *)
FailedLifecycle(h, w) ==
  IF w \in local[h].launched /\ Compensated(h) THEN "stopped" ELSE "failed"

FailSaveLaunch(h) ==
  /\ pc[h] = "failSave"
  /\ \/ /\ ~local[h].unlisted
        /\ \/ /\ worker' = SaveLaunchIn(Adapter, worker,
                             [w \in Workers |->
                                [local[h].plan[w] EXCEPT
                                   !.lifecycle = FailedLifecycle(h, w)]])
              /\ UNCHANGED faults
           \/ StoreFault /\ UNCHANGED worker
        /\ local' = [local EXCEPT ![h].todo = Workers]
        /\ Goto(h, "failWorkers")
     \/ /\ local[h].unlisted   \* no worker outcome to save
        /\ Goto(h, "failRun")
        /\ UNCHANGED <<worker, local, faults>>
  /\ UNCHANGED <<created, run, stale, intent, artifact, outside, reply,
                 launches, crashes>>

(* UpdateWorkerFrames(worker, outcome lifecycle, 0)                        *)
FailWorker(h) ==
  /\ pc[h] = "failWorkers"
  /\ \E w \in local[h].todo :
       /\ \/ /\ worker' = [worker EXCEPT ![w].lifecycle = FailedLifecycle(h, w)]
             /\ UNCHANGED faults
          \/ StoreFault /\ UNCHANGED worker
       /\ local' = [local EXCEPT ![h].todo = @ \ {w}]
       /\ IF local[h].todo = {w} THEN Goto(h, "failRun") ELSE UNCHANGED pc
  /\ UNCHANGED <<created, run, stale, intent, artifact, outside, reply,
                 launches, crashes>>

FailRun(h) ==
  /\ pc[h] = "failRun"
  /\ \/ /\ run' = SetRunLifecycleIn(Adapter, run, "failed")
        /\ stale' = FALSE
        /\ UNCHANGED faults
     \/ StoreFault /\ UNCHANGED <<run, stale>>
  /\ Goto(h, "failArtifact")
  /\ UNCHANGED <<created, worker, intent, artifact, outside, local, reply,
                 launches, crashes>>

FailArtifact(h) ==
  /\ pc[h] = "failArtifact"
  /\ \/ /\ artifact' = IF artifact = "none" THEN "none" ELSE "failed"
        /\ UNCHANGED faults
     \/ StoreFault /\ UNCHANGED artifact
  /\ Goto(h, "failEvent")
  /\ UNCHANGED <<created, run, worker, stale, intent, outside, local, reply,
                 launches, crashes>>

FailEvent(h) ==
  /\ pc[h] = "failEvent"
  /\ \/ log' = Append(log, "failed") /\ UNCHANGED faults
     \/ Fault /\ log' \in {log, Append(log, "failed")}
  /\ Answer(h, "error")
  /\ UNCHANGED <<store, exec, telemetry, launches, crashes>>
-----------------------------------------------------------------------------
(* dispatchSimopsPublicationIntents, and the answer: a create that         *)
(* launched, a stop that went well and a read end with it, and ignore its  *)
(* errors.                                                                 *)

DueOnce == {t \in Topics : intent[t] = "pending"}   \* mutant: no retry
DueUnlessPublished ==   \* mutant: what was never recorded is due too
  {t \in Topics : intent[t] # "published"}

Due == {t \in Topics : intent[t] \in {"pending", "failed"}}

ListIntents(h) ==
  /\ pc[h] = "dispatch"
  /\ \/ /\ local' = [local EXCEPT ![h].due = Due]
        /\ Goto(h, "publish")
        /\ UNCHANGED <<reply, faults>>
     \/ StoreFault /\ Answer(h, "ok")
  /\ UNCHANGED <<store, outside, launches, crashes>>

(* eventLog.Publish.  RedpandaEventLog writes the broker and then the      *)
(* store: it may report an error for an event that is in the topic.        *)
Publish(h) ==
  /\ pc[h] = "publish"
  /\ \/ \E t \in local[h].due :
          /\ Hold(h, [local[h] EXCEPT !.due = local[h].due \ {t}, !.topic = t])
          /\ \/ /\ log' = Append(log, t)
                /\ Goto(h, "markPublished")
                /\ UNCHANGED faults
             \/ /\ Fault
                /\ log' \in {log, Append(log, t)}
                /\ Goto(h, "markFailed")
          /\ UNCHANGED reply
     \/ /\ local[h].due = {}
        /\ Answer(h, "ok")
        /\ UNCHANGED <<log, faults>>
  /\ UNCHANGED <<store, exec, telemetry, launches, crashes>>

Mark(h, label, state) ==
  /\ pc[h] = label
  /\ \/ intent' = [intent EXCEPT ![local[h].topic] = state] /\ UNCHANGED faults
     \/ StoreFault /\ UNCHANGED intent
  /\ Goto(h, "publish")
  /\ UNCHANGED <<created, run, worker, stale, artifact, outside, local, reply,
                 launches, crashes>>

MarkDone(h) == Mark(h, "markFailed", "published")   \* mutant: a failed
                                                    \* publication is done
MarkPublished(h) == Mark(h, "markPublished", "published")
MarkFailed(h)    == Mark(h, "markFailed", "failed")
-----------------------------------------------------------------------------
(* POST /runs/{id}/stop: StopRun and SimopsStopOrchestrator.Stop           *)

StopRead(h) ==
  /\ pc[h] = "idle" /\ h \in Stops /\ RunIDKnown
  /\ \/ /\ run.lifecycle \in {"stopped", "complete"}
        /\ Answer(h, "ok")
     \/ /\ run.lifecycle \notin {"stopped", "complete"}
        /\ Goto(h, "stopRequest")
        /\ UNCHANGED <<local, reply>>
  /\ UNCHANGED <<store, outside, bounds>>

(* store.ApplyStopTransition.  Postgres reads the Run back after the       *)
(* commit, so an error does not say that the transition was not applied.   *)
ApplyStop(t) ==
  LET workers == StopWorkersIn(Adapter, worker, t)
      after   == StopRunIn(Adapter, run, workers, t)
  IN /\ worker' = workers
     /\ run' = after
     /\ stale' = FALSE
     /\ IF after.phase = "stopped" THEN RecordIntent("stopped", TRUE)
        ELSE UNCHANGED intent

StopStep(h, label, t, next) ==
  /\ pc[h] = label
  /\ \/ ApplyStop(t) /\ next /\ UNCHANGED faults
     \/ ApplyStop(t) /\ StoreFault /\ Answer(h, "error")
     \/ StoreFault /\ Answer(h, "error")
        /\ UNCHANGED <<worker, run, stale, intent>>
  /\ UNCHANGED <<created, artifact, outside, launches, crashes>>

StopRequest(h) ==
  StopStep(h, "stopRequest", StopFact("requested", "ok", "ok"),
           Goto(h, "stopRuntime") /\ UNCHANGED <<local, reply>>)

StopRuntime(h) ==
  /\ pc[h] = "stopRuntime"
  /\ \/ StopContainers(Workers) /\ UNCHANGED <<local, faults>>
     \/ /\ Fault
        /\ \E some \in SUBSET Workers, e \in RuntimeErrors :
             /\ StopContainers(some)
             /\ local' = [local EXCEPT ![h].stop = e]
  /\ Goto(h, "stopProgress")
  /\ UNCHANGED <<store, log, telemetry, reply, launches, crashes>>

StopProgress(h) ==
  StopStep(h, "stopProgress", StopFact("in_progress", local[h].stop, "ok"),
           Goto(h, "stopCleanup") /\ UNCHANGED <<local, reply>>)

StopCleanup(h) ==
  /\ pc[h] = "stopCleanup"
  /\ \/ RemoveContainers(Workers) /\ UNCHANGED <<local, faults>>
     \/ /\ Fault
        /\ \E some \in SUBSET Workers, e \in RuntimeErrors :
             /\ RemoveContainers(some)
             /\ local' = [local EXCEPT ![h].clean = e]
  /\ Goto(h, "stopFinal")
  /\ UNCHANGED <<store, log, telemetry, reply, launches, crashes>>

CleanupIsVerdict(verdict) ==   \* mutant: the verdict is stored as it is
  IF verdict = "ok" THEN "completed" ELSE verdict

CleanupOf(verdict) == CASE verdict = "ok"        -> "completed"
                        [] verdict = "confirmed" -> "failed"
                        [] OTHER                 -> "incomplete"

StopFinal(h) ==
  StopStep(h, "stopFinal",
           StopFact(CleanupOf(local[h].clean), local[h].stop, local[h].clean),
           IF local[h].stop = "ok" /\ local[h].clean = "ok"
           THEN Goto(h, "dispatch") /\ UNCHANGED <<local, reply>>
           ELSE Answer(h, "error"))
-----------------------------------------------------------------------------
(* GET /runs/{id}: syncRunWorkers, then dispatch                           *)

GetRead(h) ==
  /\ pc[h] = "idle" /\ h \in Gets /\ RunIDKnown
  /\ local' = [local EXCEPT ![h].lifecycle = run.lifecycle]
  /\ Goto(h, "getSync")
  /\ UNCHANGED <<store, outside, reply, bounds>>

GetSync(h) ==
  /\ pc[h] = "getSync"
  /\ \/ /\ Hold(h, [local[h] EXCEPT
               !.seen = [w \in Workers |->
                           Observation(exec[w], local[h].lifecycle)],
               !.todo = Workers])
        /\ Goto(h, "getObserve")
        /\ UNCHANGED faults
     \/ Fault /\ Goto(h, "dispatch") /\ UNCHANGED local
  /\ UNCHANGED <<store, outside, reply, launches, crashes>>

GetObserve(h) ==
  /\ pc[h] = "getObserve"
  /\ \E w \in local[h].todo :
       \/ /\ Observe(w, local[h].seen[w])
          /\ local' = [local EXCEPT ![h].todo = @ \ {w}]
          /\ IF local[h].todo = {w} THEN Goto(h, "dispatch") ELSE UNCHANGED pc
          /\ UNCHANGED faults
       \/ /\ StoreFault
          /\ Goto(h, "dispatch")
          /\ UNCHANGED <<worker, run, stale, local>>
  /\ UNCHANGED <<created, intent, artifact, outside, reply, launches, crashes>>

(* GET /runs/{id}/events dispatches what is due and lists stored events.   *)
ListEvents(h) ==
  /\ pc[h] = "idle" /\ h \in Gets /\ RunIDKnown
  /\ Goto(h, "dispatch")
  /\ UNCHANGED <<store, outside, local, reply, bounds>>
-----------------------------------------------------------------------------
(* The ingest of one telemetry frame of a running worker                   *)

IngestRead(h) ==
  /\ pc[h] = "idle" /\ h \in Ingests
  /\ \E w \in Workers :
       /\ exec[w] = "running"
       /\ \/ /\ run.lifecycle \in {"starting", "streaming", "degraded"}
             /\ local' = [local EXCEPT ![h].todo = {w}]
             /\ Goto(h, "ingestPublish")
             /\ UNCHANGED reply
          \/ /\ run.lifecycle \notin {"starting", "streaming", "degraded"}
             /\ Answer(h, "error")
  /\ UNCHANGED <<store, outside, bounds>>

IngestPublish(h) ==
  /\ pc[h] = "ingestPublish"
  /\ \E w \in local[h].todo :
       \/ /\ telemetry' = [telemetry EXCEPT ![w] = @ + 1]
          /\ Goto(h, "ingestCount")
          /\ UNCHANGED <<local, reply, faults>>
       \/ /\ Fault
          /\ telemetry' \in {telemetry, [telemetry EXCEPT ![w] = @ + 1]}
          /\ Answer(h, "error")
  /\ UNCHANGED <<store, exec, log, launches, crashes>>

(* store.UpdateWorkerFrames                                                *)
IngestCount(h) ==
  /\ pc[h] = "ingestCount"
  /\ \E w \in local[h].todo :
       \/ /\ worker' = [worker EXCEPT ![w] = CountFrameOf(worker[w])]
          /\ Answer(h, "ok")
          /\ UNCHANGED faults
       \/ StoreFault /\ Answer(h, "error") /\ UNCHANGED worker
  /\ UNCHANGED <<created, run, stale, intent, artifact, outside, launches,
                 crashes>>
-----------------------------------------------------------------------------
(* The environment: a worker ends by itself, time passes, the gateway dies *)

WorkerExit(w) ==
  /\ exec[w] = "running"
  /\ \E end \in {"succeeded", "failed"} : exec' = [exec EXCEPT ![w] = end]
  /\ UNCHANGED <<store, log, telemetry, request, bounds>>

StartPath == {"launch", "saveLaunch", "stream", "artifact"}

MinutePasses ==
  /\ created /\ run.lifecycle = "starting" /\ ~stale
  /\ SlowStart \/ \A h \in Handlers : pc[h] \notin StartPath
  /\ stale' = TRUE
  /\ UNCHANGED <<created, run, worker, intent, artifact, outside, request,
                 bounds>>

(* Requests in flight are gone; the store, the runtime and the log stay.   *)
Crash ==
  /\ crashes < MaxCrashes
  /\ crashes' = crashes + 1
  /\ \E h \in Handlers : pc[h] \notin {"idle", "done"}
  /\ pc' = [h \in Handlers |->
              IF pc[h] = "idle" \/ h \in Pollers THEN "idle" ELSE "done"]
  /\ local' = [h \in Handlers |-> Blank]
  /\ UNCHANGED <<store, outside, reply, launches, faults>>
-----------------------------------------------------------------------------
CreateStep(h) ==
  \/ CreateRun(h) \/ LaunchWorker(h) \/ SaveLaunch(h) \/ SetStreaming(h)
  \/ SaveArtifact(h)
RecoverStep(h) ==
  \/ RecoverList(h) \/ RecoverSync(h) \/ RecoverObserve(h)
FailStep(h) ==
  \/ CompensateStop(h) \/ CompensateClean(h) \/ FailSaveLaunch(h)
  \/ FailWorker(h) \/ FailRun(h) \/ FailArtifact(h) \/ FailEvent(h)
DispatchStep(h) ==
  \/ ListIntents(h) \/ Publish(h) \/ MarkPublished(h) \/ MarkFailed(h)
RunStopStep(h) ==
  \/ StopRead(h) \/ StopRequest(h) \/ StopRuntime(h) \/ StopProgress(h)
  \/ StopCleanup(h) \/ StopFinal(h)
GetStep(h)    == GetRead(h) \/ GetSync(h) \/ GetObserve(h) \/ ListEvents(h)
IngestStep(h) == IngestRead(h) \/ IngestPublish(h) \/ IngestCount(h)

HandlerStep(h) ==
  \/ CreateStep(h) \/ RecoverStep(h) \/ FailStep(h) \/ DispatchStep(h)
  \/ RunStopStep(h) \/ GetStep(h) \/ IngestStep(h)

Next ==
  \/ \E h \in Handlers : HandlerStep(h)
  \/ \E w \in Workers : WorkerExit(w)
  \/ MinutePasses
  \/ Crash

Spec == Init /\ [][Next]_vars

(* A handler that has started runs to its answer, and a poller's client    *)
(* keeps asking; nothing else is promised to happen.                       *)
FairSpec == Spec /\ \A h \in Pollers : WF_vars(HandlerStep(h))
-----------------------------------------------------------------------------
(***************************************************************************)
(* Properties                                                              *)
(***************************************************************************)
Labels == {"idle", "done", "launch", "saveLaunch", "stream", "artifact",
           "recoverList", "recoverSync", "recoverObserve", "compensateStop",
           "compensateClean", "failSave", "failWorkers", "failRun",
           "failArtifact", "failEvent", "dispatch", "publish",
           "markPublished", "markFailed", "stopRequest", "stopRuntime",
           "stopProgress", "stopCleanup", "stopFinal", "getSync",
           "getObserve", "ingestPublish", "ingestCount"}
Resource == {"absent", "running", "succeeded", "failed", "killed"}
Verdict  == {"ok", "uncertain", "confirmed"}
LocalRecord ==
  [plan : [Workers -> WorkerRecord], launched : SUBSET Workers,
   seen : [Workers -> ObservedState], todo : SUBSET Workers,
   due : SUBSET Topics, topic : Topics, stop : Verdict, clean : Verdict,
   lifecycle : Lifecycle, unlisted : BOOLEAN]

StoreTypeOK ==
  /\ created \in BOOLEAN /\ stale \in BOOLEAN
  /\ run \in RunRecord
  /\ worker \in [Workers -> WorkerRecord]
  /\ intent \in [Topics -> IntentState]
  /\ artifact \in {"none", "received", "failed"}

OutsideTypeOK ==
  /\ exec \in [Workers -> Resource]
  /\ log \in Seq(Topics \cup {"failed"})
  /\ telemetry \in [Workers -> Nat]

RequestTypeOK ==
  /\ pc \in [Handlers -> Labels]
  /\ local \in [Handlers -> LocalRecord]
  /\ reply \in [Handlers -> {"none", "ok", "error"}]

BoundsTypeOK == launches \in Nat /\ faults \in Nat /\ crashes \in Nat

(* Every stored record, container state, request and log entry has one of  *)
(* the values the Go types of simops_types.go and simops_state.go give it. *)
TypeOK == StoreTypeOK /\ OutsideTypeOK /\ RequestTypeOK /\ BoundsTypeOK

InFlight(h) == pc[h] \notin {"idle", "done"}
Starting    == \E h \in Creates : InFlight(h)
Occurs(t)   == \E i \in 1 .. Len(log) : log[i] = t

(* However many idempotent creates race, retry, crash and recover, the     *)
(* runtime is asked to launch the workers of the Run at most once: only    *)
(* the create whose insert won launches (Start), and recovery never does.  *)
SingleLaunch == launches <= 1

(* An intent marked published is in the event log: the dispatcher marks    *)
(* after it publishes, so a crash repeats a publication but never loses it.*)
PublishedWasDelivered ==
  \A t \in Topics : intent[t] = "published" => Occurs(t)

(* No Run reads streaming or stopped without the intent to publish that:   *)
(* the store records both in one call, so no crash or failed call between  *)
(* a transition and its publication can lose the publication.              *)
TransitionHasIntent ==
  run.lifecycle \in Topics => intent[run.lifecycle] # "none"

(* Once no start is in flight, a Run that reads stopped has no worker left *)
(* running, whatever raced the stop: a start the stop overtook either      *)
(* moves the Run on or takes its workers down.                             *)
NoWorkerOutlivesStop ==
  (run.lifecycle = "stopped" /\ ~Starting) =>
    \A w \in Workers : exec[w] # "running"

(* Likewise, the Run and each of its workers have a completed cleanup on   *)
(* record: no stop or read that was overtaken leaves another disposition.  *)
StoppedRecordsCleanup ==
  (run.lifecycle = "stopped" /\ ~Starting) =>
    /\ run.cleanup = "completed"
    /\ \A w \in Workers : worker[w].cleanup = "completed"

(* A failed start that recorded a worker as stopped has really removed it: *)
(* failedWorkerOutcomes writes stopped only for compensated workers, so a  *)
(* container that still runs is one the record calls failed.  A stop that  *)
(* overtakes the start of a Run may record the worker as stopped instead:  *)
(* with two creates that takes three faults, more than the run allows.     *)
CompensatedFailureIsClean ==
  (run.lifecycle = "failed" /\ ~Starting) =>
    \A w \in Workers : worker[w].lifecycle = "stopped" => exec[w] # "running"

(* The frame count of a worker is the telemetry published for it, less the *)
(* frames whose ingest has not counted them yet: no launch record, failure *)
(* outcome or observation that is saved late takes counted frames away.    *)
Counting(w) == {h \in Handlers : pc[h] = "ingestCount" /\ w \in local[h].todo}
FramesMatchTelemetry ==
  (faults = 0 /\ crashes = 0) =>
    \A w \in Workers :
      telemetry[w] = worker[w].frames + Cardinality(Counting(w))

(* A worker whose terminal outcome was observed keeps a terminal outcome,  *)
(* whatever observation, launch record or failure outcome is saved later   *)
(* (applyObservedWorkerLifecycle and the COALESCE of SaveLaunch).          *)
TerminalObservationKept ==
  [][\A w \in Workers :
       Terminal(worker[w].observed) => Terminal(worker'[w].observed)]_vars

(* No call of a stop repairs a worker that failed or reports the Run       *)
(* stopped over its failure: "cleanup cannot overwrite existing failure"   *)
(* (TestStopCleanupDoesNotReplaceExistingRunFailureWithStoppedPublication).*)
FailureSurvivesCleanup ==
  [][\A w \in Workers :
       /\ worker[w].condition = "failed"
       /\ \E h \in Stops : pc'[h] # pc[h]
       => worker'[w].condition = "failed"]_vars

(* Requests that start, stop, fail, read and dispatch, with crashes between*)
(* any of their calls, keep together what PublicationOutbox promises: an   *)
(* event says streaming or stopped only of a Run that was, and its intent  *)
(* is done only after it (UpdateRunLifecycleWithPublicationIntent,         *)
(* ApplyStopTransition, dispatchSimopsPublicationIntents).                 *)
Outbox == INSTANCE PublicationOutbox WITH
            Lifecycles <- Lifecycle, lifecycle <- run.lifecycle,
            Renewable <- IF Adapter = "memory" THEN {"stopped"} ELSE {},
            published <- {t \in Topics : Occurs(t)}
ImplementsOutbox == Outbox!Spec

(* Once a client knows the Run and keeps asking for it, every intent that  *)
(* was recorded is published, over failures of the log, of the store and   *)
(* crashes.                                                                *)
IntentsArePublished ==
  \A t \in Topics :
    (RunIDKnown /\ intent[t] \in {"pending", "failed"}) ~> intent[t] = "published"
=============================================================================
