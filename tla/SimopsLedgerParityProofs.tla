----------------------- MODULE SimopsLedgerParityProofs -----------------------
(***************************************************************************)
(* The two adapters of the SimOps control store hold the same facts, for   *)
(* every set of workers and any number of frames, as long as nothing the   *)
(* runtime reports or answers fails a worker.  Where it does, they forget  *)
(* a failure on different occasions.                                       *)
(***************************************************************************)
EXTENDS SimopsLedgerParity, TLAPS

(* No observation is of a failed worker, and no error of a stop or of a    *)
(* cleanup is confirmed.                                                   *)
NothingFails ==
  /\ Reported \cap {"failed", "image-pull-failed"} = {}
  /\ "confirmed" \notin Verdicts

(* A stored worker with its state, of which nothing has failed.            *)
Unfailed ==
  {w \in WorkerRecord : w.phase # "unset" /\ w.condition # "failed" /\ w.cleanup # "failed"}

LedgerRecord == [run : RunRecord, worker : [Workers -> Unfailed], stopped : {"none", "pending"}]
Types ==
  /\ ledger \in [Adapters -> LedgerRecord]
  /\ verdict \in {"ok", "uncertain"}

(* One list of workers, one v1 view of the Run.                            *)
Agreement ==
  /\ Memory.worker = Postgres.worker
  /\ Memory.run.lifecycle = Postgres.run.lifecycle
  /\ Memory.run.cleanup = Postgres.run.cleanup
  /\ Memory.stopped = Postgres.stopped

IInv == Types /\ Agreement

-------------------------------------------------------------------------------
(* The store operators on a worker of which nothing has failed.            *)

LEMMA UnfailedFields ==
  \A w : w \in Unfailed <=>
         w \in WorkerRecord /\ w.phase # "unset" /\ w.condition # "failed" /\ w.cleanup # "failed"
BY DEF Unfailed

(* The launched worker that either adapter keeps.                          *)
LEMMA LaunchSame ==
  LET planned == EnsureWorkerState(PlannedWorker)
  IN  /\ MergeLaunchMemory(planned, LaunchedWorker) \in Unfailed
      /\ MergeLaunchPostgres(planned, LaunchedWorker) = MergeLaunchMemory(planned, LaunchedWorker)
<1> DEFINE planned  == EnsureWorkerState(PlannedWorker)
           launched == [LaunchedWorker EXCEPT !.phase = "launching", !.launch = "launched"]
<1>0. PhaseOfWorker("starting") = "launching"
  BY DEF PhaseOfWorker
<1>1. planned.frames = 0 /\ planned.observed = "none" /\ ~planned.runtimeID
  BY DEF EnsureWorkerState, PlannedWorker
<1>2. MaterializeLaunch(LaunchedWorker) = launched
  <2> DEFINE ensured == [LaunchedWorker EXCEPT !.phase = "launching"]
  <2>1. EnsureWorkerState(LaunchedWorker) = ensured
    <3>1. /\ LaunchedWorker \in WorkerRecord /\ LaunchedWorker.phase = "unset"
          /\ LaunchedWorker.lifecycle = "starting" /\ LaunchedWorker.launch = "unattempted"
          /\ LaunchedWorker.active = "unobserved" /\ LaunchedWorker.condition = "nominal"
          /\ LaunchedWorker.cleanup = "not_requested"
      BY DEF LaunchedWorker, PlannedWorker, WorkerRecord, Lifecycle, WorkerPhase, Launch,
         Execution, Condition, Cleanup, ObservedState
    <3>2. EnsureWorkerState(LaunchedWorker) =
            [LaunchedWorker EXCEPT !.phase = "launching", !.launch = "unattempted",
               !.active = "unobserved", !.condition = "nominal", !.cleanup = "not_requested"]
      BY <1>0, <3>1 DEF EnsureWorkerState
    <3> QED
      BY <3>1, <3>2 DEF WorkerRecord
  <2>2. ensured.runtimeID /\ ensured.launch = "unattempted"
    BY DEF LaunchedWorker, PlannedWorker
  <2>3. [ensured EXCEPT !.launch = "launched", !.phase = "launching"] = launched
    BY DEF LaunchedWorker, PlannedWorker
  <2> HIDE DEF ensured, launched
  <2> QED
    BY <2>1, <2>2, <2>3 DEF MaterializeLaunch, ApplyLaunchOutcome
<1>3. launched \in Unfailed /\ launched.frames = 0 /\ launched.observed = "none" /\ launched.runtimeID
  BY DEF LaunchedWorker, PlannedWorker, Unfailed, WorkerRecord, Lifecycle, ObservedState,
     WorkerPhase, Launch, Execution, Condition, Cleanup
<1> HIDE DEF launched, planned
<1>4. MergeLaunchMemory(planned, LaunchedWorker) = launched
  BY <1>2 DEF MergeLaunchMemory
<1>5. MergeLaunchPostgres(planned, LaunchedWorker) = launched
  <2>1. [launched EXCEPT !.lifecycle = launched.lifecycle, !.frames = launched.frames,
                         !.observed = planned.observed, !.runtimeID = TRUE] = launched
    <3>1. launched \in WorkerRecord
      BY <1>3, UnfailedFields
    <3> QED
      BY <1>1, <1>3, <3>1 DEF WorkerRecord
  <2>2. MergeLaunchPostgres(planned, LaunchedWorker) =
          [launched EXCEPT !.lifecycle = launched.lifecycle, !.frames = launched.frames,
                           !.observed = planned.observed, !.runtimeID = TRUE]
    <3>1. ~(planned.frames > launched.frames) /\ launched.observed = "none"
          /\ (launched.runtimeID \/ planned.runtimeID) = TRUE
      BY <1>1, <1>3
    <3> QED
      BY <1>2, <3>1 DEF MergeLaunchPostgres
  <2> QED
    BY <2>1, <2>2
<1> QED
  BY <1>3, <1>4, <1>5 DEF planned

(* An observation of anything but a failure fails no worker.               *)
LEMMA ObserveUnfailed ==
  ASSUME NEW w \in Unfailed, NEW hasRuntimeID \in BOOLEAN,
         NEW observed \in ObservedState \ {"failed", "image-pull-failed"}
  PROVE  ObserveWorker(w, observed, hasRuntimeID) \in Unfailed
<1> DEFINE seen == ApplyObserved(w, observed, hasRuntimeID)
<1>1. /\ seen \in WorkerRecord /\ seen.phase # "unset"
      /\ seen.condition # "failed" /\ seen.cleanup # "failed"
  <2>1. /\ w \in WorkerRecord /\ w.phase # "unset"
        /\ w.condition # "failed" /\ w.cleanup # "failed"
    BY UnfailedFields
  <2>2. [w EXCEPT !.observed = observed, !.runtimeID = hasRuntimeID] \in WorkerRecord
    BY <2>1 DEF WorkerRecord
  <2> QED
    BY <2>1, <2>2 DEF ApplyObserved, WorkerRecord
<1>2. EnsureWorkerState(seen) = seen
  BY <1>1 DEF EnsureWorkerState
<1> HIDE DEF seen
<1>3. ApplyRuntimeObservation(seen, observed) \in Unfailed
  <2>1. Degrade(seen.condition) \in Condition \ {"failed"}
    BY <1>1 DEF Degrade, WorkerRecord, Condition
  <2>2. /\ \A c \in Condition \ {"failed"} : [seen EXCEPT !.condition = c] \in Unfailed
        /\ [seen EXCEPT !.active = "active", !.launch = "launched", !.phase = "executing"] \in Unfailed
        /\ \A p \in WorkerPhase : [seen EXCEPT !.active = "terminal", !.phase = p] \in Unfailed
        /\ [seen EXCEPT !.active = "absent"] \in Unfailed
    <3>1. \A c \in Condition \ {"failed"} : [seen EXCEPT !.condition = c] \in Unfailed
      BY <1>1, UnfailedFields DEF WorkerRecord
    <3>2. [seen EXCEPT !.active = "active", !.launch = "launched", !.phase = "executing"] \in Unfailed
      BY <1>1, UnfailedFields DEF WorkerRecord, WorkerPhase, Execution, Launch
    <3>3. \A p \in WorkerPhase : [seen EXCEPT !.active = "terminal", !.phase = p] \in Unfailed
      BY <1>1, UnfailedFields DEF WorkerRecord, WorkerPhase, Execution
    <3>4. [seen EXCEPT !.active = "absent"] \in Unfailed
      BY <1>1, UnfailedFields DEF WorkerRecord, Execution
    <3> QED
      BY <3>1, <3>2, <3>3, <3>4
  <2>3. {"completed", "stopped"} \subseteq WorkerPhase
    BY DEF WorkerPhase
  <2> QED
    BY <1>1, <2>1, <2>2, <2>3, UnfailedFields DEF ApplyRuntimeObservation, Terminal, ObservedState
<1> QED
  BY <1>2, <1>3 DEF ObserveWorker, seen

LEMMA CountUnfailed ==
  ASSUME NEW w \in Unfailed
  PROVE  CountFrameOf(w) \in Unfailed
<1>1. /\ w \in WorkerRecord /\ w.phase # "unset"
      /\ w.condition # "failed" /\ w.cleanup # "failed"
  BY UnfailedFields
<1>2. /\ CountFrameOf(w) \in WorkerRecord /\ CountFrameOf(w).phase = w.phase
      /\ CountFrameOf(w).condition = w.condition /\ CountFrameOf(w).cleanup = w.cleanup
  <2>1. w.frames + 1 \in Nat /\ "streaming" \in Lifecycle
    BY <1>1 DEF WorkerRecord, Lifecycle
  <2>2. CountFrameOf(w) = [w EXCEPT !.frames = w.frames + 1, !.lifecycle = "streaming"]
    BY DEF CountFrameOf
  <2> QED
    BY <1>1, <2>1, <2>2 DEF WorkerRecord
<1> QED
  BY <1>1, <1>2, UnfailedFields

(* A transition in which no failure is confirmed.                          *)
Unconfirmed ==
  {t \in StopTransition : t.cleanup # "failed" /\ ~t.stopConfirmed /\ ~t.cleanupConfirmed}

(* Both adapters write the same worker.                                    *)
LEMMA StopSame ==
  ASSUME NEW w \in Unfailed, NEW t \in Unconfirmed
  PROVE  /\ StopWorkerPostgres(w, t) = StopWorkerMemory(w, t)
         /\ StopWorkerPostgres(w, t) \in Unfailed
         /\ Settles(t) => StopWorkerPostgres(w, t).phase = "stopped"
<1>1. /\ w \in WorkerRecord /\ w.phase # "unset" /\ w.condition \in {"nominal", "degraded"}
      /\ t.cleanup \in Cleanup \ {"failed"} /\ t.stopFailure \in BOOLEAN
      /\ ~t.stopConfirmed /\ ~t.cleanupConfirmed
  BY DEF Unfailed, WorkerRecord, Condition, Unconfirmed, StopTransition
<1>2. EnsureWorkerState(w) = w
  BY <1>1 DEF EnsureWorkerState
<1> DEFINE judgement == IF t.stopFailure \/ t.cleanup = "incomplete" THEN "degraded" ELSE w.condition
           judged    == [w EXCEPT !.cleanup = t.cleanup, !.condition = judgement]
<1>3. judgement \in {"nominal", "degraded"} /\ judged \in Unfailed
  <2>1. judgement \in {"nominal", "degraded"} /\ judgement \in Condition
    BY <1>1 DEF Condition
  <2> HIDE DEF judgement
  <2>2. judged \in WorkerRecord /\ judged.phase = w.phase
        /\ judged.condition = judgement /\ judged.cleanup = t.cleanup
    BY <1>1, <2>1 DEF WorkerRecord
  <2> HIDE DEF judged
  <2> QED
    BY <1>1, <2>1, <2>2, UnfailedFields
<1>4. Settles(t) => judgement = w.condition
  BY DEF Settles
<1>5. StopWorkerMemory(w, t) = IF Settles(t)
        THEN [judged EXCEPT !.phase = "stopped", !.active = "terminal", !.lifecycle = "stopped"]
        ELSE judged
  <2>1. ApplyCleanupOutcome(w, t.cleanup) =
          [w EXCEPT !.cleanup = t.cleanup,
                    !.condition = IF t.cleanup = "incomplete" THEN "degraded" ELSE w.condition]
    BY <1>1 DEF ApplyCleanupOutcome, Degrade
  <2>2. (IF ~t.stopFailure THEN ApplyCleanupOutcome(w, t.cleanup)
         ELSE [ApplyCleanupOutcome(w, t.cleanup) EXCEPT
                 !.condition = IF t.stopConfirmed THEN "failed"
                               ELSE Degrade(ApplyCleanupOutcome(w, t.cleanup).condition)]) = judged
    <3>1. CASE ~t.stopFailure
      BY <2>1, <3>1
    <3>2. CASE t.stopFailure
      <4>1. ApplyCleanupOutcome(w, t.cleanup).condition \in {"nominal", "degraded"}
        BY <1>1, <2>1 DEF WorkerRecord
      <4>2. Degrade(ApplyCleanupOutcome(w, t.cleanup).condition) = "degraded"
        BY <4>1 DEF Degrade
      <4> QED
        BY <1>1, <2>1, <3>2, <4>2 DEF WorkerRecord
    <3> QED
      BY <3>1, <3>2
  <2>3. judged.condition # "failed"
    BY <1>3 DEF Unfailed
  <2> HIDE DEF judged
  <2> QED
    BY <1>2, <2>2, <2>3 DEF StopWorkerMemory, ProjectWorkerLifecycle
<1>6. StopWorkerPostgres(w, t) = StopWorkerMemory(w, t)
  <2>1. CASE Settles(t)
    BY <1>1, <1>4, <1>5, <2>1 DEF StopWorkerPostgres, Settles, WorkerRecord
  <2>2. CASE ~Settles(t)
    <3>1. StopWorkerPostgres(w, t) =
            [w EXCEPT !.cleanup = t.cleanup, !.condition = judgement, !.phase = w.phase,
                      !.active = w.active, !.lifecycle = w.lifecycle]
      BY <1>1, <2>2 DEF StopWorkerPostgres
    <3>2. [w EXCEPT !.cleanup = t.cleanup, !.condition = judgement, !.phase = w.phase,
                    !.active = w.active, !.lifecycle = w.lifecycle] = judged
      <4> HIDE DEF judgement
      <4> QED
        BY <1>1 DEF WorkerRecord
    <3> QED
      BY <1>5, <2>2, <3>1, <3>2
  <2> QED
    BY <2>1, <2>2
<1>7. StopWorkerMemory(w, t) \in Unfailed
  <2> HIDE DEF judged
  <2>1. judged \in WorkerRecord /\ judged.condition # "failed" /\ judged.cleanup # "failed"
    BY <1>3, UnfailedFields
  <2>2. [judged EXCEPT !.phase = "stopped", !.active = "terminal", !.lifecycle = "stopped"] \in Unfailed
    BY <2>1, UnfailedFields DEF WorkerRecord, Lifecycle, WorkerPhase, Execution
  <2> QED
    BY <1>3, <1>5, <2>2
<1>8. Settles(t) => StopWorkerMemory(w, t).phase = "stopped"
  <2> HIDE DEF judged
  <2> QED
    BY <1>3, <1>5 DEF Unfailed, WorkerRecord
<1> QED
  BY <1>6, <1>7, <1>8

(* The aggregate of an observation leaves the v1 view alone.               *)
LEMMA ObserveRunSame ==
  ASSUME NEW adapter \in Adapters, NEW run \in RunRecord, NEW worker
  PROVE  /\ ObserveRunIn(adapter, run, worker) \in RunRecord
         /\ ObserveRunIn(adapter, run, worker).lifecycle = run.lifecycle
         /\ ObserveRunIn(adapter, run, worker).cleanup = run.cleanup
<1>1. \A p \in RunPhase, c \in Condition :
        LET new == [run EXCEPT !.phase = p, !.condition = c]
            old == [run EXCEPT !.condition = c, !.phase = p]
        IN  /\ new \in RunRecord /\ new.lifecycle = run.lifecycle /\ new.cleanup = run.cleanup
            /\ old \in RunRecord /\ old.lifecycle = run.lifecycle /\ old.cleanup = run.cleanup
  BY DEF RunRecord
<1>2. \E p \in RunPhase, c \in Condition :
        DeriveRunState(run, worker) = [run EXCEPT !.phase = p, !.condition = c]
  BY DEF DeriveRunState, RunPhase, Condition
<1>3. \E p \in RunPhase, c \in Condition :
        AggregatePostgres(run, worker) = [run EXCEPT !.condition = c, !.phase = p]
  BY DEF AggregatePostgres, RunPhase, Condition
<1>4. ASSUME NEW r, r \in {DeriveRunState(run, worker), AggregatePostgres(run, worker)}
      PROVE  r \in RunRecord /\ r.lifecycle = run.lifecycle /\ r.cleanup = run.cleanup
  <2>1. CASE r = DeriveRunState(run, worker)
    <3>1. PICK p \in RunPhase, c \in Condition : r = [run EXCEPT !.phase = p, !.condition = c]
      BY <1>2, <2>1
    <3> QED
      BY <1>1, <3>1
  <2>2. CASE r = AggregatePostgres(run, worker)
    <3>1. PICK p \in RunPhase, c \in Condition : r = [run EXCEPT !.condition = c, !.phase = p]
      BY <1>3, <2>2
    <3> QED
      BY <1>1, <3>1
  <2> QED
    BY <1>4, <2>1, <2>2
<1> QED
  BY <1>4 DEF ObserveRunIn

(* A stop that settles leaves both Runs stopped, any other both degraded.  *)
LEMMA StopRunSame ==
  ASSUME NEW adapter \in Adapters, NEW run \in RunRecord, NEW t \in Unconfirmed, Workers # {},
         NEW worker \in [Workers -> Unfailed], Settles(t) => \A w \in Workers : worker[w].phase = "stopped"
  PROVE  /\ StopRunIn(adapter, run, worker, t) \in RunRecord
         /\ StopRunIn(adapter, run, worker, t).cleanup = t.cleanup
         /\ StopRunIn(adapter, run, worker, t).lifecycle = IF Settles(t) THEN "stopped" ELSE "degraded"
         /\ StopRunIn(adapter, run, worker, t).phase = IF Settles(t) THEN "stopped" ELSE "stopping"
<1>1. t.cleanup \in Cleanup
  BY DEF Unconfirmed, StopTransition
<1>2. \A w \in Workers : worker[w].condition # "failed" /\ worker[w].cleanup # "failed"
  BY DEF Unfailed
<1>3. CASE adapter = "memory"
  <2> DEFINE stopping == [run EXCEPT !.cleanup = t.cleanup]
  <2>1. stopping \in RunRecord /\ stopping.cleanup = t.cleanup
    BY <1>1 DEF RunRecord
  <2> HIDE DEF stopping
  <2>2. CASE Settles(t)
    <3>1. \E c \in Condition :
            DeriveRunState(stopping, worker) = [stopping EXCEPT !.phase = "stopped", !.condition = c]
      BY <1>2, <2>2 DEF DeriveRunState, Condition
    <3>2. StopRunIn(adapter, run, worker, t) =
            [DeriveRunState(stopping, worker) EXCEPT
               !.lifecycle = ProjectRunLifecycle(DeriveRunState(stopping, worker).phase)]
      BY <1>3, <2>2 DEF StopRunIn, StopRunMemory, stopping
    <3>3. ProjectRunLifecycle("stopped") = "stopped"
      BY DEF ProjectRunLifecycle
    <3> QED
      <4>1. PICK c \in Condition :
              DeriveRunState(stopping, worker) = [stopping EXCEPT !.phase = "stopped", !.condition = c]
        BY <3>1
      <4>2. /\ [stopping EXCEPT !.phase = "stopped", !.condition = c] \in RunRecord
            /\ [stopping EXCEPT !.phase = "stopped", !.condition = c].phase = "stopped"
            /\ [stopping EXCEPT !.phase = "stopped", !.condition = c].cleanup = t.cleanup
        BY <2>1 DEF RunRecord, RunPhase
      <4> DEFINE after == DeriveRunState(stopping, worker)
      <4>3. after \in RunRecord /\ after.phase = "stopped" /\ after.cleanup = t.cleanup
        BY <4>1, <4>2
      <4>4. StopRunIn(adapter, run, worker, t) = [after EXCEPT !.lifecycle = "stopped"]
        BY <3>2, <3>3, <4>3
      <4> HIDE DEF after
      <4> QED
        BY <2>2, <4>3, <4>4 DEF RunRecord, Lifecycle
  <2>3. CASE ~Settles(t)
    <3>1. \E c \in Condition : StopRunIn(adapter, run, worker, t) =
            [[stopping EXCEPT !.phase = "stopping", !.condition = c] EXCEPT !.lifecycle = "degraded"]
      <4> DEFINE c == IF run.condition = "failed" THEN "failed" ELSE "degraded"
                 state == [stopping EXCEPT !.phase = "stopping", !.condition = c]
      <4>1. c \in Condition /\ state.phase = "stopping"
        BY <2>1 DEF Condition, RunRecord
      <4>2. ProjectRunLifecycle("stopping") = "degraded"
        BY DEF ProjectRunLifecycle
      <4>3. StopRunIn(adapter, run, worker, t) = [state EXCEPT !.lifecycle = ProjectRunLifecycle(state.phase)]
        BY <1>3, <2>3 DEF StopRunIn, StopRunMemory, stopping
      <4> QED
        BY <4>1, <4>2, <4>3
    <3> QED
      BY <2>1, <2>3, <3>1 DEF RunRecord, RunPhase, Condition, Lifecycle
  <2> QED
    BY <2>2, <2>3
<1>4. CASE adapter = "postgres"
  <2>1. \E c \in Condition : StopRunIn(adapter, run, worker, t) =
          [phase |-> IF Settles(t) THEN "stopped" ELSE "stopping",
           lifecycle |-> IF Settles(t) THEN "stopped" ELSE "degraded",
           cleanup |-> t.cleanup, condition |-> c]
    BY <1>2, <1>4 DEF StopRunIn, StopRunPostgres, ProjectRunLifecycle, Condition
  <2> QED
    BY <1>1, <2>1 DEF RunRecord, RunPhase, Condition, Lifecycle
<1> QED
  BY <1>3, <1>4 DEF Adapters

-------------------------------------------------------------------------------
(* Every call leaves the ledgers in agreement.                             *)

LEMMA InitHolds == Init => IInv
<1> SUFFICES ASSUME Init PROVE IInv
  OBVIOUS
<1> DEFINE admitted == [lifecycle |-> "starting", phase |-> "admitted",
                        condition |-> "nominal", cleanup |-> "not_requested"]
           planned  == EnsureWorkerState(PlannedWorker)
<1>1. \A a \in Adapters : ledger[a] = Launched(a) /\ ledger = [b \in Adapters |-> Launched(b)]
  BY DEF Init
<1>2. \A a \in Adapters :
        /\ SetRunLifecycleIn(a, admitted, "streaming") \in RunRecord
        /\ SetRunLifecycleIn(a, admitted, "streaming").lifecycle = "streaming"
        /\ SetRunLifecycleIn(a, admitted, "streaming").cleanup = "not_requested"
  <2>1. PhaseOfRun("streaming") = "running"
    BY DEF PhaseOfRun
  <2> QED
    BY <2>1 DEF SetRunLifecycleIn, SetRunLifecycleMemory, SetRunLifecyclePostgres, RunRecord,
       Lifecycle, RunPhase, Condition, Cleanup
<1> DEFINE launched == [w \in Workers |-> MergeLaunchMemory(planned, LaunchedWorker)]
<1>3. \A a \in Adapters : SaveLaunchIn(a, [w \in Workers |-> planned], [w \in Workers |-> LaunchedWorker])
                          = launched
  BY LaunchSame DEF SaveLaunchIn
<1>4. launched \in [Workers -> Unfailed]
  BY LaunchSame
<1> HIDE DEF launched
<1>5. \A a \in Adapters : Launched(a) = [run |-> SetRunLifecycleIn(a, admitted, "streaming"),
                                         worker |-> launched, stopped |-> "none"]
  BY <1>3 DEF Launched
<1> HIDE DEF admitted
<1>6. Types
  BY <1>1, <1>2, <1>4, <1>5 DEF Types, Init, LedgerRecord
<1>7. Agreement
  BY <1>1, <1>2, <1>5 DEF Agreement, Memory, Postgres, Adapters
<1> QED
  BY <1>6, <1>7 DEF IInv

(* A step that gives each adapter its record, and the same facts to both.  *)
LEMMA Written ==
  ASSUME ledger' \in [Adapters -> LedgerRecord],
         verdict' \in {"ok", "uncertain"},
         ledger'["memory"].worker = ledger'["postgres"].worker,
         ledger'["memory"].run.lifecycle = ledger'["postgres"].run.lifecycle,
         ledger'["memory"].run.cleanup = ledger'["postgres"].run.cleanup,
         ledger'["memory"].stopped = ledger'["postgres"].stopped
  PROVE  IInv'
BY DEF IInv, Types, Agreement, Memory, Postgres

LEMMA LedgerFields ==
  ASSUME IInv
  PROVE  /\ "memory" \in Adapters /\ "postgres" \in Adapters
         /\ ledger \in [Adapters -> LedgerRecord]
         /\ \A a \in Adapters : /\ ledger[a] \in LedgerRecord /\ ledger[a].run \in RunRecord
                                /\ ledger[a].worker \in [Workers -> Unfailed]
                                /\ ledger[a].stopped \in {"none", "pending"}
                                /\ ledger[a].worker = ledger["memory"].worker
                                /\ ledger[a].run.lifecycle = ledger["memory"].run.lifecycle
                                /\ ledger[a].run.cleanup = ledger["memory"].run.cleanup
                                /\ ledger[a].stopped = ledger["memory"].stopped
         /\ verdict \in {"ok", "uncertain"}
BY DEF IInv, Types, Agreement, Memory, Postgres, Adapters, LedgerRecord

LEMMA ObserveHolds ==
  ASSUME NothingFails, IInv, NEW w \in Workers, ObserveBoth(w)
  PROVE  IInv'
<1>1. PICK observed \in Reported : ledger' = [a \in Adapters |-> ObserveIn(a, w, observed)]
  BY DEF ObserveBoth
<1>2. observed \in ObservedState \ {"failed", "image-pull-failed"} /\ (observed # "missing") \in BOOLEAN
  BY ParityAssumption DEF NothingFails
<1> DEFINE seen == [ledger["memory"].worker EXCEPT ![w] = ObserveWorker(@, observed, observed # "missing")]
<1>3. seen \in [Workers -> Unfailed]
  BY <1>2, LedgerFields, ObserveUnfailed
<1>4. \A a \in Adapters :
        ObserveIn(a, w, observed) = [ledger[a] EXCEPT !.worker = seen,
                                                      !.run = ObserveRunIn(a, ledger[a].run, seen)]
  BY LedgerFields DEF ObserveIn
<1> HIDE DEF seen
<1>5. \A a \in Adapters :
        /\ ObserveRunIn(a, ledger[a].run, seen) \in RunRecord
        /\ ObserveRunIn(a, ledger[a].run, seen).lifecycle = ledger[a].run.lifecycle
        /\ ObserveRunIn(a, ledger[a].run, seen).cleanup = ledger[a].run.cleanup
  BY LedgerFields, ObserveRunSame
<1>6. \A a \in Adapters :
        /\ ledger'[a] \in LedgerRecord
        /\ ledger'[a].worker = seen /\ ledger'[a].stopped = ledger[a].stopped
        /\ ledger'[a].run = ObserveRunIn(a, ledger[a].run, seen)
  <2> SUFFICES ASSUME NEW a \in Adapters
      PROVE  /\ ledger'[a] \in LedgerRecord
             /\ ledger'[a].worker = seen /\ ledger'[a].stopped = ledger[a].stopped
             /\ ledger'[a].run = ObserveRunIn(a, ledger[a].run, seen)
    BY DEF LedgerRecord
  <2>1. ledger[a] \in LedgerRecord /\ ObserveRunIn(a, ledger[a].run, seen) \in RunRecord
    BY <1>5, LedgerFields
  <2>2. ledger'[a] = [ledger[a] EXCEPT !.worker = seen, !.run = ObserveRunIn(a, ledger[a].run, seen)]
    BY <1>1, <1>4
  <2> QED
    BY <1>3, <2>1, <2>2 DEF LedgerRecord
<1>7. ledger' \in [Adapters -> LedgerRecord]
  BY <1>1, <1>6
<1> QED
  BY <1>5, <1>6, <1>7, LedgerFields, Written DEF ObserveBoth

LEMMA CountHolds ==
  ASSUME IInv, NEW w \in Workers, CountFrame(w)
  PROVE  IInv'
<1>1. ledger' = [a \in Adapters |-> [ledger[a] EXCEPT !.worker[w] = CountFrameOf(@)]]
  BY DEF CountFrame
<1> DEFINE counted == [ledger["memory"].worker EXCEPT ![w] = CountFrameOf(@)]
<1>2. counted \in [Workers -> Unfailed]
  BY LedgerFields, CountUnfailed
<1>3. \A a \in Adapters : ledger'[a] = [ledger[a] EXCEPT !.worker = counted]
  BY <1>1, LedgerFields
<1> HIDE DEF counted
<1>4. \A a \in Adapters :
        /\ ledger'[a] \in LedgerRecord
        /\ ledger'[a].worker = counted /\ ledger'[a].stopped = ledger[a].stopped
        /\ ledger'[a].run = ledger[a].run
  <2> SUFFICES ASSUME NEW a \in Adapters
      PROVE  /\ ledger'[a] \in LedgerRecord
             /\ ledger'[a].worker = counted /\ ledger'[a].stopped = ledger[a].stopped
             /\ ledger'[a].run = ledger[a].run
    BY DEF LedgerRecord
  <2>1. ledger[a] \in LedgerRecord
    BY LedgerFields
  <2> QED
    BY <1>2, <1>3, <2>1 DEF LedgerRecord
<1>5. ledger' \in [Adapters -> LedgerRecord]
  BY <1>1, <1>4
<1>6. ledger'["memory"].worker = ledger'["postgres"].worker
  BY <1>4, LedgerFields
<1>7. /\ ledger'["memory"].run = ledger["memory"].run
      /\ ledger'["postgres"].run = ledger["postgres"].run
      /\ ledger'["memory"].stopped = ledger'["postgres"].stopped
  BY <1>4, LedgerFields
<1>8. verdict' \in {"ok", "uncertain"}
  BY LedgerFields DEF CountFrame
<1> QED
  BY <1>5, <1>6, <1>7, <1>8, LedgerFields, Written

(* The transition of a stop, whatever the runtime answered.                *)
LEMMA ApplyHolds ==
  ASSUME IInv, NEW t \in Unconfirmed, ApplyBoth(t), verdict' \in {"ok", "uncertain"}
  PROVE  IInv'
<1> DEFINE stopped == [w \in Workers |-> StopWorkerMemory(ledger["memory"].worker[w], t)]
<1>1. stopped \in [Workers -> Unfailed] /\ (Settles(t) => \A w \in Workers : stopped[w].phase = "stopped")
  BY LedgerFields, StopSame
<1>2. \A a \in Adapters : StopWorkersIn(a, ledger[a].worker, t) = stopped
  BY LedgerFields, StopSame DEF StopWorkersIn
<1> HIDE DEF stopped
<1> DEFINE Left(a) == StopRunIn(a, ledger[a].run, stopped, t)
<1>3. \A a \in Adapters :
        /\ Left(a) \in RunRecord /\ Left(a).cleanup = t.cleanup
        /\ Left(a).lifecycle = IF Settles(t) THEN "stopped" ELSE "degraded"
        /\ Left(a).phase = IF Settles(t) THEN "stopped" ELSE "stopping"
  <2> SUFFICES ASSUME NEW a \in Adapters
      PROVE  /\ Left(a) \in RunRecord /\ Left(a).cleanup = t.cleanup
             /\ Left(a).lifecycle = IF Settles(t) THEN "stopped" ELSE "degraded"
             /\ Left(a).phase = IF Settles(t) THEN "stopped" ELSE "stopping"
    OBVIOUS
  <2>1. ledger[a].run \in RunRecord
    BY LedgerFields
  <2> QED
    BY <1>1, <2>1, StopRunSame, ParityAssumption
<1> DEFINE said == IF Settles(t) THEN "pending" ELSE ledger["memory"].stopped
<1> HIDE DEF Left
<1>4. \A a \in Adapters : ledger'[a] = [run |-> Left(a), worker |-> stopped, stopped |-> said]
  <2> SUFFICES ASSUME NEW a \in Adapters
               PROVE  ledger'[a] = [run |-> Left(a), worker |-> stopped, stopped |-> said]
    OBVIOUS
  <2>1. ledger'[a] = [run |-> Left(a), worker |-> stopped,
                      stopped |-> IF Left(a).phase = "stopped"
                                  THEN RecordIntentIn(a, ledger[a].stopped, TRUE)
                                  ELSE ledger[a].stopped]
    BY <1>2 DEF ApplyBoth, ApplyStopIn, Left
  <2>2. RecordIntentIn(a, ledger[a].stopped, TRUE) = "pending"
    BY LedgerFields DEF RecordIntentIn
  <2> QED
    BY <1>3, <2>1, <2>2, LedgerFields
<1>5. said \in {"none", "pending"}
  BY LedgerFields
<1> HIDE DEF said
<1>6. ledger' = [a \in Adapters |-> ledger'[a]]
  BY DEF ApplyBoth
<1>7. ledger' \in [Adapters -> LedgerRecord]
  BY <1>1, <1>3, <1>4, <1>5, <1>6 DEF LedgerRecord
<1> QED
  BY <1>3, <1>4, <1>7, LedgerFields, Written

LEMMA StopHolds ==
  ASSUME NothingFails, IInv, StopRequested \/ StopInProgress \/ CleanupRecorded
  PROVE  IInv'
<1>1. Verdicts \subseteq {"ok", "uncertain"} /\ verdict \in {"ok", "uncertain"}
  BY ParityAssumption, LedgerFields DEF NothingFails
<1>2. \A c \in Cleanup \ {"failed"}, s, k \in {"ok", "uncertain"} : StopFact(c, s, k) \in Unconfirmed
  BY DEF StopFact, Unconfirmed, StopTransition
<1>3. CASE StopRequested
  BY <1>1, <1>2, <1>3, ApplyHolds DEF StopRequested, Cleanup
<1>4. CASE StopInProgress
  BY <1>1, <1>2, <1>4, ApplyHolds DEF StopInProgress, Cleanup
<1>5. CASE CleanupRecorded
  <2>1. PICK v \in {"ok", "uncertain"} :
          ApplyBoth(StopFact(IF v = "ok" THEN "completed" ELSE "incomplete", verdict, v))
    BY <1>1, <1>5 DEF CleanupRecorded
  <2>2. verdict' = "ok"
    BY <1>5 DEF CleanupRecorded
  <2>3. StopFact(IF v = "ok" THEN "completed" ELSE "incomplete", verdict, v) \in Unconfirmed
    BY <1>1, <1>2 DEF Cleanup
  <2> QED
    BY <2>1, <2>2, <2>3, ApplyHolds
<1> QED
  BY <1>3, <1>4, <1>5

(* While nothing fails, the adapters agree.                                *)
LEMMA InvariantHolds ==
  ASSUME NothingFails
  PROVE  Spec => []IInv
<1>1. IInv /\ [Next]_vars => IInv'
  <2> SUFFICES ASSUME IInv, [Next]_vars PROVE IInv'
    OBVIOUS
  <2>1. CASE UNCHANGED vars
    BY <2>1 DEF vars, IInv, Types, Agreement, Memory, Postgres
  <2> QED
    BY <2>1, ObserveHolds, CountHolds, StopHolds DEF Next
<1> QED
  BY <1>1, InitHolds, PTL DEF Spec

-------------------------------------------------------------------------------
(* The theorems.                                                           *)

(* The v1 view of the Run is the same on either adapter, while the runtime *)
(* reports no failed worker and confirms no failure of a stop or a cleanup *)
(* (UpdateWorkerObservedLifecycle, UpdateWorkerFrames,                     *)
(* ApplyStopTransition of both stores).                                    *)
THEOREM AdaptersShowTheSame ==
  ASSUME NothingFails
  PROVE  Spec => []SameView
<1>1. IInv => SameView
  BY DEF IInv, Agreement, SameView
<1> QED
  BY <1>1, InvariantHolds, PTL

(* So are the execution facts of every worker (applyWorkerRuntimeObservation *)
(* in Go and the CASE expressions of the UPDATE in SQL) ...                *)
THEOREM AdaptersHoldTheSameFacts ==
  ASSUME NothingFails
  PROVE  Spec => []SameWorkerFacts
<1>1. IInv => SameWorkerFacts
  BY DEF IInv, Agreement, SameWorkerFacts
<1> QED
  BY <1>1, InvariantHolds, PTL

(* ... and the condition each is judged to be in, over stops and cleanups  *)
(* that end uncertain (applyWorkerCleanupOutcome).                         *)
THEOREM AdaptersJudgeAlike ==
  ASSUME NothingFails
  PROVE  Spec => []SameCondition
<1>1. IInv => SameCondition
  BY DEF IInv, Agreement, SameCondition
<1> QED
  BY <1>1, InvariantHolds, PTL
===============================================================================
