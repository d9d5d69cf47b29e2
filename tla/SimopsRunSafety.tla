---------------------------- MODULE SimopsRunSafety ----------------------------
(***************************************************************************)
(* Safety of the control plane of one Run, proved for every set of workers *)
(* and of requests, and any bound on faults and crashes.  In this order:   *)
(* what holds of either store and any number of creates; what cleanup      *)
(* keeps in the store in memory; what a stop and a failed start record, in *)
(* either store; the frame counts and the terminal        *)
(* outcomes in the Postgres store; and that the Run implements             *)
(* PublicationOutbox.                                                      *)
(***************************************************************************)
EXTENDS SimopsRunProofs, FiniteSetTheorems

-----------------------------------------------------------------------------
(* Who may change what: the steps of a handler by the state they touch.    *)

(* Only the create call makes a Run or has its workers launched.           *)
LEMMA OnlyCreateLaunches ==
  ASSUME [Next]_vars, ~ \E h \in Handlers : CreateRun(h)
  PROVE  UNCHANGED <<created, launches>>
<1>1. ASSUME NEW h \in Handlers, HandlerStep(h)
      PROVE  UNCHANGED <<created, launches>>
  <2>1. CASE CreateStep(h)
    BY <2>1 DEF CreateStep, LaunchWorker, SaveLaunch, SetStreaming,
                SaveArtifact, store
  <2>2. CASE RecoverStep(h)
    BY <2>2 DEF RecoverStep, RecoverList, RecoverSync, RecoverObserve, store,
                bounds
  <2>3. CASE FailStep(h)
    BY <2>3 DEF FailStep, CompensateStop, CompensateClean, FailSaveLaunch,
                FailWorker, FailRun, FailArtifact, FailEvent, store
  <2>4. CASE DispatchStep(h)
    BY <2>4 DEF DispatchStep, ListIntents, Publish, MarkPublished, MarkFailed,
                Mark, store
  <2>5. CASE RunStopStep(h)
    BY <2>5 DEF RunStopStep, StopRead, StopRequest, StopRuntime, StopProgress,
                StopCleanup, StopFinal, StopStep, store, bounds
  <2>6. CASE GetStep(h)
    BY <2>6 DEF GetStep, GetRead, GetSync, GetObserve, ListEvents, store,
                bounds
  <2>7. CASE IngestStep(h)
    BY <2>7 DEF IngestStep, IngestRead, IngestPublish, IngestCount, store,
                bounds
  <2>8. QED
    BY <1>1, <2>1, <2>2, <2>3, <2>4, <2>5, <2>6, <2>7 DEF HandlerStep
<1>2. CASE (\E w \in Workers : WorkerExit(w)) \/ MinutePasses \/ Crash
  BY <1>2 DEF WorkerExit, MinutePasses, Crash, store, bounds
<1>3. CASE UNCHANGED vars
  BY <1>3 DEF vars, store, bounds
<1>4. QED
  BY <1>1, <1>2, <1>3 DEF Next

(* The inductive form of SingleLaunch: the launch is the create's insert.  *)
LaunchedOnce == launches = IF created THEN 1 ELSE 0

(* However many idempotent creates race, retry and recover, the workers of *)
(* the Run are launched at most once (SimopsRunLifecyclePolicy.Start).     *)
THEOREM LaunchedAtMostOnce == Spec => []SingleLaunch
<1>1. Init => LaunchedOnce
  BY DEF Init, LaunchedOnce
<1>2. LaunchedOnce /\ [Next]_vars => LaunchedOnce'
  <2> SUFFICES ASSUME LaunchedOnce, [Next]_vars PROVE LaunchedOnce'
    OBVIOUS
  <2>1. CASE \E h \in Handlers : CreateRun(h)
    BY <2>1 DEF LaunchedOnce, CreateRun, InsertRun, RetryStaleRun, ReplayRun
  <2>2. CASE ~ \E h \in Handlers : CreateRun(h)
    BY <2>2, OnlyCreateLaunches DEF LaunchedOnce
  <2>3. QED
    BY <2>1, <2>2
<1>3. LaunchedOnce => SingleLaunch
  BY DEF LaunchedOnce, SingleLaunch
<1>4. QED
  BY <1>1, <1>2, <1>3, PTL DEF Spec
-----------------------------------------------------------------------------
(* An event that is in the log stays there.                                *)
LEMMA LogGrows ==
  ASSUME TypeOK, [Next]_vars, NEW t \in Topics, Occurs(t)
  PROVE  Occurs(t)'
<1>1. log' = log \/ \E e \in Topics \cup {"failed"} : log' = Append(log, e)
  <2>1. ASSUME NEW h \in Handlers, HandlerStep(h)
        PROVE  log' = log \/ \E e \in Topics \cup {"failed"} : log' = Append(log, e)
    <3>1. CASE CreateStep(h)
      BY <3>1 DEF CreateStep, CreateRun, LaunchWorker, SaveLaunch, SetStreaming,
                  SaveArtifact, outside
    <3>2. CASE RecoverStep(h)
      BY <3>2 DEF RecoverStep, RecoverList, RecoverSync, RecoverObserve, outside
    <3>3. CASE FailStep(h)
      BY <3>3 DEF FailStep, CompensateStop, CompensateClean, FailSaveLaunch,
                  FailWorker, FailRun, FailArtifact, FailEvent, outside
    <3>4. CASE DispatchStep(h)
      BY <3>4, LocalFields
         DEF DispatchStep, ListIntents, Publish, MarkPublished, MarkFailed,
             Mark, outside
    <3>5. CASE RunStopStep(h)
      BY <3>5 DEF RunStopStep, StopRead, StopRequest, StopRuntime,
                  StopProgress, StopCleanup, StopFinal, StopStep, outside
    <3>6. CASE GetStep(h)
      BY <3>6 DEF GetStep, GetRead, GetSync, GetObserve, ListEvents, outside
    <3>7. CASE IngestStep(h)
      BY <3>7 DEF IngestStep, IngestRead, IngestPublish, IngestCount, outside
    <3>8. QED
      BY <2>1, <3>1, <3>2, <3>3, <3>4, <3>5, <3>6, <3>7 DEF HandlerStep
  <2>2. CASE (\E w \in Workers : WorkerExit(w)) \/ MinutePasses \/ Crash
    BY <2>2 DEF WorkerExit, MinutePasses, Crash, outside
  <2>3. CASE UNCHANGED vars
    BY <2>3 DEF vars, outside
  <2>4. QED
    BY <2>1, <2>2, <2>3 DEF Next
<1>2. log \in Seq(Topics \cup {"failed"})
  BY DEF TypeOK, OutsideTypeOK
<1>3. QED
  BY <1>1, <1>2 DEF Occurs

(* A store call that is not a mark publishes no intent.                    *)
LEMMA RecordPublishesNothing ==
  ASSUME TypeOK, NEW topic \in Topics, NEW replaces \in BOOLEAN,
         RecordIntent(topic, replaces), NEW t \in Topics,
         intent'[t] = "published"
  PROVE  intent[t] = "published"
BY StoreFields, RecordIntentType DEF RecordIntent

(* An intent becomes published only by the step that marks it.             *)
LEMMA OnlyMarkPublishes ==
  ASSUME TypeOK, [Next]_vars, NEW t \in Topics, intent'[t] = "published"
  PROVE  \/ intent[t] = "published"
         \/ \E h \in Handlers : pc[h] = "markPublished" /\ local[h].topic = t
<1>1. ASSUME NEW h \in Handlers, HandlerStep(h)
      PROVE  \/ intent[t] = "published"
             \/ pc[h] = "markPublished" /\ local[h].topic = t
  <2>1. CASE CreateStep(h)
    <3>1. UNCHANGED intent \/ RecordIntent("streaming", FALSE)
      BY <2>1 DEF CreateStep, CreateRun, LaunchWorker, SaveLaunch,
                  SetStreaming, SaveArtifact, store
    <3>2. QED
      BY <3>1, RecordPublishesNothing DEF Topics
  <2>2. CASE RecoverStep(h)
    BY <2>2 DEF RecoverStep, RecoverList, RecoverSync, RecoverObserve, store
  <2>3. CASE FailStep(h)
    BY <2>3 DEF FailStep, CompensateStop, CompensateClean, FailSaveLaunch,
                FailWorker, FailRun, FailArtifact, FailEvent, store
  <2>4. CASE ListIntents(h) \/ Publish(h)
    BY <2>4 DEF ListIntents, Publish, store
  <2>5. CASE MarkPublished(h) \/ MarkFailed(h)
    BY <2>5, StoreFields, LocalFields
       DEF MarkPublished, MarkFailed, Mark
  <2>6. CASE RunStopStep(h)
    <3>1. UNCHANGED intent \/ RecordIntent("stopped", TRUE)
      BY <2>6 DEF RunStopStep, StopRead, StopRequest, StopRuntime,
                  StopProgress, StopCleanup, StopFinal, StopStep, ApplyStop,
                  store
    <3>2. QED
      BY <3>1, RecordPublishesNothing DEF Topics
  <2>7. CASE GetStep(h)
    BY <2>7 DEF GetStep, GetRead, GetSync, GetObserve, ListEvents, store
  <2>8. CASE IngestStep(h)
    BY <2>8 DEF IngestStep, IngestRead, IngestPublish, IngestCount, store
  <2>9. QED
    BY <1>1, <2>1, <2>2, <2>3, <2>4, <2>5, <2>6, <2>7, <2>8
       DEF HandlerStep, DispatchStep
<1>2. CASE (\E w \in Workers : WorkerExit(w)) \/ MinutePasses \/ Crash
  BY <1>2 DEF WorkerExit, MinutePasses, Crash, store
<1>3. CASE UNCHANGED vars
  BY <1>3 DEF vars, store
<1>4. QED
  BY <1>1, <1>2, <1>3 DEF Next

(* A handler is about to mark a topic published only when it has just      *)
(* published it, or was about to already.                                  *)
LEMMA MarkFollowsPublish ==
  ASSUME TypeOK, [Next]_vars, NEW h \in Handlers, pc'[h] = "markPublished"
  PROVE  \/ pc[h] = "markPublished" /\ local'[h] = local[h]
         \/ log' = Append(log, local'[h].topic)
<1> USE DEF Goto, Hold, Answer
<1>0. pc \in [Handlers -> Labels] /\ local \in [Handlers -> LocalRecord]
  BY DEF TypeOK, RequestTypeOK
<1>1. ASSUME NEW g \in Handlers, HandlerStep(g)
      PROVE  \/ pc[h] = "markPublished" /\ local'[h] = local[h]
             \/ log' = Append(log, local'[h].topic)
  <2>1. CASE CreateStep(g)
    BY <1>0, <2>1 DEF CreateStep, CreateRun, InsertRun, RetryStaleRun,
                ReplayRun, LaunchWorker, SaveLaunch, SetStreaming, SaveArtifact
  <2>2. CASE RecoverStep(g)
    BY <1>0, <2>2 DEF RecoverStep, RecoverList, RecoverSync, RecoverObserve
  <2>3. CASE FailStep(g)
    BY <1>0, <2>3 DEF FailStep, CompensateStop, CompensateClean,
                FailSaveLaunch, FailWorker, FailRun, FailArtifact, FailEvent
  <2>4. CASE DispatchStep(g)
    BY <1>0, <2>4 DEF DispatchStep, ListIntents, Publish, MarkPublished,
                MarkFailed, Mark, LocalRecord
  <2>5. CASE RunStopStep(g)
    BY <1>0, <2>5 DEF RunStopStep, StopRead, StopRequest, StopRuntime,
                StopProgress, StopCleanup, StopFinal, StopStep
  <2>6. CASE GetStep(g)
    BY <1>0, <2>6 DEF GetStep, GetRead, GetSync, GetObserve, ListEvents
  <2>7. CASE IngestStep(g)
    BY <1>0, <2>7 DEF IngestStep, IngestRead, IngestPublish, IngestCount
  <2>8. QED
    BY <1>1, <2>1, <2>2, <2>3, <2>4, <2>5, <2>6, <2>7 DEF HandlerStep
<1>2. CASE (\E w \in Workers : WorkerExit(w)) \/ MinutePasses
  BY <1>2 DEF WorkerExit, MinutePasses, request
<1>3. CASE Crash
  BY <1>3 DEF Crash
<1>4. CASE UNCHANGED vars
  BY <1>4 DEF vars, request
<1>5. QED
  BY <1>1, <1>2, <1>3, <1>4 DEF Next

(* The inductive form of PublishedWasDelivered: it holds already of the    *)
(* topic a handler is about to mark, which no crash can undo.              *)
Delivered ==
  /\ PublishedWasDelivered
  /\ \A h \in Handlers : pc[h] = "markPublished" => Occurs(local[h].topic)

LEMMA DeliveredIsInvariant == Spec => []Delivered
<1>1. Init => Delivered
  BY DEF Init, Delivered, PublishedWasDelivered
<1>2. TypeOK /\ TypeOK' /\ Delivered /\ [Next]_vars => Delivered'
  <2> SUFFICES ASSUME TypeOK, TypeOK', Delivered, [Next]_vars
               PROVE  Delivered'
    OBVIOUS
  <2>1. ASSUME NEW t \in Topics, intent'[t] = "published"
        PROVE  Occurs(t)'
    <3>1. Occurs(t)
      BY <2>1, OnlyMarkPublishes DEF Delivered, PublishedWasDelivered
    <3>2. QED
      BY <3>1, LogGrows
  <2>2. ASSUME NEW h \in Handlers, pc'[h] = "markPublished"
        PROVE  Occurs(local[h].topic)'
    <3>1. local'[h].topic \in Topics
      BY DEF TypeOK, RequestTypeOK, LocalRecord
    <3>2. CASE pc[h] = "markPublished" /\ local'[h] = local[h]
      <4>1. Occurs(local[h].topic) /\ local[h].topic \in Topics
        BY <3>2, LocalFields DEF Delivered
      <4>2. QED
        BY <3>2, <4>1, LogGrows DEF Occurs
    <3>3. CASE log' = Append(log, local'[h].topic)
      <4>1. log \in Seq(Topics \cup {"failed"})
        BY DEF TypeOK, OutsideTypeOK
      <4>2. QED
        BY <3>1, <3>3, <4>1 DEF Occurs
    <3>4. QED
      BY <2>2, <3>2, <3>3, MarkFollowsPublish
  <2>3. QED
    BY <2>1, <2>2 DEF Delivered, PublishedWasDelivered
<1>3. QED
  BY <1>1, <1>2, TypeCorrect, PTL DEF Spec

(* No intent is marked published whose event is not in the log, whatever   *)
(* crashes and failing calls separate the publication from its mark        *)
(* (dispatchSimopsPublicationIntents).                                     *)
THEOREM NothingPublishedIsLost == Spec => []PublishedWasDelivered
<1>1. Delivered => PublishedWasDelivered
  BY DEF Delivered
<1>2. QED
  BY <1>1, DeliveredIsInvariant, PTL
-----------------------------------------------------------------------------
(* A stop that settles stops every worker that has not failed.             *)
LEMMA SettledWorker ==
  ASSUME NEW w \in WorkerRecord, NEW t \in StopTransition, Settles(t)
  PROVE  \/ StopWorkerMemory(w, t).condition = "failed"
         \/ StopWorkerMemory(w, t).phase = "stopped"
<1> DEFINE cleaned == ApplyCleanupOutcome(EnsureWorkerState(w), t.cleanup)
           judged  == IF ~t.stopFailure THEN cleaned
                      ELSE [cleaned EXCEPT
                             !.condition = IF t.stopConfirmed THEN "failed"
                                           ELSE Degrade(cleaned.condition)]
<1>1. cleaned \in WorkerRecord
  BY EnsureWorkerStateType, ApplyCleanupOutcomeType DEF StopTransition
<1>2. judged = cleaned
  BY DEF Settles
<1>3. StopWorkerMemory(w, t) =
        IF Settles(t) /\ judged.condition # "failed"
        THEN [judged EXCEPT !.phase = "stopped", !.active = "terminal",
                            !.lifecycle = ProjectWorkerLifecycle("stopped")]
        ELSE judged
  BY DEF StopWorkerMemory
<1> HIDE DEF cleaned, judged
<1>4. QED
  BY <1>1, <1>2, <1>3 DEF WorkerRecord

(* ApplyStopTransition leaves a Run stopped, failed or stopping: it never  *)
(* projects streaming, and stopped only for the stopped phase.             *)
LEMMA StopLeavesNoStreaming ==
  ASSUME NEW worker0 \in [Workers -> WorkerRecord], NEW run0 \in RunRecord,
         NEW t \in StopTransition,
         NEW after,
         after = StopRunIn(Adapter, run0, StopWorkersIn(Adapter, worker0, t), t)
  PROVE  after.lifecycle \in Topics => after.phase = "stopped"
<1> DEFINE workers == StopWorkersIn(Adapter, worker0, t)
<1>1. CASE Adapter = "memory"
  <2> DEFINE stopping == [run0 EXCEPT !.cleanup = t.cleanup]
             derived  == DeriveRunState(stopping, workers)
             held     == [stopping EXCEPT
                           !.phase = "stopping",
                           !.condition = IF run0.condition = "failed"
                                         THEN "failed" ELSE "degraded"]
             state    == IF Settles(t) THEN derived ELSE held
  <2>1. stopping \in RunRecord
    BY DEF StopTransition, RunRecord
  <2>2. after = [state EXCEPT !.lifecycle = ProjectRunLifecycle(state.phase)]
    BY <1>1 DEF StopRunIn, StopRunMemory
  <2>3. state.phase \in {"stopping", "stopped", "failed"} /\ state \in RunRecord
    <3>1. CASE ~Settles(t)
      BY <2>1, <3>1 DEF RunRecord, RunPhase, Condition
    <3>2. CASE Settles(t)
      <4>1. \A w \in Workers : \/ workers[w].condition = "failed"
                               \/ workers[w].phase = "stopped"
        BY <1>1, <3>2, SettledWorker DEF StopWorkersIn
      <4>2. derived.phase \in {"stopped", "failed"}
        BY <2>1, <4>1, ParameterAssumption DEF DeriveRunState, RunRecord
      <4>3. derived \in RunRecord
        BY <2>1, AggregateType
      <4>4. QED
        BY <3>2, <4>2, <4>3
    <3>3. QED
      BY <3>1, <3>2
  <2> HIDE DEF state
  <2>4. after.phase = state.phase
        /\ after.lifecycle = ProjectRunLifecycle(state.phase)
    BY <2>2, <2>3 DEF RunRecord
  <2>5. QED
    BY <2>3, <2>4 DEF ProjectRunLifecycle, Topics
<1>2. CASE Adapter # "memory"
  <2> HIDE DEF workers
  <2>1. after = StopRunPostgres(run0, workers, t)
    BY <1>2 DEF StopRunIn, workers
  <2>2. after.phase \in {"stopping", "stopped", "failed"}
        /\ after.lifecycle = ProjectRunLifecycle(after.phase)
    BY <2>1 DEF StopRunPostgres
  <2>3. QED
    BY <2>2 DEF ProjectRunLifecycle, Topics
<1>3. QED
  BY <1>1, <1>2

(* The lifecycle projected from the stopped phase is stopped.              *)
LEMMA StoppedPhase ==
  ASSUME NEW worker0, NEW run0 \in RunRecord, NEW t \in StopTransition,
         StopRunIn(Adapter, run0, worker0, t).phase = "stopped"
  PROVE  StopRunIn(Adapter, run0, worker0, t).lifecycle = "stopped"
<1>1. \A state \in RunRecord :
        [state EXCEPT !.lifecycle = ProjectRunLifecycle(state.phase)].phase
          = "stopped"
        => [state EXCEPT !.lifecycle = ProjectRunLifecycle(state.phase)].lifecycle
             = "stopped"
  BY DEF RunRecord, ProjectRunLifecycle
<1>2. CASE Adapter = "memory"
  <2> DEFINE stopping == [run0 EXCEPT !.cleanup = t.cleanup]
             held     == [stopping EXCEPT
                           !.phase = "stopping",
                           !.condition = IF run0.condition = "failed"
                                         THEN "failed" ELSE "degraded"]
             state    == IF Settles(t) THEN DeriveRunState(stopping, worker0)
                         ELSE held
  <2>1. stopping \in RunRecord
    BY DEF StopTransition, RunRecord
  <2>2. held \in RunRecord
    BY <2>1 DEF RunRecord, RunPhase, Condition
  <2>3. state \in RunRecord
    BY <2>1, <2>2, AggregateType
  <2>4. StopRunIn(Adapter, run0, worker0, t) =
          [state EXCEPT !.lifecycle = ProjectRunLifecycle(state.phase)]
    BY <1>2 DEF StopRunIn, StopRunMemory
  <2> HIDE DEF state
  <2>5. QED
    BY <1>1, <2>3, <2>4
<1>3. CASE Adapter # "memory"
  BY <1>3 DEF StopRunIn, StopRunPostgres, ProjectRunLifecycle
<1>4. QED
  BY <1>2, <1>3

(* An observation leaves the lifecycle of the Run alone.                   *)
LEMMA ObserveKeepsLifecycle ==
  ASSUME NEW run0 \in RunRecord, NEW worker0
  PROVE  ObserveRunIn(Adapter, run0, worker0).lifecycle = run0.lifecycle
<1>1. DeriveRunState(run0, worker0).lifecycle = run0.lifecycle
  BY DEF DeriveRunState, RunRecord
<1>2. AggregatePostgres(run0, worker0).lifecycle = run0.lifecycle
  BY DEF AggregatePostgres, RunRecord
<1>3. QED
  BY <1>1, <1>2 DEF ObserveRunIn

(* What the three stop transitions of a stop do to the store.              *)
LEMMA StopStepsApply ==
  ASSUME TypeOK, NEW h \in Handlers,
         StopRequest(h) \/ StopProgress(h) \/ StopFinal(h)
  PROVE  \/ UNCHANGED <<run, worker, intent>>
         \/ \E t \in StopTransition : ApplyStop(t)
<1> DEFINE requested == StopFact("requested", "ok", "ok")
           progress  == StopFact("in_progress", local[h].stop, "ok")
           final     == StopFact(CleanupOf(local[h].clean), local[h].stop,
                                 local[h].clean)
<1>1. requested \in StopTransition /\ progress \in StopTransition
  BY StopFactType DEF Cleanup
<1>2. final \in StopTransition
  BY StopFactType DEF CleanupOf, Cleanup
<1> HIDE DEF requested, progress, final
<1>3. \/ ApplyStop(requested) \/ ApplyStop(progress) \/ ApplyStop(final)
      \/ UNCHANGED <<run, worker, intent>>
  BY DEF StopRequest, StopProgress, StopFinal, StopStep, requested, progress,
         final
<1>4. QED
  BY <1>1, <1>2, <1>3

(* A recorded intent is never forgotten.                                   *)
LEMMA RecordKeepsIntents ==
  ASSUME TypeOK, NEW topic \in Topics, NEW replaces \in BOOLEAN,
         RecordIntent(topic, replaces)
  PROVE  /\ intent'[topic] # "none"
         /\ \A t \in Topics : intent[t] # "none" => intent'[t] # "none"
<1>1. intent \in [Topics -> IntentState]
  BY StoreFields
<1>2. RecordIntentIn(Adapter, intent[topic], replaces) # "none"
  BY <1>1, RecordIntentType
<1>3. QED
  BY <1>1, <1>2 DEF RecordIntent

(* One step records an intent with the lifecycle it moves the Run to.      *)
LEMMA TransitionRecordsIntent ==
  ASSUME TypeOK, [Next]_vars
  PROVE  /\ \A t \in Topics : intent[t] # "none" => intent'[t] # "none"
         /\ \/ run'.lifecycle = run.lifecycle
            \/ run'.lifecycle \notin Topics
            \/ intent'[run'.lifecycle] # "none"
<1> DEFINE Goal ==
             /\ \A t \in Topics : intent[t] # "none" => intent'[t] # "none"
             /\ \/ run'.lifecycle = run.lifecycle
                \/ run'.lifecycle \notin Topics
                \/ intent'[run'.lifecycle] # "none"
<1>1. ASSUME NEW h \in Handlers, HandlerStep(h)
      PROVE  Goal
  <2>1. CASE CreateStep(h)
    <3>1. CASE SetStreaming(h)
      <4>1. CASE RecordIntent("streaming", FALSE)
                 /\ run' = SetRunLifecycleIn(Adapter, run, "streaming")
        <5>1. run'.lifecycle = "streaming"
          BY <4>1, StoreFields, SetRunLifecycleType DEF Lifecycle
        <5>2. QED
          BY <4>1, <5>1, RecordKeepsIntents DEF Topics
      <4>2. CASE UNCHANGED <<run, intent>>
        BY <4>2
      <4>3. QED
        BY <3>1, <4>1, <4>2 DEF SetStreaming
    <3>2. CASE CreateRun(h)
      BY <3>2 DEF CreateRun, InsertRun, RetryStaleRun, ReplayRun, AdmittedRun,
                  Topics
    <3>3. CASE LaunchWorker(h) \/ SaveLaunch(h) \/ SaveArtifact(h)
      BY <3>3 DEF LaunchWorker, SaveLaunch, SaveArtifact, store
    <3>4. QED
      BY <2>1, <3>1, <3>2, <3>3 DEF CreateStep
  <2>2. CASE RecoverStep(h)
    <3>1. UNCHANGED intent
      BY <2>2 DEF RecoverStep, RecoverList, RecoverSync, RecoverObserve, store
    <3>2. UNCHANGED run \/ run' = ObserveRunIn(Adapter, run, worker')
      BY <2>2 DEF RecoverStep, RecoverList, RecoverSync, RecoverObserve,
                  Observe, store
    <3>3. QED
      BY <3>1, <3>2, ObserveKeepsLifecycle, StoreFields
  <2>3. CASE FailStep(h)
    <3>1. UNCHANGED intent
      BY <2>3 DEF FailStep, CompensateStop, CompensateClean, FailSaveLaunch,
                  FailWorker, FailRun, FailArtifact, FailEvent, store
    <3>2. UNCHANGED run \/ run' = SetRunLifecycleIn(Adapter, run, "failed")
      BY <2>3 DEF FailStep, CompensateStop, CompensateClean, FailSaveLaunch,
                  FailWorker, FailRun, FailArtifact, FailEvent, store
    <3>3. SetRunLifecycleIn(Adapter, run, "failed").lifecycle = "failed"
      BY StoreFields, SetRunLifecycleType DEF Lifecycle
    <3>4. QED
      BY <3>1, <3>2, <3>3 DEF Topics
  <2>4. CASE DispatchStep(h)
    <3>1. UNCHANGED run
      BY <2>4 DEF DispatchStep, ListIntents, Publish, MarkPublished,
                  MarkFailed, Mark, store
    <3>2. UNCHANGED intent \/ \E state \in {"published", "failed"} :
            intent' = [intent EXCEPT ![local[h].topic] = state]
      BY <2>4 DEF DispatchStep, ListIntents, Publish, MarkPublished,
                  MarkFailed, Mark, store
    <3>3. QED
      BY <3>1, <3>2, StoreFields
  <2>5. CASE RunStopStep(h)
    <3>1. \/ UNCHANGED <<run, intent>>
          \/ \E t \in StopTransition : ApplyStop(t)
      BY <2>5, StopStepsApply, LocalFields
         DEF RunStopStep, StopRead, StopRuntime, StopCleanup, store
    <3>2. ASSUME NEW t \in StopTransition, ApplyStop(t)
          PROVE  Goal
      <4>1. run' = StopRunIn(Adapter, run, StopWorkersIn(Adapter, worker, t), t)
            /\ IF run'.phase = "stopped" THEN RecordIntent("stopped", TRUE)
               ELSE UNCHANGED intent
        BY <3>2 DEF ApplyStop
      <4>2. run'.lifecycle \in Topics =>
              run'.phase = "stopped" /\ run'.lifecycle = "stopped"
        BY <4>1, StoreFields, StopLeavesNoStreaming, StoppedPhase
      <4>3. CASE run'.phase = "stopped"
        BY <4>1, <4>2, <4>3, RecordKeepsIntents DEF Topics
      <4>4. CASE run'.phase # "stopped"
        BY <4>1, <4>2, <4>4
      <4>5. QED
        BY <4>3, <4>4
    <3>3. QED
      BY <3>1, <3>2
  <2>6. CASE GetStep(h)
    <3>1. UNCHANGED intent
      BY <2>6 DEF GetStep, GetRead, GetSync, GetObserve, ListEvents, store
    <3>2. UNCHANGED run \/ run' = ObserveRunIn(Adapter, run, worker')
      BY <2>6 DEF GetStep, GetRead, GetSync, GetObserve, ListEvents, Observe,
                  store
    <3>3. QED
      BY <3>1, <3>2, ObserveKeepsLifecycle, StoreFields
  <2>7. CASE IngestStep(h)
    BY <2>7 DEF IngestStep, IngestRead, IngestPublish, IngestCount, store
  <2>8. QED
    BY <1>1, <2>1, <2>2, <2>3, <2>4, <2>5, <2>6, <2>7 DEF HandlerStep
<1>2. CASE (\E w \in Workers : WorkerExit(w)) \/ MinutePasses \/ Crash
  BY <1>2 DEF WorkerExit, MinutePasses, Crash, store
<1>3. CASE UNCHANGED vars
  BY <1>3 DEF vars, store
<1>4. QED
  BY <1>1, <1>2, <1>3 DEF Next

(* A Run that reads streaming or stopped has the intent to publish that:   *)
(* no crash and no failed call separates a transition from its intent      *)
(* (UpdateRunLifecycleWithPublicationIntent, ApplyStopTransition).         *)
THEOREM NoTransitionWithoutIntent == Spec => []TransitionHasIntent
<1>1. Init => TransitionHasIntent
  BY DEF Init, AdmittedRun, TransitionHasIntent, Topics
<1>2. TypeOK /\ TransitionHasIntent /\ [Next]_vars => TransitionHasIntent'
  BY TransitionRecordsIntent DEF TransitionHasIntent
<1>3. QED
  BY <1>1, <1>2, TypeCorrect, PTL DEF Spec

-----------------------------------------------------------------------------
(* Cleanup never repairs a failed worker of the in-memory store: a stop    *)
(* request makes no call but those of a stop, and every stored worker      *)
(* carries a state, so ApplyStopTransition never rebuilds one.             *)

(* The calls a stop request makes: its own and those of the dispatch.      *)
StopLabels == {"idle", "done", "stopRequest", "stopRuntime", "stopProgress",
               "stopCleanup", "stopFinal", "dispatch", "publish",
               "markPublished", "markFailed"}

(* A stop request only ever makes those calls ...                          *)
StopsOnlyStop == \A h \in Stops : pc[h] \in StopLabels

(* ... and every stored worker carries its state.                          *)
StateIsStored == \A w \in Workers : worker[w].phase # "unset"

(* A handler's step moves no other handler.                                *)
LEMMA StepMovesItself ==
  ASSUME TypeOK, NEW h \in Handlers, HandlerStep(h), NEW g \in Handlers, g # h
  PROVE  pc'[g] = pc[g]
<1>0. pc \in [Handlers -> Labels]
  BY DEF TypeOK, RequestTypeOK
<1>a. ASSUME NEW label, Goto(h, label) PROVE pc'[g] = pc[g]
  BY <1>0, <1>a DEF Goto
<1>b. ASSUME NEW status, Answer(h, status) PROVE pc'[g] = pc[g]
  BY <1>0, <1>b DEF Answer
<1>1. CASE CreateStep(h)
  BY <1>a, <1>b, <1>1 DEF CreateStep, CreateRun, InsertRun, RetryStaleRun, ReplayRun,
              LaunchWorker, SaveLaunch, SetStreaming, SaveArtifact
<1>2. CASE RecoverStep(h)
  BY <1>a, <1>b, <1>2 DEF RecoverStep, RecoverList, RecoverSync, RecoverObserve
<1>3. CASE FailStep(h)
  BY <1>a, <1>b, <1>3 DEF FailStep, CompensateStop, CompensateClean, FailSaveLaunch,
              FailWorker, FailRun, FailArtifact, FailEvent
<1>4. CASE DispatchStep(h)
  BY <1>a, <1>b, <1>4 DEF DispatchStep, ListIntents, Publish, MarkPublished, MarkFailed,
              Mark
<1>5. CASE RunStopStep(h)
  BY <1>a, <1>b, <1>5 DEF RunStopStep, StopRead, StopRequest, StopRuntime, StopProgress,
              StopCleanup, StopFinal, StopStep
<1>6. CASE GetStep(h)
  BY <1>a, <1>b, <1>6 DEF GetStep, GetRead, GetSync, GetObserve, ListEvents
<1>7. CASE IngestStep(h)
  BY <1>a, <1>b, <1>7 DEF IngestStep, IngestRead, IngestPublish, IngestCount
<1>8. QED
  BY <1>1, <1>2, <1>3, <1>4, <1>5, <1>6, <1>7 DEF HandlerStep

(* A stop request makes no other request's steps.                          *)
LEMMA StopsOwnSteps ==
  ASSUME StopsOnlyStop, NEW h \in Stops, HandlerStep(h)
  PROVE  DispatchStep(h) \/ RunStopStep(h)
<1>1. pc[h] \in StopLabels /\ h \notin Creates /\ h \notin Gets /\ h \notin Ingests
  BY HandlersAssumption DEF StopsOnlyStop
<1>2. ~CreateStep(h)
  BY <1>1 DEF CreateStep, CreateRun, LaunchWorker, SaveLaunch, SetStreaming,
              SaveArtifact, StopLabels
<1>3. ~RecoverStep(h)
  BY <1>1 DEF RecoverStep, RecoverList, RecoverSync, RecoverObserve, StopLabels
<1>4. ~FailStep(h)
  BY <1>1 DEF FailStep, CompensateStop, CompensateClean, FailSaveLaunch,
              FailWorker, FailRun, FailArtifact, FailEvent, StopLabels
<1>5. ~GetStep(h) /\ ~IngestStep(h)
  BY <1>1 DEF GetStep, GetRead, GetSync, GetObserve, ListEvents, IngestStep,
              IngestRead, IngestPublish, IngestCount, StopLabels
<1>6. QED
  BY <1>2, <1>3, <1>4, <1>5 DEF HandlerStep

(* A step keeps the stop requests to their calls.                          *)
LEMMA StopLabelsKept ==
  ASSUME TypeOK, StopsOnlyStop, [Next]_vars
  PROVE  StopsOnlyStop'
<1> SUFFICES ASSUME NEW g \in Stops PROVE pc'[g] \in StopLabels
  BY DEF StopsOnlyStop
<1>1. pc[g] \in StopLabels /\ g \in Handlers
  BY DEF StopsOnlyStop, Handlers
<1>2. ASSUME NEW h \in Handlers, HandlerStep(h)
      PROVE  pc'[g] \in StopLabels
  <2>1. CASE h # g
    BY <1>1, <1>2, <2>1, StepMovesItself
  <2>2. CASE h = g
    <3>1. pc \in [Handlers -> Labels]
      BY DEF TypeOK, RequestTypeOK
    <3>2. CASE DispatchStep(g)
      BY <1>1, <3>1, <3>2
         DEF DispatchStep, ListIntents, Publish, MarkPublished, MarkFailed,
             Mark, Goto, Answer, StopLabels
    <3>3. CASE RunStopStep(g)
      BY <1>1, <3>1, <3>3
         DEF RunStopStep, StopRead, StopRequest, StopRuntime, StopProgress,
             StopCleanup, StopFinal, StopStep, Goto, Answer, StopLabels
    <3>4. QED
      BY <1>2, <2>2, <3>2, <3>3, StopsOwnSteps
  <2>3. QED
    BY <2>1, <2>2
<1>3. CASE (\E w \in Workers : WorkerExit(w)) \/ MinutePasses
  BY <1>1, <1>3 DEF WorkerExit, MinutePasses, request
<1>4. CASE Crash
  BY <1>1, <1>4 DEF Crash, StopLabels
<1>5. CASE UNCHANGED vars
  BY <1>1, <1>5 DEF vars, request
<1>6. QED
  BY <1>2, <1>3, <1>4, <1>5 DEF Next
-----------------------------------------------------------------------------
(* The calls of the store that replace workers leave them a state.         *)

(* SaveLaunch materializes the state of every worker it saves.             *)
LEMMA SavedStateIsStored ==
  ASSUME NEW adapter, NEW workers \in [Workers -> WorkerRecord],
         NEW records \in [Workers -> WorkerRecord], NEW w \in Workers
  PROVE  SaveLaunchIn(adapter, workers, records)[w].phase # "unset"
<1> DEFINE e == EnsureWorkerState(records[w])
           m == MaterializeLaunch(records[w])
<1>1. e \in WorkerRecord /\ e.phase # "unset"
  BY EnsureWorkerStateType DEF WorkerPhase
<1>2. m \in WorkerRecord
  BY MaterializeLaunchType
<1>3. m.phase # "unset"
  <2> HIDE DEF e
  <2>1. \A disposition : ApplyLaunchOutcome(e, disposition).phase # "unset"
    BY <1>1 DEF ApplyLaunchOutcome, WorkerRecord
  <2>2. QED
    BY <1>1, <2>1 DEF MaterializeLaunch, e
<1> HIDE DEF m
<1>4. MergeLaunchMemory(workers[w], records[w]).phase # "unset"
  BY <1>3 DEF MergeLaunchMemory, m
<1>5. MergeLaunchPostgres(workers[w], records[w]).phase # "unset"
  BY <1>2, <1>3 DEF MergeLaunchPostgres, WorkerRecord, m
<1>6. QED
  BY <1>4, <1>5 DEF SaveLaunchIn

(* So does UpdateWorkerObservedLifecycle for the worker it observes.       *)
LEMMA ObservedStateIsStored ==
  ASSUME NEW w \in WorkerRecord, NEW o \in ObservedState, NEW id \in BOOLEAN
  PROVE  ObserveWorker(w, o, id).phase # "unset"
<1> DEFINE e == EnsureWorkerState(ApplyObserved(w, o, id))
<1>1. e \in WorkerRecord /\ e.phase # "unset"
  BY ApplyObservedType, EnsureWorkerStateType DEF WorkerPhase
<1> HIDE DEF e
<1>2. ApplyRuntimeObservation(e, o).phase # "unset"
  BY <1>1 DEF ApplyRuntimeObservation, WorkerRecord
<1>3. QED
  BY <1>2 DEF ObserveWorker, e

(* ApplyStopTransition leaves a worker its state, and in memory its failed *)
(* condition (applyWorkerCleanupOutcome, applyDegradation).                *)
LEMMA StoppedWorkerKeepsState ==
  ASSUME NEW w \in WorkerRecord, w.phase # "unset", NEW t \in StopTransition
  PROVE  /\ StopWorkerMemory(w, t).phase # "unset"
         /\ w.condition = "failed" =>
              StopWorkerMemory(w, t).condition = "failed"
<1> DEFINE cleaned == ApplyCleanupOutcome(w, t.cleanup)
           judged  == IF ~t.stopFailure THEN cleaned
                      ELSE [cleaned EXCEPT
                             !.condition = IF t.stopConfirmed THEN "failed"
                                           ELSE Degrade(cleaned.condition)]
<1>1. EnsureWorkerState(w) = w /\ t.cleanup \in Cleanup
  BY DEF EnsureWorkerState, StopTransition
<1>2. /\ cleaned \in WorkerRecord
      /\ w.condition = "failed" => cleaned.condition = "failed"
  BY <1>1, ApplyCleanupOutcomeType
<1>3. cleaned.phase # "unset"
  BY DEF ApplyCleanupOutcome, WorkerRecord
<1>4. StopWorkerMemory(w, t) =
        IF Settles(t) /\ judged.condition # "failed"
        THEN [judged EXCEPT !.phase = "stopped", !.active = "terminal",
                            !.lifecycle = ProjectWorkerLifecycle("stopped")]
        ELSE judged
  BY <1>1 DEF StopWorkerMemory
<1> HIDE DEF cleaned
<1>5. /\ judged \in WorkerRecord /\ judged.phase # "unset"
      /\ w.condition = "failed" => judged.condition = "failed"
  BY <1>2, <1>3, DegradeType DEF WorkerRecord, Condition
<1> HIDE DEF judged
<1>6. QED
  BY <1>4, <1>5 DEF WorkerRecord

(* So does the statement of Postgres.                                      *)
LEMMA StoppedRowKeepsState ==
  ASSUME NEW w \in WorkerRecord, w.phase # "unset", NEW t \in StopTransition
  PROVE  StopWorkerPostgres(w, t).phase # "unset"
<1> DEFINE settled == Settles(t) /\ w.condition # "failed"
<1>1. StopWorkerPostgres(w, t).phase = IF settled THEN "stopped" ELSE w.phase
  BY DEF StopWorkerPostgres, WorkerRecord
<1>2. QED
  BY <1>1

(* ApplyStopTransition on the whole store.                                 *)
LEMMA ApplyStopKeepsState ==
  ASSUME TypeOK, StateIsStored, NEW t \in StopTransition, ApplyStop(t)
  PROVE  /\ StateIsStored'
         /\ Adapter = "memory" =>
              \A w \in Workers : worker[w].condition = "failed" =>
                                   worker'[w].condition = "failed"
<1>1. \A w \in Workers : /\ worker[w] \in WorkerRecord
                         /\ worker[w].phase # "unset"
  BY StoreFields DEF StateIsStored
<1>2. \A w \in Workers :
        worker'[w] = IF Adapter = "memory" THEN StopWorkerMemory(worker[w], t)
                     ELSE StopWorkerPostgres(worker[w], t)
  BY DEF ApplyStop, StopWorkersIn
<1>3. QED
  BY <1>1, <1>2, StoppedWorkerKeepsState, StoppedRowKeepsState
     DEF StateIsStored

(* A stop's own step writes workers only by ApplyStopTransition.           *)
LEMMA StopWritesByTransition ==
  ASSUME NEW h \in Handlers, DispatchStep(h) \/ RunStopStep(h)
  PROVE  UNCHANGED worker \/ \E t \in StopTransition : ApplyStop(t)
<1>1. CASE DispatchStep(h)
  BY <1>1 DEF DispatchStep, ListIntents, Publish, MarkPublished, MarkFailed,
              Mark, store
<1>2. CASE StopRead(h) \/ StopRuntime(h) \/ StopCleanup(h)
  BY <1>2 DEF StopRead, StopRuntime, StopCleanup, store
<1>3. CASE StopRequest(h)
  BY <1>3, StopFactType DEF StopRequest, StopStep, Cleanup
<1>4. CASE StopProgress(h)
  BY <1>4, StopFactType DEF StopProgress, StopStep, Cleanup
<1>5. CASE StopFinal(h)
  <2>1. CleanupOf(local[h].clean) \in Cleanup
    BY DEF CleanupOf, Cleanup
  <2>2. QED
    BY <1>5, <2>1, StopFactType DEF StopFinal, StopStep
<1>6. QED
  BY <1>1, <1>2, <1>3, <1>4, <1>5 DEF RunStopStep
-----------------------------------------------------------------------------
(* Replacing workers by ones that carry a state keeps StateIsStored.       *)
LEMMA SaveLaunchKeepsState ==
  ASSUME TypeOK, NEW records \in [Workers -> WorkerRecord],
         worker' = SaveLaunchIn(Adapter, worker, records)
  PROVE  StateIsStored'
BY StoreFields, SavedStateIsStored DEF StateIsStored

(* Observing a worker leaves the others theirs.                            *)
LEMMA ObserveKeepsState ==
  ASSUME TypeOK, StateIsStored, NEW w \in Workers, NEW o \in ObservedState,
         Observe(w, o)
  PROVE  StateIsStored'
<1>1. worker[w] \in WorkerRecord /\ (o # "missing") \in BOOLEAN
  BY StoreFields
<1>2. ObserveWorker(worker[w], o, o # "missing").phase # "unset"
  BY <1>1, ObservedStateIsStored
<1>3. worker' = [worker EXCEPT ![w] = ObserveWorker(worker[w], o, o # "missing")]
  BY DEF Observe
<1>4. QED
  BY <1>2, <1>3, StoreFields DEF StateIsStored

(* Every stored worker keeps a state, in either store.                     *)
LEMMA StateKept ==
  ASSUME TypeOK, StateIsStored, [Next]_vars
  PROVE  StateIsStored'
<1>0. UNCHANGED worker => StateIsStored'
  BY DEF StateIsStored
<1>1. ASSUME NEW h \in Handlers, HandlerStep(h)
      PROVE  StateIsStored'
  <2>1. CASE CreateStep(h)
    <3>1. CASE CreateRun(h)
      <4>1. EnsureWorkerState(PlannedWorker).phase # "unset"
        BY FreshRecordsType, EnsureWorkerStateType DEF WorkerPhase
      <4>2. QED
        BY <1>0, <3>1, <4>1 DEF CreateRun, InsertRun, RetryStaleRun, ReplayRun,
                                StateIsStored
    <3>2. CASE SaveLaunch(h)
      BY <1>0, <3>2, LocalFields, SaveLaunchKeepsState DEF SaveLaunch
    <3>3. CASE LaunchWorker(h) \/ SetStreaming(h) \/ SaveArtifact(h)
      BY <1>0, <3>3 DEF LaunchWorker, SetStreaming, SaveArtifact, store
    <3>4. QED
      BY <2>1, <3>1, <3>2, <3>3 DEF CreateStep
  <2>2. CASE RecoverStep(h)
    <3>1. CASE RecoverObserve(h)
      BY <1>0, <3>1, LocalFields, ObserveKeepsState DEF RecoverObserve
    <3>2. QED
      BY <1>0, <2>2, <3>1 DEF RecoverStep, RecoverList, RecoverSync, store
  <2>3. CASE FailStep(h)
    <3>1. CASE FailSaveLaunch(h)
      <4> DEFINE failed == [w \in Workers |-> [local[h].plan[w] EXCEPT
                                                 !.lifecycle = FailedLifecycle(h, w)]]
      <4>1. failed \in [Workers -> WorkerRecord]
        BY LocalFields DEF FailedLifecycle, WorkerRecord, Lifecycle
      <4> HIDE DEF failed
      <4>2. UNCHANGED worker \/ worker' = SaveLaunchIn(Adapter, worker, failed)
        BY <3>1 DEF FailSaveLaunch, failed
      <4>3. QED
        BY <1>0, <4>1, <4>2, SaveLaunchKeepsState
    <3>2. CASE FailWorker(h)
      <4>1. PICK w \in Workers :
              \/ UNCHANGED worker
              \/ worker' = [worker EXCEPT ![w].lifecycle = FailedLifecycle(h, w)]
        BY <3>2, LocalFields DEF FailWorker
      <4>2. \A v \in Workers : worker'[v].phase = worker[v].phase
        BY <4>1, StoreFields DEF WorkerRecord
      <4>3. QED
        BY <4>2 DEF StateIsStored
    <3>3. QED
      BY <1>0, <2>3, <3>1, <3>2
         DEF FailStep, CompensateStop, CompensateClean, FailRun, FailArtifact,
             FailEvent, store
  <2>4. CASE DispatchStep(h) \/ RunStopStep(h)
    BY <1>0, <2>4, StopWritesByTransition, ApplyStopKeepsState
  <2>5. CASE GetStep(h)
    <3>1. CASE GetObserve(h)
      BY <1>0, <3>1, LocalFields, ObserveKeepsState DEF GetObserve
    <3>2. QED
      BY <1>0, <2>5, <3>1 DEF GetStep, GetRead, GetSync, ListEvents, store
  <2>6. CASE IngestStep(h)
    <3>1. CASE IngestCount(h)
      <4>1. PICK w \in Workers :
              UNCHANGED worker \/ worker' = [worker EXCEPT ![w] = CountFrameOf(worker[w])]
        BY <3>1, LocalFields DEF IngestCount
      <4>2. CountFrameOf(worker[w]).phase = worker[w].phase
        BY StoreFields DEF CountFrameOf, WorkerRecord
      <4>3. \A v \in Workers : worker'[v].phase = worker[v].phase
        BY <4>1, <4>2, StoreFields
      <4>4. QED
        BY <4>3 DEF StateIsStored
    <3>2. QED
      BY <1>0, <2>6, <3>1 DEF IngestStep, IngestRead, IngestPublish, store
  <2>7. QED
    BY <1>1, <2>1, <2>2, <2>3, <2>4, <2>5, <2>6 DEF HandlerStep
<1>2. CASE (\E w \in Workers : WorkerExit(w)) \/ MinutePasses \/ Crash
  BY <1>0, <1>2 DEF WorkerExit, MinutePasses, Crash, store
<1>3. CASE UNCHANGED vars
  BY <1>0, <1>3 DEF vars, store
<1>4. QED
  BY <1>1, <1>2, <1>3 DEF Next

-----------------------------------------------------------------------------
(* A step in which some stop request moves keeps every failed worker       *)
(* failed: it is that request's own, or a crash, which writes no record.   *)
LEMMA MovedStopKeepsFailure ==
  ASSUME TypeOK, StopsOnlyStop, StateIsStored, Adapter = "memory", [Next]_vars,
         NEW g \in Stops, pc'[g] # pc[g],
         NEW w \in Workers, worker[w].condition = "failed"
  PROVE  worker'[w].condition = "failed"
<1>1. ASSUME NEW h \in Handlers, HandlerStep(h)
      PROVE  worker'[w].condition = "failed"
  <2>1. g \in Handlers /\ h = g
    BY <1>1, StepMovesItself DEF Handlers
  <2>2. DispatchStep(g) \/ RunStopStep(g)
    BY <1>1, <2>1, StopsOwnSteps
  <2>3. QED
    BY <2>1, <2>2, StopWritesByTransition, ApplyStopKeepsState
<1>2. CASE (\E v \in Workers : WorkerExit(v)) \/ MinutePasses \/ Crash
  BY <1>2 DEF WorkerExit, MinutePasses, Crash, store
<1>3. CASE UNCHANGED vars
  BY <1>3 DEF vars, store
<1>4. QED
  BY <1>1, <1>2, <1>3 DEF Next

(* With the in-memory store, no call of a stop repairs a worker that       *)
(* failed, whichever requests it races ("cleanup cannot overwrite existing *)
(* failure").  The Postgres statement does (simops_postgres_store.go:591).  *)
THEOREM CleanupKeepsFailure ==
  ASSUME Adapter = "memory"
  PROVE  Spec => FailureSurvivesCleanup
<1> DEFINE Inv  == TypeOK /\ StopsOnlyStop /\ StateIsStored
           Kept == \A w \in Workers :
                     /\ worker[w].condition = "failed"
                     /\ \E h \in Stops : pc'[h] # pc[h]
                     => worker'[w].condition = "failed"
<1>1. Init => StopsOnlyStop /\ StateIsStored
  <2>1. EnsureWorkerState(PlannedWorker).phase # "unset"
    BY FreshRecordsType, EnsureWorkerStateType DEF WorkerPhase
  <2>2. QED
    BY <2>1 DEF Init, StopsOnlyStop, StateIsStored, StopLabels, Handlers
<1>2. TypeOK /\ StopsOnlyStop /\ StateIsStored /\ [Next]_vars
        => StopsOnlyStop' /\ StateIsStored'
  BY StopLabelsKept, StateKept
<1>3. TypeOK /\ StopsOnlyStop /\ StateIsStored /\ [Next]_vars => [Kept]_vars
  BY MovedStopKeepsFailure
<1>4. QED
  BY <1>1, <1>2, <1>3, TypeCorrect, PTL DEF Spec, FailureSurvivesCleanup

-----------------------------------------------------------------------------
(* Stops and starts that take turns.  With two creates of a key the id of  *)
(* the Run is known while the first still launches: a stop may then record *)
(* a worker as stopped that is launched afterwards, and the start may      *)
(* revive the stopped Run.  The properties below are false of such         *)
(* behaviours.  A create that recovers a launch that still goes on is left *)
(* out too, as its runtime stop does not end that launch.                  *)

StartCalls == {"launch", "saveLaunch", "stream", "artifact", "recoverList",
               "recoverSync", "recoverObserve", "compensateStop",
               "compensateClean", "failSave", "failWorkers", "failRun",
               "failArtifact", "failEvent"}
StopCalls  == {"stopRequest", "stopRuntime", "stopProgress", "stopCleanup",
               "stopFinal"}
GetCalls   == {"getSync", "getObserve"}

(* While a create has the workers launched, no other create and no stop is *)
(* under way.                                                              *)
LaunchesAlone ==
  \A c \in Creates : pc[c] = "launch" =>
    \A h \in Handlers \ {c} : pc[h] \notin StartCalls \cup StopCalls

(* While a stop is under way, no start is.                                 *)
NoStart    == \A c \in Creates : pc[c] \notin StartCalls
StopsAlone == (\E h \in Stops : pc[h] \in StopCalls) => NoStart

(* A Run that one create makes keeps both: nobody knows its id before that *)
(* create is answered.                                                     *)
OneCreate == \A c, d \in Creates : c = d

OwnCalls ==
  \A h \in Handlers : /\ pc[h] \in StartCalls => h \in Creates
                      /\ pc[h] \in StopCalls => h \in Stops
                      /\ pc[h] \in GetCalls => h \in Gets

(* The only start is over before any request for the Run is made.          *)
Over    == \A c \in Creates : pc[c] = "done"
Awaited == (RunIDKnown \/ \E h \in Handlers : pc[h] \in StopCalls \cup GetCalls) => Over

(* Nothing runs, and nothing is to be launched any more.                   *)
Still ==
  /\ created
  /\ \A w \in Workers : exec[w] # "running"
  /\ \A c \in Creates : pc[c] # "launch"

(* What is recorded, or about to be recorded, of a Run that is still: the  *)
(* stopped lifecycle of the Run or of a worker, a runtime stop that went   *)
(* well.                                                                   *)
AfterStop == {"stopProgress", "stopCleanup", "stopFinal", "compensateClean",
              "failSave", "failWorkers"}
RecordsStopped ==
  \/ run.lifecycle = "stopped"
  \/ \E w \in Workers : worker[w].lifecycle = "stopped"
  \/ \E h \in Handlers, w \in Workers : local[h].plan[w].lifecycle = "stopped"
HasStopped == \E h \in Handlers : pc[h] \in AfterStop /\ local[h].stop = "ok"

StoppedIsStill == RecordsStopped \/ HasStopped => Still

CleanedUp ==
  run.lifecycle = "stopped" =>
    /\ NoStart
    /\ run.cleanup = "completed"
    /\ \A w \in Workers : worker[w].cleanup = "completed"

(* A handler's step touches what no other handler holds or was answered.   *)
LEMMA StepKeepsOthers ==
  ASSUME TypeOK, NEW h \in Handlers, HandlerStep(h), NEW g \in Handlers, g # h
  PROVE  local'[g] = local[g] /\ reply'[g] = reply[g]
<1>0. local \in [Handlers -> LocalRecord] /\ DOMAIN reply = Handlers
  BY DEF TypeOK, RequestTypeOK
<1>a. ASSUME NEW status, Answer(h, status)
      PROVE  local'[g] = local[g] /\ reply'[g] = reply[g]
  BY <1>0, <1>a DEF Answer
<1> USE DEF Hold
<1>1. CASE CreateStep(h)
  BY <1>0, <1>a, <1>1
     DEF CreateStep, CreateRun, InsertRun, RetryStaleRun, ReplayRun,
         LaunchWorker, SaveLaunch, SetStreaming, SaveArtifact
<1>2. CASE RecoverStep(h)
  BY <1>0, <1>2 DEF RecoverStep, RecoverList, RecoverSync, RecoverObserve
<1>3. CASE FailStep(h)
  BY <1>0, <1>a, <1>3
     DEF FailStep, CompensateStop, CompensateClean, FailSaveLaunch, FailWorker,
         FailRun, FailArtifact, FailEvent
<1>4. CASE DispatchStep(h)
  BY <1>0, <1>a, <1>4
     DEF DispatchStep, ListIntents, Publish, MarkPublished, MarkFailed, Mark
<1>5. CASE RunStopStep(h)
  BY <1>0, <1>a, <1>5
     DEF RunStopStep, StopRead, StopRequest, StopRuntime, StopProgress,
         StopCleanup, StopFinal, StopStep
<1>6. CASE GetStep(h)
  BY <1>0, <1>6 DEF GetStep, GetRead, GetSync, GetObserve, ListEvents
<1>7. CASE IngestStep(h)
  BY <1>0, <1>a, <1>7 DEF IngestStep, IngestRead, IngestPublish, IngestCount
<1>8. QED
  BY <1>1, <1>2, <1>3, <1>4, <1>5, <1>6, <1>7 DEF HandlerStep

(* Which call follows which: a handler that is done makes no more, only a  *)
(* create starts the Run, and a stop or a read needs the Run's id.         *)
LEMMA HandlerMoves ==
  ASSUME TypeOK, NEW h \in Handlers, HandlerStep(h)
  PROVE  /\ pc[h] # "done"
         /\ pc'[h] \in StartCalls =>
              pc[h] \in StartCalls \/ (pc[h] = "idle" /\ h \in Creates)
         /\ pc'[h] \in StopCalls =>
              pc[h] \in StopCalls \/ (h \in Stops /\ RunIDKnown)
         /\ pc'[h] \in GetCalls =>
              pc[h] \in GetCalls \/ (h \in Gets /\ RunIDKnown)
<1>0. pc \in [Handlers -> Labels]
  BY DEF TypeOK, RequestTypeOK
<1>a. ASSUME NEW status, Answer(h, status) PROVE pc'[h] \in {"idle", "done"}
  BY <1>0, <1>a DEF Answer
<1>b. ASSUME NEW label, Goto(h, label) PROVE pc'[h] = label
  BY <1>0, <1>b DEF Goto
<1> USE DEF StartCalls, StopCalls, GetCalls
<1>1. CASE CreateStep(h)
  BY <1>a, <1>b, <1>1
     DEF CreateStep, CreateRun, InsertRun, RetryStaleRun, ReplayRun,
         LaunchWorker, SaveLaunch, SetStreaming, SaveArtifact
<1>2. CASE RecoverStep(h)
  BY <1>b, <1>2 DEF RecoverStep, RecoverList, RecoverSync, RecoverObserve
<1>3. CASE FailStep(h)
  BY <1>a, <1>b, <1>3
     DEF FailStep, CompensateStop, CompensateClean, FailSaveLaunch, FailWorker,
         FailRun, FailArtifact, FailEvent
<1>4. CASE DispatchStep(h)
  BY <1>a, <1>b, <1>4
     DEF DispatchStep, ListIntents, Publish, MarkPublished, MarkFailed, Mark
<1>5. CASE RunStopStep(h)
  BY <1>a, <1>b, <1>5
     DEF RunStopStep, StopRead, StopRequest, StopRuntime, StopProgress,
         StopCleanup, StopFinal, StopStep
<1>6. CASE GetStep(h)
  BY <1>b, <1>6 DEF GetStep, GetRead, GetSync, GetObserve, ListEvents
<1>7. CASE IngestStep(h)
  BY <1>a, <1>b, <1>7 DEF IngestStep, IngestRead, IngestPublish, IngestCount
<1>8. QED
  BY <1>1, <1>2, <1>3, <1>4, <1>5, <1>6, <1>7 DEF HandlerStep

(* The first call of a create is store.CreateRun.                          *)
LEMMA CreateBegins ==
  ASSUME NEW h \in Creates, pc[h] = "idle", HandlerStep(h)
  PROVE  CreateRun(h)
<1>1. h \notin Stops /\ h \notin Gets /\ h \notin Ingests
  BY HandlersAssumption
<1>2. ~RecoverStep(h) /\ ~FailStep(h) /\ ~DispatchStep(h)
  BY DEF RecoverStep, RecoverList, RecoverSync, RecoverObserve, FailStep,
         CompensateStop, CompensateClean, FailSaveLaunch, FailWorker, FailRun,
         FailArtifact, FailEvent, DispatchStep, ListIntents, Publish,
         MarkPublished, MarkFailed, Mark
<1>3. ~RunStopStep(h) /\ ~GetStep(h) /\ ~IngestStep(h)
  BY <1>1 DEF RunStopStep, StopRead, StopRequest, StopRuntime, StopProgress,
              StopCleanup, StopFinal, StopStep, GetStep, GetRead, GetSync,
              GetObserve, ListEvents, IngestStep, IngestRead, IngestPublish,
              IngestCount
<1>4. CreateStep(h)
  BY <1>2, <1>3 DEF HandlerStep
<1>5. QED
  BY <1>4 DEF CreateStep, LaunchWorker, SaveLaunch, SetStreaming, SaveArtifact

(* A create goes to the launch only of a Run it makes, and is answered as  *)
(* it ends.                                                                *)
LEMMA CreateMoves ==
  ASSUME TypeOK, NEW h \in Creates, HandlerStep(h)
  PROVE  /\ pc'[h] # "idle"
         /\ pc'[h] = "launch" => pc[h] = "launch" \/ ~created
         /\ reply'[h] # reply[h] => pc'[h] = "done"
<1>0. /\ h \in Handlers /\ h \notin Pollers
      /\ h \notin Stops /\ h \notin Gets /\ h \notin Ingests
      /\ pc \in [Handlers -> Labels]
  BY HandlersAssumption DEF Handlers, TypeOK, RequestTypeOK
<1>a. ASSUME NEW status, Answer(h, status) PROVE pc'[h] = "done"
  BY <1>0, <1>a DEF Answer
<1>b. ASSUME NEW label, Goto(h, label) PROVE pc'[h] = label
  BY <1>0, <1>b DEF Goto
<1>1. CASE CreateStep(h)
  BY <1>0, <1>a, <1>b, <1>1
     DEF CreateStep, CreateRun, InsertRun, RetryStaleRun, ReplayRun,
         LaunchWorker, SaveLaunch, SetStreaming, SaveArtifact
<1>2. CASE RecoverStep(h)
  BY <1>0, <1>b, <1>2 DEF RecoverStep, RecoverList, RecoverSync, RecoverObserve
<1>3. CASE FailStep(h)
  BY <1>0, <1>a, <1>b, <1>3
     DEF FailStep, CompensateStop, CompensateClean, FailSaveLaunch, FailWorker,
         FailRun, FailArtifact, FailEvent
<1>4. CASE DispatchStep(h)
  BY <1>0, <1>a, <1>b, <1>4
     DEF DispatchStep, ListIntents, Publish, MarkPublished, MarkFailed, Mark
<1>5. CASE RunStopStep(h)
  BY <1>0, <1>a, <1>b, <1>5
     DEF RunStopStep, StopRead, StopRequest, StopRuntime, StopProgress,
         StopCleanup, StopFinal, StopStep
<1>6. CASE GetStep(h)
  BY <1>0, <1>b, <1>6 DEF GetStep, GetRead, GetSync, GetObserve, ListEvents
<1>7. CASE IngestStep(h)
  BY <1>0, <1>a, <1>b, <1>7
     DEF IngestStep, IngestRead, IngestPublish, IngestCount
<1>8. QED
  BY <1>0, <1>1, <1>2, <1>3, <1>4, <1>5, <1>6, <1>7 DEF HandlerStep

(* A step that is no handler's moves a handler only to where it ends, and  *)
(* empties its hands or leaves them.                                       *)
LEMMA OtherMoves ==
  ASSUME TypeOK, [Next]_vars, ~ \E h \in Handlers : HandlerStep(h),
         NEW g \in Handlers
  PROVE  /\ pc'[g] = pc[g] \/ pc'[g] = "done" \/ (g \in Pollers /\ pc'[g] = "idle")
         /\ local'[g] \in {local[g], Blank}
         /\ UNCHANGED <<run, worker, reply>>
<1>1. CASE (\E w \in Workers : WorkerExit(w)) \/ MinutePasses
  BY <1>1 DEF WorkerExit, MinutePasses, request, store
<1>2. CASE Crash
  BY <1>2 DEF Crash, store
<1>3. CASE UNCHANGED vars
  BY <1>3 DEF vars, request, store
<1>4. QED
  BY <1>1, <1>2, <1>3 DEF Next

(* ... and writes no record.                                               *)
LEMMA OthersWriteNothing ==
  ASSUME [Next]_vars, ~ \E h \in Handlers : HandlerStep(h)
  PROVE  UNCHANGED <<run, worker>>
<1>1. CASE Next
  BY <1>1 DEF Next, WorkerExit, MinutePasses, Crash, store
<1>2. CASE UNCHANGED vars
  BY <1>2 DEF vars, store
<1>3. QED
  BY <1>1, <1>2

(* Each request makes the calls of its kind.                               *)
LEMMA OwnCallsKept ==
  ASSUME TypeOK, OwnCalls, [Next]_vars
  PROVE  OwnCalls'
<1> SUFFICES ASSUME NEW g \in Handlers
             PROVE  /\ pc'[g] \in StartCalls => g \in Creates
                    /\ pc'[g] \in StopCalls => g \in Stops
                    /\ pc'[g] \in GetCalls => g \in Gets
  BY DEF OwnCalls
<1>1. CASE pc'[g] = pc[g] \/ pc'[g] \in {"idle", "done"}
  BY <1>1 DEF OwnCalls, StartCalls, StopCalls, GetCalls
<1>2. ASSUME NEW h \in Handlers, HandlerStep(h), pc'[g] # pc[g] PROVE h = g
  BY <1>2, StepMovesItself
<1>3. CASE HandlerStep(g)
  BY <1>3, HandlerMoves DEF OwnCalls
<1>4. QED
  BY <1>1, <1>2, <1>3, OtherMoves

(* What is over stays over.                                                *)
LEMMA OverStays ==
  ASSUME TypeOK, Over, [Next]_vars
  PROVE  Over'
<1> SUFFICES ASSUME NEW c \in Creates PROVE pc'[c] = "done"
  BY DEF Over
<1>1. c \in Handlers /\ pc[c] = "done" /\ c \notin Pollers
  BY HandlersAssumption DEF Over, Handlers
<1>2. CASE \E h \in Handlers : HandlerStep(h)
  BY <1>1, <1>2, StepMovesItself, HandlerMoves
<1>3. CASE ~ \E h \in Handlers : HandlerStep(h)
  BY <1>1, <1>3, OtherMoves
<1>4. QED
  BY <1>2, <1>3

(* The start of the only create is over before a request for the Run.      *)
LEMMA AwaitedKept ==
  ASSUME OneCreate, TypeOK, Awaited, [Next]_vars
  PROVE  Awaited'
<1>1. ASSUME NEW c \in Creates, reply'[c] = "ok"
      PROVE  Over'
  <2>1. c \in Handlers
    BY DEF Handlers
  <2>2. CASE reply[c] = "ok"
    BY <2>2, OverStays DEF Awaited, RunIDKnown
  <2>3. CASE reply[c] # "ok"
    <3>1. PICK h \in Handlers : HandlerStep(h)
      BY <1>1, <2>1, <2>3, OtherMoves
    <3>2. h = c
      BY <1>1, <2>1, <2>3, <3>1, StepKeepsOthers
    <3>3. pc'[c] = "done"
      BY <1>1, <2>3, <3>1, <3>2, CreateMoves
    <3>4. QED
      BY <3>3 DEF OneCreate, Over
  <2>4. QED
    BY <2>2, <2>3
<1>2. ASSUME NEW g \in Handlers, pc'[g] \in StopCalls \cup GetCalls
      PROVE  Over'
  <2>1. CASE pc[g] \in StopCalls \cup GetCalls \/ RunIDKnown
    BY <2>1, OverStays DEF Awaited
  <2>2. CASE pc[g] \notin StopCalls \cup GetCalls
    <3>1. PICK h \in Handlers : HandlerStep(h)
      BY <1>2, <2>2, OtherMoves DEF StopCalls, GetCalls
    <3>2. h = g
      BY <1>2, <2>2, <3>1, StepMovesItself
    <3>3. RunIDKnown
      BY <1>2, <2>2, <3>1, <3>2, HandlerMoves
    <3>4. QED
      BY <2>1, <3>3
  <2>3. QED
    BY <2>1, <2>2
<1>3. QED
  BY <1>1, <1>2 DEF Awaited, RunIDKnown

(* Before the Run is created no request has got anywhere.                  *)
NothingBefore ==
  ~created =>
    /\ \A h \in Handlers : pc[h] \in {"idle", "done"} /\ reply[h] # "ok"
    /\ \A w \in Workers : exec[w] # "running" /\ worker[w].frames = 0

(* ... nor at the start.                                                   *)
LEMMA StartsWithNothing == Init => NothingBefore
<1>1. PlannedWorker \in WorkerRecord /\ PlannedWorker.frames = 0
  BY FreshRecordsType DEF PlannedWorker
<1>2. EnsureWorkerState(PlannedWorker).frames = 0
  BY <1>1 DEF EnsureWorkerState, WorkerRecord
<1>3. QED
  BY <1>2 DEF Init, NothingBefore

(* A Run that was made stays made.                                         *)
LEMMA CreatedStays ==
  ASSUME [Next]_vars, created
  PROVE  created'
<1>1. CASE \E h \in Handlers : CreateRun(h)
  BY <1>1 DEF CreateRun, InsertRun, RetryStaleRun, ReplayRun
<1>2. CASE ~ \E h \in Handlers : CreateRun(h)
  BY <1>2, OnlyCreateLaunches
<1>3. QED
  BY <1>1, <1>2

(* Until the Run is created, a request can only be refused.                *)
LEMMA RefusedBefore ==
  ASSUME TypeOK, NothingBefore, ~created, ~created', NEW h \in Handlers,
         HandlerStep(h)
  PROVE  Answer(h, "error") /\ UNCHANGED <<exec, worker>>
<1>1. /\ \A g \in Handlers : pc[g] \in {"idle", "done"} /\ reply[g] # "ok"
      /\ \A w \in Workers : exec[w] # "running"
      /\ ~RunIDKnown
  BY DEF NothingBefore, RunIDKnown, Handlers
<1>2. pc[h] = "idle"
  BY <1>1, HandlerMoves
<1>3. CASE CreateStep(h)
  <2>1. CreateRun(h)
    BY <1>2, <1>3 DEF CreateStep, LaunchWorker, SaveLaunch, SetStreaming,
                      SaveArtifact
  <2>2. QED
    BY <2>1 DEF CreateRun, InsertRun, RetryStaleRun, ReplayRun, outside
<1>4. ~RecoverStep(h) /\ ~FailStep(h) /\ ~DispatchStep(h)
  BY <1>2 DEF RecoverStep, RecoverList, RecoverSync, RecoverObserve, FailStep,
              CompensateStop, CompensateClean, FailSaveLaunch, FailWorker,
              FailRun, FailArtifact, FailEvent, DispatchStep, ListIntents,
              Publish, MarkPublished, MarkFailed, Mark
<1>5. ~RunStopStep(h) /\ ~GetStep(h)
  BY <1>1, <1>2
     DEF RunStopStep, StopRead, StopRequest, StopRuntime, StopProgress,
         StopCleanup, StopFinal, StopStep, GetStep, GetRead, GetSync,
         GetObserve, ListEvents
<1>6. ~IngestStep(h)
  BY <1>1, <1>2 DEF IngestStep, IngestRead, IngestPublish, IngestCount
<1>7. QED
  BY <1>3, <1>4, <1>5, <1>6 DEF HandlerStep

(* So nothing is recorded, answered or run before.                         *)
LEMMA NothingBeforeKept ==
  ASSUME TypeOK, NothingBefore, [Next]_vars
  PROVE  NothingBefore'
<1> SUFFICES ASSUME ~created'
             PROVE  /\ \A g \in Handlers : /\ pc'[g] \in {"idle", "done"}
                                           /\ reply'[g] # "ok"
                    /\ \A w \in Workers : /\ exec'[w] # "running"
                                          /\ worker'[w].frames = 0
  BY DEF NothingBefore
<1>0. /\ pc \in [Handlers -> Labels]
      /\ reply \in [Handlers -> {"none", "ok", "error"}]
  BY DEF TypeOK, RequestTypeOK
<1>1. ~created
  BY CreatedStays
<1>2. /\ \A g \in Handlers : pc[g] \in {"idle", "done"} /\ reply[g] # "ok"
      /\ \A w \in Workers : exec[w] # "running" /\ worker[w].frames = 0
  BY <1>1 DEF NothingBefore
<1>3. CASE \E h \in Handlers : HandlerStep(h)
  <2>1. PICK h \in Handlers : HandlerStep(h)
    BY <1>3
  <2>2. Answer(h, "error") /\ UNCHANGED <<exec, worker>>
    BY <1>1, <2>1, RefusedBefore
  <2>3. ASSUME NEW g \in Handlers
        PROVE  pc'[g] \in {"idle", "done"} /\ reply'[g] # "ok"
    BY <1>0, <1>2, <2>2 DEF Answer
  <2>4. QED
    BY <1>2, <2>2, <2>3
<1>4. CASE ~ \E h \in Handlers : HandlerStep(h)
  <2>1. UNCHANGED worker /\ \A w \in Workers : exec'[w] = exec[w]
    <3>1. CASE Next
      BY <1>2, <1>4, <3>1 DEF Next, WorkerExit, MinutePasses, Crash, store, outside
    <3>2. CASE UNCHANGED vars
      BY <3>2 DEF vars, store, outside
    <3>3. QED
      BY <3>1, <3>2
  <2>2. ASSUME NEW g \in Handlers
        PROVE  pc'[g] \in {"idle", "done"} /\ reply'[g] # "ok"
    <3>1. pc'[g] \in {"idle", "done"}
      BY <1>2, <1>4, OtherMoves
    <3>2. UNCHANGED reply
      BY <1>4, OtherMoves
    <3>3. QED
      BY <1>2, <3>1, <3>2
  <2>3. QED
    BY <1>2, <2>1, <2>2
<1>5. QED
  BY <1>3, <1>4

(* A container starts to run only in a launch.                             *)
LEMMA OnlyLaunchRuns ==
  ASSUME TypeOK, [Next]_vars, NEW w \in Workers, exec'[w] = "running"
  PROVE  \/ exec[w] = "running"
         \/ \E h \in Handlers : pc[h] = "launch"
<1>0. exec \in [Workers -> Resource]
  BY DEF TypeOK, OutsideTypeOK
<1>a. ASSUME NEW some, StopContainers(some) \/ RemoveContainers(some)
      PROVE  exec[w] = "running"
  BY <1>0, <1>a DEF StopContainers, RemoveContainers
<1>1. ASSUME NEW h \in Handlers, HandlerStep(h), pc[h] # "launch"
      PROVE  exec[w] = "running"
  <2>1. CASE CreateStep(h)
    BY <1>1, <2>1 DEF CreateStep, CreateRun, LaunchWorker, SaveLaunch,
                      SetStreaming, SaveArtifact, outside
  <2>2. CASE RecoverStep(h)
    BY <2>2 DEF RecoverStep, RecoverList, RecoverSync, RecoverObserve, outside
  <2>3. CASE FailStep(h)
    BY <1>a, <2>3 DEF FailStep, CompensateStop, CompensateClean,
                FailSaveLaunch, FailWorker, FailRun, FailArtifact, FailEvent,
                outside
  <2>4. CASE DispatchStep(h)
    BY <2>4 DEF DispatchStep, ListIntents, Publish, MarkPublished, MarkFailed,
                Mark, outside
  <2>5. CASE RunStopStep(h)
    BY <1>a, <2>5 DEF RunStopStep, StopRead, StopRequest, StopRuntime,
                StopProgress, StopCleanup, StopFinal, StopStep, outside
  <2>6. CASE GetStep(h)
    BY <2>6 DEF GetStep, GetRead, GetSync, GetObserve, ListEvents, outside
  <2>7. CASE IngestStep(h)
    BY <2>7 DEF IngestStep, IngestRead, IngestPublish, IngestCount, outside
  <2>8. QED
    BY <1>1, <2>1, <2>2, <2>3, <2>4, <2>5, <2>6, <2>7 DEF HandlerStep
<1>2. CASE \E v \in Workers : WorkerExit(v)
  BY <1>0, <1>2 DEF WorkerExit
<1>3. CASE MinutePasses \/ Crash
  BY <1>3 DEF MinutePasses, Crash, outside
<1>4. CASE UNCHANGED vars
  BY <1>4 DEF vars, outside
<1>5. QED
  BY <1>1, <1>2, <1>3, <1>4 DEF Next

(* A Run that is still stays so.                                           *)
LEMMA StillStays ==
  ASSUME TypeOK, OwnCalls, Still, [Next]_vars
  PROVE  Still'
<1>1. ASSUME NEW w \in Workers PROVE exec'[w] # "running"
  BY OnlyLaunchRuns DEF Still, OwnCalls, StartCalls
<1>2. ASSUME NEW c \in Creates PROVE pc'[c] # "launch"
  <2>1. c \in Handlers /\ pc[c] # "launch" /\ created /\ c \notin Pollers
    BY HandlersAssumption DEF Still, Handlers
  <2>2. CASE HandlerStep(c)
    BY <2>1, <2>2, CreateMoves
  <2>3. ASSUME NEW h \in Handlers, HandlerStep(h), h # c
        PROVE  pc'[c] = pc[c]
    BY <2>1, <2>3, StepMovesItself
  <2>4. QED
    BY <2>1, <2>2, <2>3, OtherMoves
<1>3. created'
  BY CreatedStays DEF Still
<1>4. QED
  BY <1>1, <1>2, <1>3 DEF Still
-----------------------------------------------------------------------------
(* Which calls of the store record the stopped lifecycle.                  *)

(* Of ApplyStopTransition only the one that settles.                       *)
LEMMA StopWorkerLifecycle ==
  ASSUME NEW w \in WorkerRecord, NEW t \in StopTransition, ~Settles(t)
  PROVE  /\ StopWorkerMemory(w, t).lifecycle = w.lifecycle
         /\ StopWorkerPostgres(w, t).lifecycle = w.lifecycle
<1> DEFINE ensured == EnsureWorkerState(w)
           cleaned == ApplyCleanupOutcome(ensured, t.cleanup)
           judged  == IF ~t.stopFailure THEN cleaned
                      ELSE [cleaned EXCEPT
                             !.condition = IF t.stopConfirmed THEN "failed"
                                           ELSE Degrade(cleaned.condition)]
<1>1. ensured \in WorkerRecord /\ ensured.lifecycle = w.lifecycle
  BY EnsureWorkerStateType DEF EnsureWorkerState, WorkerRecord
<1> HIDE DEF ensured
<1>2. cleaned \in WorkerRecord /\ cleaned.lifecycle = w.lifecycle
  <2>1. cleaned.lifecycle = w.lifecycle
    BY <1>1 DEF ApplyCleanupOutcome, WorkerRecord
  <2>2. QED
    BY <1>1, <2>1, ApplyCleanupOutcomeType DEF StopTransition
<1> HIDE DEF cleaned
<1>3. judged.lifecycle = w.lifecycle
  BY <1>2 DEF WorkerRecord
<1>4. StopWorkerMemory(w, t) = judged
  BY DEF StopWorkerMemory, ensured, cleaned
<1>5. StopWorkerPostgres(w, t).lifecycle = w.lifecycle
  BY DEF StopWorkerPostgres, WorkerRecord
<1>6. QED
  BY <1>3, <1>4, <1>5

(* Nor does any other transition leave the Run stopped.                    *)
LEMMA StopRunLifecycle ==
  ASSUME NEW row \in RunRecord, NEW table, NEW t \in StopTransition, ~Settles(t)
  PROVE  StopRunIn(Adapter, row, table, t).lifecycle # "stopped"
<1>1. StopRunMemory(row, table, t).lifecycle # "stopped"
  <2> DEFINE held == [[row EXCEPT !.cleanup = t.cleanup] EXCEPT
                        !.phase = "stopping",
                        !.condition = IF row.condition = "failed" THEN "failed"
                                      ELSE "degraded"]
  <2>1. held \in RunRecord /\ held.phase = "stopping"
    BY DEF StopTransition, RunRecord, RunPhase, Condition
  <2>2. StopRunMemory(row, table, t) =
          [held EXCEPT !.lifecycle = ProjectRunLifecycle(held.phase)]
    BY DEF StopRunMemory
  <2> HIDE DEF held
  <2>3. QED
    BY <2>1, <2>2 DEF RunRecord, ProjectRunLifecycle
<1>2. StopRunPostgres(row, table, t).lifecycle # "stopped"
  BY DEF StopRunPostgres, ProjectRunLifecycle
<1>3. QED
  BY <1>1, <1>2 DEF StopRunIn

(* A materialized launch has the lifecycle, the frames and the observed    *)
(* lifecycle of the record.                                                *)
LEMMA MaterializeKeeps ==
  ASSUME NEW record \in WorkerRecord
  PROVE  /\ MaterializeLaunch(record).lifecycle = record.lifecycle
         /\ MaterializeLaunch(record).frames = record.frames
         /\ MaterializeLaunch(record).observed = record.observed
<1> DEFINE e == EnsureWorkerState(record)
<1>1. e \in WorkerRecord
  BY EnsureWorkerStateType
<1>2. /\ e.lifecycle = record.lifecycle /\ e.frames = record.frames
      /\ e.observed = record.observed
  BY DEF EnsureWorkerState, WorkerRecord
<1> HIDE DEF e
<1>3. \A disposition :
        /\ ApplyLaunchOutcome(e, disposition).lifecycle = e.lifecycle
        /\ ApplyLaunchOutcome(e, disposition).frames = e.frames
        /\ ApplyLaunchOutcome(e, disposition).observed = e.observed
  BY <1>1 DEF ApplyLaunchOutcome, WorkerRecord
<1>4. QED
  BY <1>2, <1>3 DEF MaterializeLaunch, e

(* SaveLaunch keeps the lifecycle of the record, or the stored one.        *)
LEMMA SaveLaunchLifecycle ==
  ASSUME NEW table \in [Workers -> WorkerRecord],
         NEW records \in [Workers -> WorkerRecord], NEW w \in Workers
  PROVE  SaveLaunchIn(Adapter, table, records)[w].lifecycle
           \in {table[w].lifecycle, records[w].lifecycle}
<1> DEFINE m == MaterializeLaunch(records[w])
<1>1. m \in WorkerRecord /\ m.lifecycle = records[w].lifecycle
  BY MaterializeLaunchType, MaterializeKeeps
<1> HIDE DEF m
<1>2. MergeLaunchMemory(table[w], records[w]).lifecycle = m.lifecycle
  BY DEF MergeLaunchMemory, m
<1>3. MergeLaunchPostgres(table[w], records[w]).lifecycle
        \in {table[w].lifecycle, m.lifecycle}
  BY <1>1 DEF MergeLaunchPostgres, WorkerRecord, m
<1>4. QED
  BY <1>1, <1>2, <1>3 DEF SaveLaunchIn

(* An observation keeps the lifecycle and the frames, and of a worker that *)
(* carries its state the cleanup disposition.                              *)
LEMMA ObserveWorkerKeeps ==
  ASSUME NEW w \in WorkerRecord, NEW o \in ObservedState, NEW id \in BOOLEAN
  PROVE  /\ ApplyObserved(w, o, id).lifecycle = w.lifecycle
         /\ ApplyObserved(w, o, id).frames = w.frames
         /\ ObserveWorker(w, o, id).lifecycle = w.lifecycle
         /\ ObserveWorker(w, o, id).frames = w.frames
         /\ w.phase # "unset" => ObserveWorker(w, o, id).cleanup = w.cleanup
<1> DEFINE a == ApplyObserved(w, o, id)
           e == EnsureWorkerState(a)
<1>1. /\ a \in WorkerRecord /\ a.lifecycle = w.lifecycle
      /\ a.frames = w.frames
      /\ a.phase = w.phase /\ a.cleanup = w.cleanup
  BY ApplyObservedType DEF ApplyObserved, WorkerRecord
<1>2. ObserveWorker(w, o, id) = ApplyRuntimeObservation(e, o)
  BY DEF ObserveWorker
<1> HIDE DEF a
<1>3. /\ e \in WorkerRecord /\ e.lifecycle = a.lifecycle /\ e.frames = a.frames
      /\ a.phase # "unset" => e.cleanup = a.cleanup
  BY <1>1, EnsureWorkerStateType DEF EnsureWorkerState, WorkerRecord
<1> HIDE DEF e
<1>4. /\ ApplyRuntimeObservation(e, o).lifecycle = e.lifecycle
      /\ ApplyRuntimeObservation(e, o).frames = e.frames
      /\ ApplyRuntimeObservation(e, o).cleanup = e.cleanup
  BY <1>3 DEF ApplyRuntimeObservation, WorkerRecord
<1>5. QED
  BY <1>1, <1>2, <1>3, <1>4 DEF a

(* Whether the Run or a worker, or what a handler is to save, is stopped:  *)
(* written so that a step can be judged field by field.                    *)
LEMMA NothingStoppedYet ==
  ~RecordsStopped <=>
    /\ run.lifecycle # "stopped"
    /\ \A w \in Workers : worker[w].lifecycle # "stopped"
    /\ \A h \in Handlers, w \in Workers : local[h].plan[w].lifecycle # "stopped"
BY DEF RecordsStopped

(* As long as no runtime stop has worked, no failure outcome is stopped.   *)
LEMMA UncompensatedFails ==
  ASSUME ~HasStopped, NEW h \in Handlers, pc[h] \in {"failSave", "failWorkers"},
         NEW w \in Workers
  PROVE  FailedLifecycle(h, w) = "failed"
BY DEF HasStopped, AfterStop, FailedLifecycle, Compensated

(* ... and a stop's transition does not settle.                            *)
LEMMA UnfinishedStop ==
  ASSUME TypeOK, ~HasStopped, NEW h \in Handlers, RunStopStep(h)
  PROVE  \/ UNCHANGED <<run, worker>>
         \/ \E t \in StopTransition : ApplyStop(t) /\ ~Settles(t)
<1>1. CASE StopRead(h) \/ StopRuntime(h) \/ StopCleanup(h)
  BY <1>1 DEF StopRead, StopRuntime, StopCleanup, store
<1>2. CASE StopRequest(h)
  <2> DEFINE t == StopFact("requested", "ok", "ok")
  <2>1. t \in StopTransition /\ ~Settles(t)
    BY StopFactType DEF Cleanup, StopFact, Settles
  <2> HIDE DEF t
  <2>2. ApplyStop(t) \/ UNCHANGED <<run, worker>>
    BY <1>2 DEF StopRequest, StopStep, t
  <2>3. QED
    BY <2>1, <2>2
<1>3. CASE StopProgress(h)
  <2> DEFINE t == StopFact("in_progress", local[h].stop, "ok")
  <2>1. t \in StopTransition /\ ~Settles(t)
    <3>1. "in_progress" \in Cleanup
      BY DEF Cleanup
    <3>2. t.cleanup = "in_progress"
      BY DEF StopFact
    <3>3. QED
      BY <3>1, <3>2, StopFactType DEF Settles
  <2> HIDE DEF t
  <2>2. ApplyStop(t) \/ UNCHANGED <<run, worker>>
    BY <1>3 DEF StopProgress, StopStep, t
  <2>3. QED
    BY <2>1, <2>2
<1>4. CASE StopFinal(h)
  <2> DEFINE t == StopFact(CleanupOf(local[h].clean), local[h].stop,
                           local[h].clean)
  <2>1. CleanupOf(local[h].clean) \in Cleanup
    BY DEF CleanupOf, Cleanup
  <2>2. local[h].stop # "ok"
    BY <1>4 DEF StopFinal, StopStep, HasStopped, AfterStop
  <2>3. t \in StopTransition /\ ~Settles(t)
    <3>1. t.stopFailure
      BY <2>2 DEF StopFact
    <3>2. QED
      BY <2>1, <3>1, StopFactType DEF Settles
  <2> HIDE DEF t
  <2>4. ApplyStop(t) \/ UNCHANGED <<run, worker>>
    BY <1>4 DEF StopFinal, StopStep, t
  <2>5. QED
    BY <2>3, <2>4
<1>5. QED
  BY <1>1, <1>2, <1>3, <1>4 DEF RunStopStep

(* Nothing is recorded as stopped before a runtime stop has worked.        *)
LEMMA StoresNothingStopped ==
  ASSUME TypeOK, ~RecordsStopped, ~HasStopped, NEW h \in Handlers,
         HandlerStep(h)
  PROVE  /\ run'.lifecycle # "stopped"
         /\ \A w \in Workers : worker'[w].lifecycle # "stopped"
<1>0. /\ run.lifecycle # "stopped"
      /\ \A w \in Workers : worker[w].lifecycle # "stopped"
      /\ \A w \in Workers : local[h].plan[w].lifecycle # "stopped"
  BY NothingStoppedYet
<1>a. UNCHANGED worker => \A w \in Workers : worker'[w].lifecycle # "stopped"
  BY <1>0
<1>b. ASSUME NEW records \in [Workers -> WorkerRecord],
             \A w \in Workers : records[w].lifecycle # "stopped",
             worker' = SaveLaunchIn(Adapter, worker, records)
      PROVE  \A w \in Workers : worker'[w].lifecycle # "stopped"
  BY <1>0, <1>b, StoreFields, SaveLaunchLifecycle
<1>c. ASSUME NEW w \in Workers, NEW o \in ObservedState, Observe(w, o)
      PROVE  /\ run'.lifecycle # "stopped"
             /\ \A v \in Workers : worker'[v].lifecycle # "stopped"
  <2>1. run' = ObserveRunIn(Adapter, run, worker')
        /\ worker' = [worker EXCEPT ![w] = ObserveWorker(worker[w], o, o # "missing")]
    BY <1>c DEF Observe
  <2>2. ObserveWorker(worker[w], o, o # "missing").lifecycle = worker[w].lifecycle
    BY StoreFields, ObserveWorkerKeeps
  <2>3. QED
    BY <1>0, <2>1, <2>2, StoreFields, ObserveKeepsLifecycle
<1>1. CASE CreateStep(h)
  <2>1. CASE CreateRun(h)
    <3>1. PlannedWorker \in WorkerRecord /\ PlannedWorker.lifecycle = "starting"
      BY FreshRecordsType DEF PlannedWorker
    <3>2. EnsureWorkerState(PlannedWorker).lifecycle = "starting"
      BY <3>1 DEF EnsureWorkerState, WorkerRecord
    <3>3. QED
      BY <1>0, <2>1, <3>2
         DEF CreateRun, InsertRun, RetryStaleRun, ReplayRun, AdmittedRun
  <2>2. CASE SaveLaunch(h)
    BY <1>0, <1>a, <1>b, <2>2, LocalFields DEF SaveLaunch
  <2>3. CASE SetStreaming(h)
    <3>1. SetRunLifecycleIn(Adapter, run, "streaming").lifecycle = "streaming"
      BY StoreFields, SetRunLifecycleType DEF Lifecycle
    <3>2. QED
      BY <1>0, <1>a, <2>3, <3>1 DEF SetStreaming
  <2>4. CASE LaunchWorker(h) \/ SaveArtifact(h)
    BY <1>0, <2>4 DEF LaunchWorker, SaveArtifact, store
  <2>5. QED
    BY <1>1, <2>1, <2>2, <2>3, <2>4 DEF CreateStep
<1>2. CASE RecoverStep(h)
  <2>1. CASE RecoverObserve(h)
    <3>1. PICK w \in Workers : \/ Observe(w, local[h].seen[w])
                               \/ UNCHANGED <<worker, run>>
      BY <2>1, LocalFields DEF RecoverObserve
    <3>2. QED
      BY <1>0, <1>c, <3>1, LocalFields
  <2>2. QED
    BY <1>0, <1>2, <2>1 DEF RecoverStep, RecoverList, RecoverSync, store
<1>3. CASE FailStep(h)
  <2>1. CASE FailSaveLaunch(h)
    <3> DEFINE failed == [w \in Workers |-> [local[h].plan[w] EXCEPT
                                               !.lifecycle = FailedLifecycle(h, w)]]
    <3>1. /\ failed \in [Workers -> WorkerRecord]
          /\ \A w \in Workers : failed[w].lifecycle # "stopped"
      <4>1. \A w \in Workers : FailedLifecycle(h, w) = "failed"
        BY <2>1, UncompensatedFails DEF FailSaveLaunch
      <4>2. QED
        BY <4>1, LocalFields DEF WorkerRecord, Lifecycle
    <3> HIDE DEF failed
    <3>2. UNCHANGED worker \/ worker' = SaveLaunchIn(Adapter, worker, failed)
      BY <2>1 DEF FailSaveLaunch, failed
    <3>3. UNCHANGED run
      BY <2>1 DEF FailSaveLaunch
    <3>4. QED
      BY <1>0, <1>a, <1>b, <3>1, <3>2, <3>3
  <2>2. CASE FailWorker(h)
    <3>1. PICK w \in Workers :
            \/ UNCHANGED worker
            \/ worker' = [worker EXCEPT ![w].lifecycle = FailedLifecycle(h, w)]
      BY <2>2, LocalFields DEF FailWorker
    <3>2. FailedLifecycle(h, w) = "failed" /\ UNCHANGED run
      BY <2>2, UncompensatedFails DEF FailWorker
    <3>3. QED
      BY <1>0, <3>1, <3>2, StoreFields DEF WorkerRecord
  <2>3. CASE FailRun(h)
    <3>1. SetRunLifecycleIn(Adapter, run, "failed").lifecycle = "failed"
      BY StoreFields, SetRunLifecycleType DEF Lifecycle
    <3>2. QED
      BY <1>0, <1>a, <2>3, <3>1 DEF FailRun
  <2>4. QED
    BY <1>0, <1>3, <2>1, <2>2, <2>3
       DEF FailStep, CompensateStop, CompensateClean, FailArtifact, FailEvent,
           store
<1>4. CASE DispatchStep(h)
  BY <1>0, <1>4 DEF DispatchStep, ListIntents, Publish, MarkPublished,
              MarkFailed, Mark, store
<1>5. CASE RunStopStep(h)
  <2>1. ASSUME NEW t \in StopTransition, ApplyStop(t), ~Settles(t)
        PROVE  /\ run'.lifecycle # "stopped"
               /\ \A w \in Workers : worker'[w].lifecycle = worker[w].lifecycle
    BY <2>1, StoreFields, StopRunLifecycle, StopWorkerLifecycle
       DEF ApplyStop, StopWorkersIn
  <2>2. QED
    BY <1>0, <1>5, <2>1, UnfinishedStop
<1>6. CASE GetStep(h)
  <2>1. CASE GetObserve(h)
    <3>1. PICK w \in Workers : \/ Observe(w, local[h].seen[w])
                               \/ UNCHANGED <<worker, run>>
      BY <2>1, LocalFields DEF GetObserve
    <3>2. QED
      BY <1>0, <1>c, <3>1, LocalFields
  <2>2. QED
    BY <1>0, <1>6, <2>1 DEF GetStep, GetRead, GetSync, ListEvents, store
<1>7. CASE IngestStep(h)
  <2>1. CASE IngestCount(h)
    <3>1. PICK w \in Workers :
            \/ UNCHANGED worker
            \/ worker' = [worker EXCEPT ![w] = CountFrameOf(worker[w])]
      BY <2>1, LocalFields DEF IngestCount
    <3>2. CountFrameOf(worker[w]).lifecycle = "streaming" /\ UNCHANGED run
      BY <2>1, StoreFields DEF IngestCount, CountFrameOf, WorkerRecord
    <3>3. QED
      BY <1>0, <3>1, <3>2, StoreFields
  <2>2. QED
    BY <1>0, <1>7, <2>1 DEF IngestStep, IngestRead, IngestPublish, store
<1>8. QED
  BY <1>1, <1>2, <1>3, <1>4, <1>5, <1>6, <1>7 DEF HandlerStep

(* Where a handler has the record of a worker from that it holds.          *)
Held(h, w) ==
  \/ local'[h].plan[w] \in {local[h].plan[w], PlannedWorker, LaunchedWorker}
  \/ /\ RecoverStep(h)
     /\ \/ local'[h].plan[w] = worker[w]
        \/ \E o \in ObservedState :
             local'[h].plan[w] = ApplyObserved(local[h].plan[w], o, TRUE)

(* Each step leaves it such records.                                       *)
LEMMA HeldRecords ==
  ASSUME TypeOK, NEW h \in Handlers, HandlerStep(h)
  PROVE  \A w \in Workers : Held(h, w)
<1>0. /\ local \in [Handlers -> LocalRecord]
      /\ local[h].plan \in [Workers -> WorkerRecord]
  BY LocalFields DEF TypeOK, RequestTypeOK
<1>a. ASSUME local'[h].plan = local[h].plan
      PROVE  \A w \in Workers : Held(h, w)
  BY <1>0, <1>a DEF Held
<1>b. ASSUME NEW status, Answer(h, status)
      PROVE  \A w \in Workers : Held(h, w)
  BY <1>0, <1>b DEF Answer, Blank, Held
<1>1. CASE CreateStep(h)
  <2>1. CASE LaunchWorker(h)
    <3>1. PICK w \in Workers :
            \/ local'[h].plan = [local[h].plan EXCEPT ![w] = LaunchedWorker]
            \/ local'[h].plan = local[h].plan
      <4>1. PICK w \in Workers :
              \/ local' = [local EXCEPT ![h] = [local[h] EXCEPT
                     !.todo     = local[h].todo \ {w},
                     !.launched = local[h].launched \cup {w},
                     !.plan     = [local[h].plan EXCEPT ![w] = LaunchedWorker]]]
              \/ local' = [local EXCEPT ![h].todo = {}]
        BY <2>1, LocalFields DEF LaunchWorker, Hold
      <4>2. CASE local' = [local EXCEPT ![h].todo = {}]
        BY <1>0, <4>2 DEF LocalRecord
      <4>3. CASE local' = [local EXCEPT ![h] = [local[h] EXCEPT
                     !.todo     = local[h].todo \ {w},
                     !.launched = local[h].launched \cup {w},
                     !.plan     = [local[h].plan EXCEPT ![w] = LaunchedWorker]]]
        BY <1>0, <4>3 DEF LocalRecord
      <4>4. QED
        BY <4>1, <4>2, <4>3
    <3>2. QED
      BY <1>0, <3>1 DEF Held
  <2>2. CASE CreateRun(h)
    BY <1>0, <1>a, <1>b, <2>2
       DEF CreateRun, InsertRun, RetryStaleRun, ReplayRun, LocalRecord
  <2>3. CASE SaveLaunch(h) \/ SetStreaming(h) \/ SaveArtifact(h)
    BY <1>a, <2>3 DEF SaveLaunch, SetStreaming, SaveArtifact
  <2>4. QED
    BY <1>1, <2>1, <2>2, <2>3 DEF CreateStep
<1>2. CASE RecoverStep(h)
  <2>1. CASE RecoverList(h)
    <3>1. local'[h].plan = worker \/ local'[h].plan = local[h].plan
      BY <1>0, <2>1 DEF RecoverList, LocalRecord
    <3>2. QED
      BY <1>0, <1>a, <1>2, <3>1 DEF Held
  <2>2. CASE RecoverObserve(h)
    <3>1. PICK w \in Workers :
            \/ local'[h].plan = [local[h].plan EXCEPT ![w] =
                 ApplyObserved(local[h].plan[w], local[h].seen[w], TRUE)]
            \/ local'[h].plan = local[h].plan
      <4>1. PICK w \in Workers :
              \/ local' = [local EXCEPT ![h] = [local[h] EXCEPT
                              !.todo = local[h].todo \ {w}]]
              \/ local' = [local EXCEPT ![h] = [local[h] EXCEPT
                     !.todo     = local[h].todo \ {w},
                     !.launched = local[h].launched \cup {w},
                     !.plan     = [local[h].plan EXCEPT ![w] =
                        ApplyObserved(local[h].plan[w], local[h].seen[w], TRUE)]]]
        BY <2>2, LocalFields DEF RecoverObserve, Hold
      <4>2. QED
        BY <1>0, <4>1, LocalFields DEF LocalRecord
    <3>2. local[h].seen[w] \in ObservedState
      BY LocalFields
    <3>3. QED
      BY <1>0, <1>2, <3>1, <3>2 DEF Held
  <2>3. CASE RecoverSync(h)
    <3>1. local'[h].plan = local[h].plan
      <4>1. \/ \E seen, todo : local' = [local EXCEPT ![h] = [local[h] EXCEPT
                                          !.seen = seen, !.todo = todo]]
            \/ local' = local
        BY <2>3 DEF RecoverSync, Hold
      <4>2. QED
        BY <1>0, <4>1 DEF LocalRecord
    <3>2. QED
      BY <1>a, <3>1
  <2>4. QED
    BY <1>2, <2>1, <2>2, <2>3 DEF RecoverStep
<1>3. CASE FailStep(h)
  BY <1>0, <1>a, <1>b, <1>3
     DEF FailStep, CompensateStop, CompensateClean, FailSaveLaunch, FailWorker,
         FailRun, FailArtifact, FailEvent, LocalRecord
<1>4. CASE DispatchStep(h)
  <2>1. CASE ListIntents(h)
    BY <1>0, <1>a, <1>b, <2>1 DEF ListIntents, LocalRecord
  <2>2. CASE Publish(h)
    BY <1>0, <1>a, <1>b, <2>2 DEF Publish, Hold, LocalRecord
  <2>3. CASE MarkPublished(h) \/ MarkFailed(h)
    BY <1>a, <2>3 DEF MarkPublished, MarkFailed, Mark
  <2>4. QED
    BY <1>4, <2>1, <2>2, <2>3 DEF DispatchStep
<1>5. CASE RunStopStep(h)
  <2>1. CASE StopRuntime(h) \/ StopCleanup(h)
    BY <1>0, <1>a, <1>b, <2>1 DEF StopRuntime, StopCleanup, LocalRecord
  <2>2. CASE StopRead(h) \/ StopRequest(h) \/ StopProgress(h) \/ StopFinal(h)
    BY <1>a, <1>b, <2>2
       DEF StopRead, StopRequest, StopProgress, StopFinal, StopStep
  <2>3. QED
    BY <1>5, <2>1, <2>2 DEF RunStopStep
<1>6. CASE GetStep(h)
  <2>1. CASE GetSync(h)
    <3>1. local'[h].plan = local[h].plan
      <4>1. \/ \E seen, todo : local' = [local EXCEPT ![h] = [local[h] EXCEPT
                                          !.seen = seen, !.todo = todo]]
            \/ local' = local
        BY <2>1 DEF GetSync, Hold
      <4>2. QED
        BY <1>0, <4>1 DEF LocalRecord
    <3>2. QED
      BY <1>a, <3>1
  <2>0. CASE GetRead(h) \/ ListEvents(h)
    BY <1>0, <1>a, <2>0 DEF GetRead, ListEvents, LocalRecord
  <2>2. CASE GetObserve(h)
    <3>1. \/ UNCHANGED local
          \/ \E w \in Workers :
               local' = [local EXCEPT ![h].todo = local[h].todo \ {w}]
      BY <1>0, <2>2, LocalFields DEF GetObserve
    <3>2. QED
      BY <1>0, <1>a, <3>1 DEF LocalRecord
  <2>3. QED
    BY <1>6, <2>0, <2>1, <2>2 DEF GetStep
<1>7. CASE IngestStep(h)
  BY <1>0, <1>a, <1>b, <1>7
     DEF IngestStep, IngestRead, IngestPublish, IngestCount, LocalRecord
<1>8. QED
  BY <1>1, <1>2, <1>3, <1>4, <1>5, <1>6, <1>7 DEF HandlerStep

(* Nor does a handler get hold of a stopped record.                        *)
LEMMA HoldsNothingStopped ==
  ASSUME TypeOK, ~RecordsStopped, NEW h \in Handlers, HandlerStep(h)
  PROVE  \A w \in Workers : local'[h].plan[w].lifecycle # "stopped"
<1> SUFFICES ASSUME NEW w \in Workers
             PROVE  local'[h].plan[w].lifecycle # "stopped"
  OBVIOUS
<1>1. /\ worker[w].lifecycle # "stopped"
      /\ local[h].plan[w].lifecycle # "stopped"
      /\ local[h].plan[w] \in WorkerRecord
  BY LocalFields, NothingStoppedYet
<1>2. PlannedWorker.lifecycle = "starting" /\ LaunchedWorker.lifecycle = "starting"
  BY DEF LaunchedWorker, PlannedWorker
<1>3. \A o \in ObservedState :
        ApplyObserved(local[h].plan[w], o, TRUE).lifecycle # "stopped"
  BY <1>1, ObserveWorkerKeeps
<1>4. QED
  BY <1>1, <1>2, <1>3, HeldRecords DEF Held

(* The two together, over every step.                                      *)
LEMMA NothingStoppedStays ==
  ASSUME TypeOK, ~RecordsStopped, ~HasStopped, [Next]_vars
  PROVE  ~RecordsStopped'
<1>1. /\ run'.lifecycle # "stopped"
      /\ \A w \in Workers : worker'[w].lifecycle # "stopped"
  <2>1. CASE \E h \in Handlers : HandlerStep(h)
    BY <2>1, StoresNothingStopped
  <2>2. CASE ~ \E h \in Handlers : HandlerStep(h)
    <3>1. UNCHANGED <<run, worker>>
      BY <2>2, OthersWriteNothing
    <3>2. QED
      BY <3>1, NothingStoppedYet
  <2>3. QED
    BY <2>1, <2>2
<1>2. ASSUME NEW g \in Handlers, NEW w \in Workers
      PROVE  local'[g].plan[w].lifecycle # "stopped"
  <2>1. CASE local'[g] = local[g]
    BY <2>1, NothingStoppedYet
  <2>2. CASE local'[g] = Blank
    BY <2>2 DEF Blank, PlannedWorker
  <2>3. CASE HandlerStep(g)
    BY <2>3, HoldsNothingStopped
  <2>4. QED
    BY <2>1, <2>2, <2>3, StepKeepsOthers, OtherMoves
<1>3. QED
  BY <1>1, <1>2 DEF RecordsStopped

(* A handler comes to hold a runtime stop that worked only by making one.  *)
LEMMA StopWorks ==
  ASSUME TypeOK, NEW h \in Handlers, HandlerStep(h), pc'[h] \in AfterStop,
         local'[h].stop = "ok"
  PROVE  \/ pc[h] \in AfterStop /\ local[h].stop = "ok"
         \/ /\ pc[h] \in {"compensateStop", "stopRuntime"}
            /\ StopContainers(Workers)
<1>0. pc \in [Handlers -> Labels] /\ local \in [Handlers -> LocalRecord]
  BY DEF TypeOK, RequestTypeOK
<1>a. ASSUME NEW status, Answer(h, status) PROVE pc'[h] \in {"idle", "done"}
  BY <1>0, <1>a DEF Answer
<1>b. ASSUME NEW label, Goto(h, label) PROVE pc'[h] = label
  BY <1>0, <1>b DEF Goto
<1> USE DEF AfterStop
<1>1. CASE CreateStep(h)
  BY <1>a, <1>b, <1>1
     DEF CreateStep, CreateRun, InsertRun, RetryStaleRun, ReplayRun,
         LaunchWorker, SaveLaunch, SetStreaming, SaveArtifact
<1>2. CASE RecoverStep(h)
  BY <1>b, <1>2 DEF RecoverStep, RecoverList, RecoverSync, RecoverObserve
<1>3. CASE FailStep(h)
  <2>1. CASE CompensateStop(h)
    <3>1. \/ StopContainers(Workers)
          \/ local' = [local EXCEPT ![h].stop = "uncertain"]
      BY <2>1 DEF CompensateStop
    <3>2. [local EXCEPT ![h].stop = "uncertain"][h].stop = "uncertain"
      BY <1>0 DEF LocalRecord
    <3>3. QED
      BY <2>1, <3>1, <3>2 DEF CompensateStop
  <2>2. CASE CompensateClean(h) \/ FailSaveLaunch(h) \/ FailWorker(h)
    <3>1. local'[h].stop = local[h].stop
      BY <1>0, <2>2 DEF CompensateClean, FailSaveLaunch, FailWorker, LocalRecord
    <3>2. QED
      BY <2>2, <3>1 DEF CompensateClean, FailSaveLaunch, FailWorker
  <2>3. CASE FailRun(h) \/ FailArtifact(h) \/ FailEvent(h)
    BY <1>a, <1>b, <2>3 DEF FailRun, FailArtifact, FailEvent
  <2>4. QED
    BY <1>3, <2>1, <2>2, <2>3 DEF FailStep
<1>4. CASE DispatchStep(h)
  BY <1>a, <1>b, <1>4
     DEF DispatchStep, ListIntents, Publish, MarkPublished, MarkFailed, Mark
<1>5. CASE RunStopStep(h)
  <2>1. CASE StopRuntime(h)
    <3>1. CASE StopContainers(Workers)
      BY <2>1, <3>1 DEF StopRuntime
    <3>2. CASE \E e \in RuntimeErrors : local' = [local EXCEPT ![h].stop = e]
      <4>1. PICK e \in RuntimeErrors : local' = [local EXCEPT ![h].stop = e]
        BY <3>2
      <4>2. local'[h].stop = e
        BY <1>0, <4>1 DEF LocalRecord
      <4>3. QED
        BY <4>2, ParameterAssumption
    <3>3. QED
      BY <2>1, <3>1, <3>2 DEF StopRuntime
  <2>2. CASE StopProgress(h)
    <3>1. pc[h] = "stopProgress" /\ (UNCHANGED local \/ Answer(h, "error"))
      BY <2>2 DEF StopProgress, StopStep
    <3>2. QED
      BY <1>a, <3>1
  <2>3. CASE StopCleanup(h)
    <3>1. local'[h].stop = local[h].stop
      BY <1>0, <2>3 DEF StopCleanup, LocalRecord
    <3>2. QED
      BY <2>3, <3>1 DEF StopCleanup
  <2>4. CASE StopRead(h) \/ StopRequest(h) \/ StopFinal(h)
    BY <1>a, <1>b, <2>4 DEF StopRead, StopRequest, StopFinal, StopStep
  <2>5. QED
    BY <1>5, <2>1, <2>2, <2>3, <2>4 DEF RunStopStep
<1>6. CASE GetStep(h)
  BY <1>b, <1>6 DEF GetStep, GetRead, GetSync, GetObserve, ListEvents
<1>7. CASE IngestStep(h)
  BY <1>a, <1>b, <1>7 DEF IngestStep, IngestRead, IngestPublish, IngestCount
<1>8. QED
  BY <1>1, <1>2, <1>3, <1>4, <1>5, <1>6, <1>7 DEF HandlerStep

(* A runtime stop that works leaves the Run still: nobody launches beside  *)
(* a stop or a start that compensates.                                     *)
LEMMA WorkingStopStills ==
  ASSUME TypeOK, NothingBefore, LaunchesAlone, [Next]_vars,
         ~HasStopped, HasStopped'
  PROVE  Still'
<1>1. PICK h \in Handlers : pc'[h] \in AfterStop /\ local'[h].stop = "ok"
  BY DEF HasStopped
<1>2. ~(pc[h] \in AfterStop /\ local[h].stop = "ok")
  BY DEF HasStopped
<1>3. HandlerStep(h)
  <2>1. \E g \in Handlers : HandlerStep(g)
    <3>1. SUFFICES ASSUME ~ \E g \in Handlers : HandlerStep(g) PROVE FALSE
      OBVIOUS
    <3>2. pc'[h] = pc[h] /\ local'[h] # local[h] /\ local'[h] = Blank
      BY <1>1, <1>2, <3>1, OtherMoves DEF AfterStop
    <3>3. QED
      BY <1>1, <3>1, <3>2 DEF Next, Crash, WorkerExit, MinutePasses, request,
                              vars, AfterStop
  <2>2. QED
    BY <1>1, <1>2, <2>1, StepMovesItself, StepKeepsOthers
<1>4. /\ pc[h] \in {"compensateStop", "stopRuntime"}
      /\ StopContainers(Workers)
  BY <1>1, <1>2, <1>3, StopWorks
<1>5. \A w \in Workers : exec'[w] # "running"
  BY <1>4 DEF StopContainers
<1>6. created'
  BY <1>4, CreatedStays DEF NothingBefore
<1>7. ASSUME NEW c \in Creates PROVE pc'[c] # "launch"
  <2>1. c \in Handlers
    BY DEF Handlers
  <2>2. CASE c = h
    BY <1>1, <2>2 DEF AfterStop
  <2>3. CASE c # h
    <3>1. pc[c] # "launch"
      BY <1>4, <2>3 DEF LaunchesAlone, StartCalls, StopCalls
    <3>2. QED
      BY <1>3, <2>1, <2>3, <3>1, StepMovesItself
  <2>4. QED
    BY <2>2, <2>3
<1>8. QED
  BY <1>5, <1>6, <1>7 DEF Still

(* Before the first request nothing is stopped.                            *)
LEMMA StartsStill == Init => OwnCalls /\ Awaited /\ StoppedIsStill
<1> SUFFICES ASSUME Init PROVE OwnCalls /\ Awaited /\ StoppedIsStill
  OBVIOUS
<1>1. OwnCalls
  BY DEF Init, OwnCalls, StartCalls, StopCalls, GetCalls
<1>2. Awaited
  BY DEF Init, Awaited, RunIDKnown, StopCalls, GetCalls, Handlers
<1>3. EnsureWorkerState(PlannedWorker).lifecycle = "starting"
  <2>1. PlannedWorker \in WorkerRecord /\ PlannedWorker.lifecycle = "starting"
    BY FreshRecordsType DEF PlannedWorker
  <2>2. QED
    BY <2>1 DEF EnsureWorkerState, WorkerRecord
<1>4. ~RecordsStopped
  BY <1>3 DEF Init, RecordsStopped, AdmittedRun, Blank, PlannedWorker
<1>5. ~HasStopped
  BY DEF Init, HasStopped, AfterStop
<1>6. QED
  BY <1>1, <1>2, <1>4, <1>5 DEF StoppedIsStill

(* What is recorded as stopped is still.                                   *)
LEMMA StillIsInvariant == Spec /\ []LaunchesAlone => []StoppedIsStill
<1> DEFINE Inv == OwnCalls /\ NothingBefore /\ StoppedIsStill
<1>1. TypeOK /\ LaunchesAlone /\ Inv /\ [Next]_vars => Inv'
  <2> SUFFICES ASSUME TypeOK, LaunchesAlone, OwnCalls, NothingBefore,
                      StoppedIsStill, [Next]_vars
               PROVE  OwnCalls' /\ NothingBefore' /\ StoppedIsStill'
    OBVIOUS
  <2>1. OwnCalls' /\ NothingBefore'
    BY OwnCallsKept, NothingBeforeKept
  <2>2. CASE Still
    BY <2>1, <2>2, StillStays DEF StoppedIsStill
  <2>3. CASE ~Still
    <3>1. ~RecordsStopped /\ ~HasStopped
      BY <2>3 DEF StoppedIsStill
    <3>2. ~RecordsStopped'
      BY <3>1, NothingStoppedStays
    <3>3. HasStopped' => Still'
      BY <3>1, WorkingStopStills
    <3>4. QED
      BY <2>1, <3>2, <3>3 DEF StoppedIsStill
  <2>4. QED
    BY <2>1, <2>2, <2>3
<1>2. Init => Inv
  BY StartsStill, StartsWithNothing
<1>3. QED
  BY <1>1, <1>2, TypeCorrect, PTL DEF Spec

(* A Run that reads stopped has no worker left running, whatever exits,    *)
(* ingests, reads, crashes and failing calls race the stop, in every       *)
(* behaviour in which a launch is neither stopped nor recovered while it   *)
(* goes on (SimopsStopOrchestrator.Stop, StartRunProfiles).                *)
THEOREM StopLeavesNoWorker == Spec /\ []LaunchesAlone => []NoWorkerOutlivesStop
<1>1. StoppedIsStill => NoWorkerOutlivesStop
  BY DEF StoppedIsStill, RecordsStopped, Still, NoWorkerOutlivesStop
<1>2. QED
  BY <1>1, StillIsInvariant, PTL

(* A failed start that recorded a worker as stopped has really stopped it  *)
(* (failedWorkerOutcomes), in the same behaviours.                         *)
THEOREM CompensationIsHonest ==
  Spec /\ []LaunchesAlone => []CompensatedFailureIsClean
<1>1. StoppedIsStill => CompensatedFailureIsClean
  BY DEF StoppedIsStill, RecordsStopped, Still, CompensatedFailureIsClean
<1>2. QED
  BY <1>1, StillIsInvariant, PTL
-----------------------------------------------------------------------------
(* The cleanup disposition of a Run that is not started while it stops.    *)

(* ApplyStopTransition records the disposition it is given everywhere.     *)
LEMMA StopRecordsCleanup ==
  ASSUME NEW w \in WorkerRecord, NEW row \in RunRecord, NEW table,
         NEW t \in StopTransition
  PROVE  /\ StopWorkerMemory(w, t).cleanup = t.cleanup
         /\ StopWorkerPostgres(w, t).cleanup = t.cleanup
         /\ StopRunIn(Adapter, row, table, t).cleanup = t.cleanup
<1>1. StopWorkerMemory(w, t).cleanup = t.cleanup
  <2> DEFINE ensured == EnsureWorkerState(w)
             cleaned == ApplyCleanupOutcome(ensured, t.cleanup)
             judged  == IF ~t.stopFailure THEN cleaned
                        ELSE [cleaned EXCEPT
                               !.condition = IF t.stopConfirmed THEN "failed"
                                             ELSE Degrade(cleaned.condition)]
  <2>1. ensured \in WorkerRecord
    BY EnsureWorkerStateType
  <2> HIDE DEF ensured
  <2>2. cleaned.cleanup = t.cleanup
    BY <2>1 DEF ApplyCleanupOutcome, WorkerRecord
  <2>3. cleaned \in WorkerRecord
    BY <2>1, ApplyCleanupOutcomeType DEF StopTransition
  <2> HIDE DEF cleaned
  <2>4. judged.cleanup = t.cleanup /\ DOMAIN judged = DOMAIN cleaned
    BY <2>2, <2>3 DEF WorkerRecord
  <2>5. StopWorkerMemory(w, t) =
          IF Settles(t) /\ judged.condition # "failed"
          THEN [judged EXCEPT !.phase = "stopped", !.active = "terminal",
                              !.lifecycle = ProjectWorkerLifecycle("stopped")]
          ELSE judged
    BY DEF StopWorkerMemory, ensured, cleaned
  <2> HIDE DEF judged
  <2>6. QED
    BY <2>4, <2>5
<1>2. StopWorkerPostgres(w, t).cleanup = t.cleanup
  BY DEF StopWorkerPostgres, WorkerRecord
<1>3. StopRunIn(Adapter, row, table, t).cleanup = t.cleanup
  <2> DEFINE stopping == [row EXCEPT !.cleanup = t.cleanup]
             held     == [stopping EXCEPT
                           !.phase = "stopping",
                           !.condition = IF row.condition = "failed"
                                         THEN "failed" ELSE "degraded"]
             state    == IF Settles(t) THEN DeriveRunState(stopping, table)
                         ELSE held
  <2>1. stopping \in RunRecord /\ stopping.cleanup = t.cleanup
    BY DEF StopTransition, RunRecord
  <2> HIDE DEF stopping
  <2>2. DeriveRunState(stopping, table).cleanup = t.cleanup
    BY <2>1 DEF DeriveRunState, RunRecord
  <2>3. held.cleanup = t.cleanup
    BY <2>1 DEF RunRecord
  <2>4. state.cleanup = t.cleanup
    BY <2>2, <2>3
  <2>5. StopRunMemory(row, table, t) =
          [state EXCEPT !.lifecycle = ProjectRunLifecycle(state.phase)]
    BY DEF StopRunMemory, stopping
  <2> HIDE DEF state
  <2>6. StopRunMemory(row, table, t).cleanup = t.cleanup
    BY <2>4, <2>5
  <2>7. StopRunPostgres(row, table, t).cleanup = t.cleanup
    BY DEF StopRunPostgres
  <2>8. QED
    BY <2>6, <2>7 DEF StopRunIn
<1>4. QED
  BY <1>1, <1>2, <1>3

(* A transition that leaves the Run stopped has settled: it records a      *)
(* completed cleanup of the Run and of every worker.                       *)
LEMMA StoppedRunIsCleaned ==
  ASSUME TypeOK, NEW t \in StopTransition, ApplyStop(t),
         run'.lifecycle = "stopped"
  PROVE  /\ run'.cleanup = "completed"
         /\ \A w \in Workers : worker'[w].cleanup = "completed"
<1>1. run' = StopRunIn(Adapter, run, StopWorkersIn(Adapter, worker, t), t)
      /\ worker' = StopWorkersIn(Adapter, worker, t)
  BY DEF ApplyStop
<1>2. Settles(t)
  BY <1>1, StopRunLifecycle, StoreFields
<1>3. t.cleanup = "completed"
  BY <1>2 DEF Settles
<1>4. \A w \in Workers : worker[w] \in WorkerRecord
  BY StoreFields
<1>5. ASSUME NEW w \in Workers PROVE worker'[w].cleanup = "completed"
  BY <1>1, <1>3, <1>4, StopRecordsCleanup, StoreFields DEF StopWorkersIn
<1>6. PICK w \in Workers : TRUE
  BY ParameterAssumption
<1>7. run'.cleanup = "completed"
  BY <1>1, <1>3, <1>4, <1>6, StopRecordsCleanup, StoreFields
<1>8. QED
  BY <1>5, <1>7

(* An observation keeps the disposition of the Run and of its workers.     *)
LEMMA ObserveKeepsCleanup ==
  ASSUME TypeOK, StateIsStored, NEW w \in Workers, NEW o \in ObservedState,
         Observe(w, o)
  PROVE  /\ run'.lifecycle = run.lifecycle /\ run'.cleanup = run.cleanup
         /\ \A v \in Workers : worker'[v].cleanup = worker[v].cleanup
<1>1. run' = ObserveRunIn(Adapter, run, worker')
      /\ worker' = [worker EXCEPT ![w] = ObserveWorker(worker[w], o, o # "missing")]
  BY DEF Observe
<1>2. DeriveRunState(run, worker').cleanup = run.cleanup
  BY StoreFields DEF DeriveRunState, RunRecord
<1>3. AggregatePostgres(run, worker').cleanup = run.cleanup
  BY StoreFields DEF AggregatePostgres, RunRecord
<1>4. ObserveWorker(worker[w], o, o # "missing").cleanup = worker[w].cleanup
  BY StoreFields, ObserveWorkerKeeps DEF StateIsStored
<1>5. QED
  BY <1>1, <1>2, <1>3, <1>4, StoreFields, ObserveKeepsLifecycle DEF ObserveRunIn

(* No start begins of a Run that reads stopped: a create inserts a Run     *)
(* that is starting, and recovers only such a Run.                         *)
LEMMA NoStartBegins ==
  ASSUME TypeOK, NoStart, [Next]_vars, run'.lifecycle = "stopped"
  PROVE  NoStart'
<1> SUFFICES ASSUME NEW c \in Creates, pc'[c] \in StartCalls PROVE FALSE
  BY DEF NoStart
<1>1. c \in Handlers /\ pc[c] \notin StartCalls
  BY DEF NoStart, Handlers
<1>2. HandlerStep(c)
  BY <1>1, StepMovesItself, OtherMoves DEF StartCalls
<1>3. pc[c] = "idle"
  BY <1>1, <1>2, HandlerMoves
<1>4. CreateRun(c)
  BY <1>1, <1>2, <1>3, CreateBegins
<1>5. CASE InsertRun(c)
  BY <1>5 DEF InsertRun, AdmittedRun
<1>6. CASE RetryStaleRun(c)
  BY <1>6 DEF RetryStaleRun
<1>7. ASSUME NEW status, Answer(c, status) PROVE FALSE
  BY <1>1, <1>7 DEF Answer, TypeOK, RequestTypeOK, StartCalls
<1>8. QED
  BY <1>4, <1>5, <1>6, <1>7 DEF CreateRun, ReplayRun

(* A Run comes to read stopped only by a stop, which no start overtakes,   *)
(* and nothing changes its disposition afterwards.                         *)
LEMMA CleanedUpStep ==
  ASSUME TypeOK, OwnCalls, StopsAlone, StateIsStored, CleanedUp,
         NEW h \in Handlers, HandlerStep(h), run'.lifecycle = "stopped"
  PROVE  /\ NoStart
         /\ run'.cleanup = "completed"
         /\ \A w \in Workers : worker'[w].cleanup = "completed"
<1> DEFINE Goal == /\ NoStart
                   /\ run'.cleanup = "completed"
                   /\ \A w \in Workers : worker'[w].cleanup = "completed"
<1>a. ASSUME run'.lifecycle = run.lifecycle, run'.cleanup = run.cleanup,
             \A w \in Workers : worker'[w].cleanup = worker[w].cleanup
      PROVE  Goal
  BY <1>a DEF CleanedUp
<1>b. CASE UNCHANGED <<run, worker>>
  BY <1>a, <1>b
<1>c. ASSUME pc[h] \in StartCalls PROVE run.lifecycle # "stopped"
  BY <1>c DEF OwnCalls, CleanedUp, NoStart
<1>1. CASE CreateStep(h)
  <2>1. CASE CreateRun(h)
    <3>1. CASE InsertRun(h)
      BY <3>1 DEF InsertRun, AdmittedRun
    <3>2. CASE ~InsertRun(h)
      BY <1>b, <2>1, <3>2 DEF CreateRun, RetryStaleRun, ReplayRun
    <3>3. QED
      BY <3>1, <3>2
  <2>2. CASE SetStreaming(h)
    <3>1. SetRunLifecycleIn(Adapter, run, "streaming").lifecycle = "streaming"
      BY StoreFields, SetRunLifecycleType DEF Lifecycle
    <3>2. QED
      BY <1>c, <2>2, <3>1 DEF SetStreaming, StartCalls
  <2>3. CASE LaunchWorker(h) \/ SaveLaunch(h) \/ SaveArtifact(h)
    BY <1>c, <2>3 DEF LaunchWorker, SaveLaunch, SaveArtifact, store, StartCalls
  <2>4. QED
    BY <1>1, <2>1, <2>2, <2>3 DEF CreateStep
<1>2. CASE RecoverStep(h) \/ FailStep(h)
  <2>1. pc[h] \in StartCalls
    BY <1>2 DEF RecoverStep, RecoverList, RecoverSync, RecoverObserve,
                FailStep, CompensateStop, CompensateClean, FailSaveLaunch,
                FailWorker, FailRun, FailArtifact, FailEvent, StartCalls
  <2>2. run.lifecycle # "stopped"
    BY <1>c, <2>1
  <2>3. CASE RecoverStep(h)
    <3>1. UNCHANGED run \/ run' = ObserveRunIn(Adapter, run, worker')
      BY <2>3 DEF RecoverStep, RecoverList, RecoverSync, RecoverObserve,
                  Observe, store
    <3>2. QED
      BY <2>2, <3>1, ObserveKeepsLifecycle, StoreFields
  <2>4. CASE FailStep(h)
    <3>1. UNCHANGED run \/ run' = SetRunLifecycleIn(Adapter, run, "failed")
      BY <2>4 DEF FailStep, CompensateStop, CompensateClean, FailSaveLaunch,
                  FailWorker, FailRun, FailArtifact, FailEvent, store
    <3>2. SetRunLifecycleIn(Adapter, run, "failed").lifecycle = "failed"
      BY StoreFields, SetRunLifecycleType DEF Lifecycle
    <3>3. QED
      BY <2>2, <3>1, <3>2
  <2>5. QED
    BY <1>2, <2>3, <2>4
<1>3. CASE DispatchStep(h)
  BY <1>b, <1>3 DEF DispatchStep, ListIntents, Publish, MarkPublished,
                    MarkFailed, Mark, store
<1>4. CASE RunStopStep(h)
  <2>1. CASE \E t \in StopTransition : ApplyStop(t)
    <3>1. pc[h] \in StopCalls \/ StopRead(h)
      BY <1>4 DEF RunStopStep, StopRequest, StopRuntime, StopProgress,
                  StopCleanup, StopFinal, StopStep, StopCalls
    <3>2. CASE pc[h] \in StopCalls
      <4>1. NoStart
        BY <3>2 DEF OwnCalls, StopsAlone
      <4>2. QED
        BY <2>1, <4>1, StoppedRunIsCleaned
    <3>3. CASE StopRead(h)
      BY <1>b, <3>3 DEF StopRead, store
    <3>4. QED
      BY <3>1, <3>2, <3>3
  <2>2. CASE ~ \E t \in StopTransition : ApplyStop(t)
    <3>1. UNCHANGED <<run, worker>>
      BY <1>4, <2>2, StopStepsApply
         DEF RunStopStep, StopRead, StopRuntime, StopCleanup, store
    <3>2. QED
      BY <1>b, <3>1
  <2>3. QED
    BY <2>1, <2>2
<1>5. CASE GetStep(h)
  <2>1. CASE GetObserve(h)
    <3>1. PICK w \in Workers : \/ Observe(w, local[h].seen[w])
                               \/ UNCHANGED <<worker, run>>
      BY <2>1, LocalFields DEF GetObserve
    <3>2. local[h].seen[w] \in ObservedState
      BY LocalFields
    <3>3. QED
      BY <1>a, <1>b, <3>1, <3>2, ObserveKeepsCleanup
  <2>2. QED
    BY <1>b, <1>5, <2>1 DEF GetStep, GetRead, GetSync, ListEvents, store
<1>6. CASE IngestStep(h)
  <2>1. CASE IngestCount(h)
    <3>1. PICK w \in Workers :
            \/ UNCHANGED worker
            \/ worker' = [worker EXCEPT ![w] = CountFrameOf(worker[w])]
      BY <2>1, LocalFields DEF IngestCount
    <3>2. CountFrameOf(worker[w]).cleanup = worker[w].cleanup /\ UNCHANGED run
      BY <2>1, StoreFields DEF IngestCount, CountFrameOf, WorkerRecord
    <3>3. \A v \in Workers : worker'[v].cleanup = worker[v].cleanup
      BY <3>1, <3>2, StoreFields
    <3>4. QED
      BY <1>a, <3>2, <3>3
  <2>2. QED
    BY <1>b, <1>6, <2>1 DEF IngestStep, IngestRead, IngestPublish, store
<1>7. QED
  BY <1>1, <1>2, <1>3, <1>4, <1>5, <1>6 DEF HandlerStep

(* So a Run that reads stopped keeps a completed cleanup.                  *)
LEMMA CleanedUpKept ==
  ASSUME TypeOK, OwnCalls, StopsAlone, StateIsStored, CleanedUp, [Next]_vars
  PROVE  CleanedUp'
<1> SUFFICES ASSUME run'.lifecycle = "stopped"
             PROVE  /\ NoStart'
                    /\ run'.cleanup = "completed"
                    /\ \A w \in Workers : worker'[w].cleanup = "completed"
  BY DEF CleanedUp
<1>1. CASE \E h \in Handlers : HandlerStep(h)
  BY <1>1, CleanedUpStep, NoStartBegins
<1>2. CASE ~ \E h \in Handlers : HandlerStep(h)
  <2>1. UNCHANGED <<run, worker>>
    BY <1>2, OthersWriteNothing
  <2>2. QED
    BY <2>1, NoStartBegins DEF CleanedUp
<1>3. QED
  BY <1>1, <1>2

(* A Run that reads stopped has a completed cleanup on record, and so has  *)
(* each of its workers, whatever reads, ingests, exits, crashes and        *)
(* failing calls came in between, in every behaviour in which no start is  *)
(* under way while a stop is (ApplyStopTransition,                         *)
(* UpdateWorkerObservedLifecycle).                                         *)
THEOREM StopRecordsItsCleanup == Spec /\ []StopsAlone => []StoppedRecordsCleanup
<1>1. Init => OwnCalls /\ StateIsStored /\ CleanedUp
  <2>1. EnsureWorkerState(PlannedWorker).phase # "unset"
    BY FreshRecordsType, EnsureWorkerStateType DEF WorkerPhase
  <2>2. QED
    BY <2>1, StartsStill DEF Init, StateIsStored, CleanedUp, AdmittedRun
<1>2. TypeOK /\ StopsAlone /\ OwnCalls /\ StateIsStored /\ CleanedUp /\ [Next]_vars
        => OwnCalls' /\ StateIsStored' /\ CleanedUp'
  BY OwnCallsKept, StateKept, CleanedUpKept
<1>3. CleanedUp => StoppedRecordsCleanup
  BY DEF CleanedUp, StoppedRecordsCleanup
<1>4. QED
  BY <1>1, <1>2, <1>3, TypeCorrect, PTL DEF Spec

(* A start that is alone precedes every stop and is never recovered.       *)
LEMMA OneCreateTakesTurns ==
  ASSUME OneCreate
  PROVE  Spec => [](LaunchesAlone /\ StopsAlone)
<1>1. TypeOK /\ OwnCalls /\ Awaited /\ [Next]_vars => OwnCalls' /\ Awaited'
  BY OwnCallsKept, AwaitedKept
<1>2. OwnCalls /\ Awaited => LaunchesAlone /\ StopsAlone
  <2> SUFFICES ASSUME OwnCalls, Awaited PROVE LaunchesAlone /\ StopsAlone
    OBVIOUS
  <2>1. ASSUME NEW h \in Handlers, pc[h] \in StopCalls PROVE Over
    BY <2>1 DEF Awaited
  <2>2. StopsAlone
    BY <2>1 DEF StopsAlone, NoStart, Over, StartCalls, Handlers
  <2>3. ASSUME NEW c \in Creates, pc[c] = "launch",
               NEW h \in Handlers \ {c}
        PROVE  pc[h] \notin StartCalls \cup StopCalls
    BY <2>1, <2>3 DEF Over, OwnCalls, OneCreate
  <2>4. QED
    BY <2>2, <2>3 DEF LaunchesAlone
<1>3. QED
  BY <1>1, <1>2, StartsStill, TypeCorrect, PTL DEF Spec

(* So a Run that one create makes has the three properties in every        *)
(* behaviour: what its stops and its compensations record as stopped does  *)
(* not run, and a stopped Run is cleaned up (Start, Stop).                 *)
THEOREM StopsOfOneCreateAreTrue ==
  ASSUME OneCreate
  PROVE  Spec => [](/\ NoWorkerOutlivesStop
                    /\ CompensatedFailureIsClean
                    /\ StoppedRecordsCleanup)
BY OneCreateTakesTurns, StopLeavesNoWorker, CompensationIsHonest,
   StopRecordsItsCleanup, PTL
-----------------------------------------------------------------------------
(* The frame counts, in the Postgres store: a launch record that is saved  *)
(* late has fewer frames than the stored one, which therefore keeps its.   *)

(* A handler never holds more frames of a worker than the store counts.    *)
PlansBehind ==
  \A h \in Handlers, w \in Workers : local[h].plan[w].frames <= worker[w].frames

(* A frame that is ingested is one worker's.                               *)
OneFrameEach ==
  \A h \in Handlers : pc[h] \in {"ingestPublish", "ingestCount"} =>
                        \E w \in Workers : local[h].todo = {w}

(* As many ingests as there are, finitely many are under way.              *)
CountingIsFinite == \A w \in Workers : IsFiniteSet(Counting(w))

FramesInv ==
  /\ NothingBefore /\ PlansBehind /\ OneFrameEach /\ CountingIsFinite
  /\ FramesMatchTelemetry

(* SaveLaunch in Postgres keeps the greater frame count.                   *)
LEMMA SaveLaunchFrames ==
  ASSUME Adapter = "postgres", NEW table \in [Workers -> WorkerRecord],
         NEW records \in [Workers -> WorkerRecord], NEW w \in Workers,
         records[w].frames <= table[w].frames
  PROVE  SaveLaunchIn(Adapter, table, records)[w].frames = table[w].frames
<1> DEFINE m == MaterializeLaunch(records[w])
<1>1. m \in WorkerRecord /\ m.frames = records[w].frames
  BY MaterializeLaunchType, MaterializeKeeps
<1>2. m.frames \in Nat /\ table[w].frames \in Nat
  BY <1>1 DEF WorkerRecord
<1> HIDE DEF m
<1>3. MergeLaunchPostgres(table[w], records[w]).frames =
        IF table[w].frames > m.frames THEN table[w].frames ELSE m.frames
  BY <1>1 DEF MergeLaunchPostgres, WorkerRecord, m
<1>4. MergeLaunchPostgres(table[w], records[w]).frames = table[w].frames
  BY <1>1, <1>2, <1>3
<1>5. QED
  BY <1>4 DEF SaveLaunchIn

(* No step of a handler but the ingest's count changes a frame count.      *)
LEMMA FramesKept ==
  ASSUME Adapter = "postgres", TypeOK, NothingBefore, PlansBehind,
         NEW h \in Handlers, HandlerStep(h), pc[h] # "ingestCount"
  PROVE  \A w \in Workers : worker'[w].frames = worker[w].frames
<1>0. UNCHANGED worker => \A w \in Workers : worker'[w].frames = worker[w].frames
  OBVIOUS
<1>a. ASSUME NEW records \in [Workers -> WorkerRecord],
             \A w \in Workers : records[w].frames = local[h].plan[w].frames,
             worker' = SaveLaunchIn(Adapter, worker, records)
      PROVE  \A w \in Workers : worker'[w].frames = worker[w].frames
  BY <1>a, StoreFields, SaveLaunchFrames DEF PlansBehind
<1>b. ASSUME NEW w \in Workers, NEW o \in ObservedState, Observe(w, o)
      PROVE  \A v \in Workers : worker'[v].frames = worker[v].frames
  <2>1. worker' = [worker EXCEPT ![w] = ObserveWorker(worker[w], o, o # "missing")]
    BY <1>b DEF Observe
  <2>2. ObserveWorker(worker[w], o, o # "missing").frames = worker[w].frames
    BY StoreFields, ObserveWorkerKeeps
  <2>3. QED
    BY <2>1, <2>2, StoreFields
<1>1. CASE CreateStep(h)
  <2>1. CASE CreateRun(h)
    <3>1. PlannedWorker \in WorkerRecord /\ PlannedWorker.frames = 0
      BY FreshRecordsType DEF PlannedWorker
    <3>2. EnsureWorkerState(PlannedWorker).frames = 0
      BY <3>1 DEF EnsureWorkerState, WorkerRecord
    <3>3. QED
      BY <2>1, <3>2
         DEF CreateRun, InsertRun, RetryStaleRun, ReplayRun, NothingBefore
  <2>2. CASE SaveLaunch(h)
    BY <1>0, <1>a, <2>2, LocalFields DEF SaveLaunch
  <2>3. CASE LaunchWorker(h) \/ SetStreaming(h) \/ SaveArtifact(h)
    BY <2>3 DEF LaunchWorker, SetStreaming, SaveArtifact, store
  <2>4. QED
    BY <1>1, <2>1, <2>2, <2>3 DEF CreateStep
<1>2. CASE RecoverStep(h)
  <2>1. CASE RecoverObserve(h)
    <3>1. PICK w \in Workers : Observe(w, local[h].seen[w]) \/ UNCHANGED worker
      BY <2>1, LocalFields DEF RecoverObserve
    <3>2. local[h].seen[w] \in ObservedState
      BY LocalFields
    <3>3. QED
      BY <1>0, <1>b, <3>1, <3>2
  <2>2. QED
    BY <1>2, <2>1 DEF RecoverStep, RecoverList, RecoverSync, store
<1>3. CASE FailStep(h)
  <2>1. CASE FailSaveLaunch(h)
    <3> DEFINE failed == [w \in Workers |-> [local[h].plan[w] EXCEPT
                                               !.lifecycle = FailedLifecycle(h, w)]]
    <3>1. /\ failed \in [Workers -> WorkerRecord]
          /\ \A w \in Workers : failed[w].frames = local[h].plan[w].frames
      BY LocalFields DEF FailedLifecycle, WorkerRecord, Lifecycle
    <3> HIDE DEF failed
    <3>2. UNCHANGED worker \/ worker' = SaveLaunchIn(Adapter, worker, failed)
      BY <2>1 DEF FailSaveLaunch, failed
    <3>3. QED
      BY <1>0, <1>a, <3>1, <3>2
  <2>2. CASE FailWorker(h)
    <3>1. PICK w \in Workers :
            \/ UNCHANGED worker
            \/ worker' = [worker EXCEPT ![w].lifecycle = FailedLifecycle(h, w)]
      BY <2>2, LocalFields DEF FailWorker
    <3>2. QED
      BY <3>1, StoreFields DEF WorkerRecord
  <2>3. QED
    BY <1>3, <2>1, <2>2
       DEF FailStep, CompensateStop, CompensateClean, FailRun, FailArtifact,
           FailEvent, store
<1>4. CASE DispatchStep(h) \/ RunStopStep(h)
  <2>1. ASSUME NEW t \in StopTransition, ApplyStop(t), NEW w \in Workers
        PROVE  worker'[w].frames = worker[w].frames
    <3>1. worker'[w] = StopWorkerPostgres(worker[w], t)
      BY <2>1 DEF ApplyStop, StopWorkersIn
    <3>2. QED
      BY <3>1, StoreFields DEF StopWorkerPostgres, WorkerRecord
  <2>2. QED
    BY <1>0, <1>4, <2>1, StopWritesByTransition
<1>5. CASE GetStep(h)
  <2>1. CASE GetObserve(h)
    <3>1. PICK w \in Workers : Observe(w, local[h].seen[w]) \/ UNCHANGED worker
      BY <2>1, LocalFields DEF GetObserve
    <3>2. local[h].seen[w] \in ObservedState
      BY LocalFields
    <3>3. QED
      BY <1>0, <1>b, <3>1, <3>2
  <2>2. QED
    BY <1>5, <2>1 DEF GetStep, GetRead, GetSync, ListEvents, store
<1>6. CASE IngestStep(h)
  BY <1>6 DEF IngestStep, IngestRead, IngestPublish, IngestCount, store
<1>7. QED
  BY <1>1, <1>2, <1>3, <1>4, <1>5, <1>6 DEF HandlerStep

(* The ingest's count is one more frame of its worker, unless it fails.    *)
LEMMA CountStep ==
  ASSUME TypeOK, NEW h \in Handlers, HandlerStep(h), pc[h] = "ingestCount",
         NEW w \in Workers, local[h].todo = {w}
  PROVE  /\ pc'[h] \in {"idle", "done"} /\ UNCHANGED telemetry
         /\ \/ worker' = [worker EXCEPT ![w] = CountFrameOf(worker[w])]
            \/ UNCHANGED worker /\ Fault
<1>1. IngestCount(h)
  BY DEF HandlerStep, CreateStep, CreateRun, LaunchWorker, SaveLaunch,
         SetStreaming, SaveArtifact, RecoverStep, RecoverList, RecoverSync,
         RecoverObserve, FailStep, CompensateStop, CompensateClean,
         FailSaveLaunch, FailWorker, FailRun, FailArtifact, FailEvent,
         DispatchStep, ListIntents, Publish, MarkPublished, MarkFailed, Mark,
         RunStopStep, StopRead, StopRequest, StopRuntime, StopProgress,
         StopCleanup, StopFinal, StopStep, GetStep, GetRead, GetSync,
         GetObserve, ListEvents, IngestStep, IngestRead, IngestPublish
<1>2. pc \in [Handlers -> Labels]
  BY DEF TypeOK, RequestTypeOK
<1>3. pc'[h] \in {"idle", "done"}
  BY <1>1, <1>2 DEF IngestCount, Answer
<1>4. QED
  BY <1>1, <1>3 DEF IngestCount, StoreFault, outside

(* An ingest is about to count only after it has published the one frame   *)
(* it was called with, and nothing else publishes frames.                  *)
LEMMA PublishStep ==
  ASSUME TypeOK, NEW h \in Handlers, HandlerStep(h)
  PROVE  /\ pc'[h] = "ingestPublish" => \E w \in Workers : local'[h].todo = {w}
         /\ \/ pc'[h] # "ingestCount" /\ (UNCHANGED telemetry \/ Fault)
            \/ /\ pc[h] = "ingestPublish" /\ pc'[h] = "ingestCount"
               /\ UNCHANGED local
               /\ \E w \in local[h].todo :
                    telemetry' = [telemetry EXCEPT ![w] = @ + 1]
<1>0. pc \in [Handlers -> Labels] /\ local \in [Handlers -> LocalRecord]
  BY DEF TypeOK, RequestTypeOK
<1>a. ASSUME NEW status, Answer(h, status) PROVE pc'[h] \in {"idle", "done"}
  BY <1>0, <1>a DEF Answer
<1>b. ASSUME NEW label, Goto(h, label) PROVE pc'[h] = label
  BY <1>0, <1>b DEF Goto
<1>1. CASE CreateStep(h)
  BY <1>a, <1>b, <1>1
     DEF CreateStep, CreateRun, InsertRun, RetryStaleRun, ReplayRun,
         LaunchWorker, SaveLaunch, SetStreaming, SaveArtifact, outside
<1>2. CASE RecoverStep(h)
  BY <1>b, <1>2
     DEF RecoverStep, RecoverList, RecoverSync, RecoverObserve, outside
<1>3. CASE FailStep(h)
  BY <1>a, <1>b, <1>3
     DEF FailStep, CompensateStop, CompensateClean, FailSaveLaunch, FailWorker,
         FailRun, FailArtifact, FailEvent, outside
<1>4. CASE DispatchStep(h)
  BY <1>a, <1>b, <1>4
     DEF DispatchStep, ListIntents, Publish, MarkPublished, MarkFailed, Mark,
         outside
<1>5. CASE RunStopStep(h)
  BY <1>a, <1>b, <1>5
     DEF RunStopStep, StopRead, StopRequest, StopRuntime, StopProgress,
         StopCleanup, StopFinal, StopStep, outside
<1>6. CASE GetStep(h)
  BY <1>b, <1>6
     DEF GetStep, GetRead, GetSync, GetObserve, ListEvents, outside
<1>7. CASE IngestStep(h)
  <2>1. CASE IngestRead(h)
    <3>1. UNCHANGED telemetry /\ pc'[h] # "ingestCount"
      BY <1>a, <1>b, <2>1 DEF IngestRead, outside
    <3>2. ASSUME pc'[h] = "ingestPublish"
          PROVE  \E w \in Workers : local'[h].todo = {w}
      <4>1. PICK w \in Workers : local' = [local EXCEPT ![h].todo = {w}]
        BY <1>a, <2>1, <3>2 DEF IngestRead
      <4>2. QED
        BY <1>0, <4>1 DEF LocalRecord
    <3>3. QED
      BY <3>1, <3>2
  <2>2. CASE IngestPublish(h) \/ IngestCount(h)
    BY <1>a, <1>b, <2>2 DEF IngestPublish, IngestCount, outside
  <2>3. QED
    BY <1>7, <2>1, <2>2 DEF IngestStep
<1>8. QED
  BY <1>1, <1>2, <1>3, <1>4, <1>5, <1>6, <1>7 DEF HandlerStep

(* A handler's step is a fault, or counts none; only the crash counts one. *)
LEMMA FaultStep ==
  ASSUME NEW h \in Handlers, HandlerStep(h)
  PROVE  (Fault \/ UNCHANGED faults) /\ UNCHANGED crashes
<1> USE DEF StoreFault
<1>1. CASE CreateStep(h)
  BY <1>1 DEF CreateStep, CreateRun, InsertRun, RetryStaleRun, ReplayRun,
              LaunchWorker, SaveLaunch, SetStreaming, SaveArtifact
<1>2. CASE RecoverStep(h)
  BY <1>2 DEF RecoverStep, RecoverList, RecoverSync, RecoverObserve, bounds
<1>3. CASE FailStep(h)
  BY <1>3 DEF FailStep, CompensateStop, CompensateClean, FailSaveLaunch,
              FailWorker, FailRun, FailArtifact, FailEvent
<1>4. CASE DispatchStep(h)
  BY <1>4 DEF DispatchStep, ListIntents, Publish, MarkPublished, MarkFailed,
              Mark
<1>5. CASE RunStopStep(h)
  BY <1>5 DEF RunStopStep, StopRead, StopRequest, StopRuntime, StopProgress,
              StopCleanup, StopFinal, StopStep, bounds
<1>6. CASE GetStep(h)
  BY <1>6 DEF GetStep, GetRead, GetSync, GetObserve, ListEvents, bounds
<1>7. CASE IngestStep(h)
  BY <1>7 DEF IngestStep, IngestRead, IngestPublish, IngestCount, bounds
<1>8. QED
  BY <1>1, <1>2, <1>3, <1>4, <1>5, <1>6, <1>7 DEF HandlerStep

(* A frame count never falls.                                              *)
LEMMA FramesGrow ==
  ASSUME Adapter = "postgres", TypeOK, NothingBefore, PlansBehind, OneFrameEach,
         [Next]_vars, NEW w \in Workers
  PROVE  worker[w].frames <= worker'[w].frames
<1>0. worker[w] \in WorkerRecord /\ worker[w].frames \in Nat
  BY StoreFields DEF WorkerRecord
<1>1. ASSUME NEW h \in Handlers, HandlerStep(h), pc[h] = "ingestCount"
      PROVE  worker[w].frames <= worker'[w].frames
  <2>1. PICK v \in Workers : local[h].todo = {v}
    BY <1>1 DEF OneFrameEach
  <2>2. \/ worker' = [worker EXCEPT ![v] = CountFrameOf(worker[v])]
        \/ UNCHANGED worker
    BY <1>1, <2>1, CountStep
  <2>3. CountFrameOf(worker[w]).frames = worker[w].frames + 1
    BY <1>0 DEF CountFrameOf, WorkerRecord
  <2>4. QED
    BY <1>0, <2>2, <2>3, StoreFields
<1>2. ASSUME NEW h \in Handlers, HandlerStep(h), pc[h] # "ingestCount"
      PROVE  worker[w].frames <= worker'[w].frames
  BY <1>0, <1>2, FramesKept
<1>3. CASE ~ \E h \in Handlers : HandlerStep(h)
  <2>1. UNCHANGED worker
    BY <1>3, OthersWriteNothing
  <2>2. QED
    BY <1>0, <2>1
<1>4. QED
  BY <1>1, <1>2, <1>3

(* So what a handler holds stays behind what is stored.                    *)
LEMMA PlansBehindKept ==
  ASSUME Adapter = "postgres", TypeOK, TypeOK', NothingBefore, PlansBehind,
         OneFrameEach, [Next]_vars
  PROVE  PlansBehind'
<1> SUFFICES ASSUME NEW g \in Handlers, NEW w \in Workers
             PROVE  local'[g].plan[w].frames <= worker'[w].frames
  BY DEF PlansBehind
<1>0. /\ worker[w] \in WorkerRecord /\ worker'[w] \in WorkerRecord
      /\ local[g].plan[w] \in WorkerRecord
      /\ worker[w].frames \in Nat /\ worker'[w].frames \in Nat
      /\ local[g].plan[w].frames \in Nat
      /\ local[g].plan[w].frames <= worker[w].frames
  <2>1. worker[w] \in WorkerRecord /\ local[g].plan[w] \in WorkerRecord
    BY StoreFields, LocalFields
  <2>2. worker'[w] \in WorkerRecord
    BY DEF TypeOK, StoreTypeOK
  <2>3. QED
    BY <2>1, <2>2 DEF WorkerRecord, PlansBehind
<1>1. worker[w].frames <= worker'[w].frames
  BY FramesGrow
<1>2. PlannedWorker.frames = 0 /\ LaunchedWorker.frames = 0
  BY DEF LaunchedWorker, PlannedWorker
<1>3. CASE HandlerStep(g)
  <2>1. Held(g, w)
    BY <1>3, HeldRecords
  <2>2. \A o \in ObservedState :
          ApplyObserved(local[g].plan[w], o, TRUE).frames = local[g].plan[w].frames
    BY <1>0, ObserveWorkerKeeps
  <2>3. local'[g].plan[w].frames \in {local[g].plan[w].frames, worker[w].frames, 0}
    BY <1>2, <2>1, <2>2 DEF Held
  <2>4. QED
    BY <1>0, <1>1, <2>3
<1>4. CASE ~HandlerStep(g)
  <2>1. local'[g] \in {local[g], Blank}
    BY <1>4, StepKeepsOthers, OtherMoves
  <2>2. Blank.plan[w].frames = 0
    BY <1>2 DEF Blank
  <2>3. QED
    BY <1>0, <1>1, <2>1, <2>2
<1>5. QED
  BY <1>3, <1>4

(* An ingest keeps the one frame it was called with.                       *)
LEMMA OneFrameKept ==
  ASSUME TypeOK, OneFrameEach, [Next]_vars
  PROVE  OneFrameEach'
<1> SUFFICES ASSUME NEW g \in Handlers,
                    pc'[g] \in {"ingestPublish", "ingestCount"}
             PROVE  \E w \in Workers : local'[g].todo = {w}
  BY DEF OneFrameEach
<1>1. CASE HandlerStep(g)
  BY <1>1, PublishStep DEF OneFrameEach
<1>2. ASSUME NEW h \in Handlers, HandlerStep(h), h # g
      PROVE  pc'[g] = pc[g] /\ local'[g] = local[g]
  BY <1>2, StepMovesItself, StepKeepsOthers
<1>3. CASE ~ \E h \in Handlers : HandlerStep(h)
  <2>1. ~Crash
    BY DEF Crash
  <2>2. UNCHANGED request
    BY <1>3, <2>1 DEF Next, WorkerExit, MinutePasses, vars
  <2>3. QED
    BY <2>2 DEF request, OneFrameEach
<1>4. QED
  BY <1>1, <1>2, <1>3 DEF OneFrameEach

(* The ingests that have a frame of a worker still to count, step by step. *)
LEMMA CountingStep ==
  ASSUME TypeOK, OneFrameEach, NEW h \in Handlers, HandlerStep(h),
         NEW w \in Workers
  PROVE  /\ pc[h] # "ingestCount" /\ pc'[h] # "ingestCount" =>
              Counting(w)' = Counting(w)
         /\ pc[h] = "ingestCount" => Counting(w)' = Counting(w) \ {h}
         /\ pc[h] # "ingestCount" /\ pc'[h] = "ingestCount" =>
              /\ w \in local[h].todo => Counting(w)' = Counting(w) \cup {h}
              /\ w \notin local[h].todo => Counting(w)' = Counting(w)
<1>1. \A g \in Handlers \ {h} : g \in Counting(w)' <=> g \in Counting(w)
  BY StepMovesItself, StepKeepsOthers DEF Counting
<1>2. Counting(w) \subseteq Handlers /\ Counting(w)' \subseteq Handlers
  BY DEF Counting
<1>3. h \in Counting(w)' <=> pc'[h] = "ingestCount" /\ w \in local'[h].todo
  BY DEF Counting
<1>4. h \in Counting(w) <=> pc[h] = "ingestCount" /\ w \in local[h].todo
  BY DEF Counting
<1>5. pc[h] = "ingestCount" => pc'[h] # "ingestCount"
  BY CountStep DEF OneFrameEach
<1>6. pc[h] # "ingestCount" /\ pc'[h] = "ingestCount" => local' = local
  BY PublishStep
<1>7. ASSUME pc'[h] # "ingestCount" PROVE Counting(w)' = Counting(w) \ {h}
  BY <1>1, <1>2, <1>3, <1>7
<1>8. ASSUME pc[h] # "ingestCount" PROVE Counting(w) = Counting(w) \ {h}
  BY <1>2, <1>4, <1>8
<1>9. ASSUME pc[h] # "ingestCount", pc'[h] = "ingestCount"
      PROVE  /\ w \in local[h].todo => Counting(w)' = Counting(w) \cup {h}
             /\ w \notin local[h].todo => Counting(w)' = Counting(w)
  <2>1. local' = local /\ h \notin Counting(w)
    BY <1>4, <1>6, <1>9
  <2>2. CASE w \in local[h].todo
    BY <1>1, <1>2, <1>3, <1>9, <2>1, <2>2
  <2>3. CASE w \notin local[h].todo
    BY <1>1, <1>2, <1>3, <1>9, <2>1, <2>3
  <2>4. QED
    BY <2>2, <2>3
<1>10. QED
  BY <1>5, <1>7, <1>8, <1>9

(* They stay finitely many.                                                *)
LEMMA CountingStaysFinite ==
  ASSUME TypeOK, OneFrameEach, CountingIsFinite, [Next]_vars
  PROVE  CountingIsFinite'
<1> SUFFICES ASSUME NEW w \in Workers PROVE IsFiniteSet(Counting(w)')
  BY DEF CountingIsFinite
<1>0. IsFiniteSet(Counting(w))
  BY DEF CountingIsFinite
<1>1. ASSUME NEW h \in Handlers, HandlerStep(h)
      PROVE  IsFiniteSet(Counting(w)')
  <2>1. Counting(w)' \in {Counting(w), Counting(w) \ {h}, Counting(w) \cup {h}}
    BY <1>1, CountingStep
  <2>2. IsFiniteSet(Counting(w) \ {h}) /\ IsFiniteSet(Counting(w) \cup {h})
    BY <1>0, FS_AddElement, FS_RemoveElement
  <2>3. QED
    BY <1>0, <2>1, <2>2
<1>2. CASE ~ \E h \in Handlers : HandlerStep(h)
  <2>1. CASE Crash
    <3>1. Counting(w)' = {}
      BY <2>1 DEF Crash, Counting
    <3>2. QED
      BY <3>1, FS_EmptySet
  <2>2. CASE UNCHANGED request
    <3>1. Counting(w)' = Counting(w)
      BY <2>2 DEF Counting, request
    <3>2. QED
      BY <1>0, <3>1
  <2>3. QED
    BY <1>2, <2>1, <2>2 DEF Next, WorkerExit, MinutePasses, vars
<1>3. QED
  BY <1>1, <1>2

(* A step without a fault keeps the count of the published frames.         *)
LEMMA FramesStillMatch ==
  ASSUME Adapter = "postgres", TypeOK, NothingBefore, PlansBehind, OneFrameEach,
         CountingIsFinite, NEW h \in Handlers, HandlerStep(h), ~Fault,
         NEW w \in Workers,
         telemetry[w] = worker[w].frames + Cardinality(Counting(w))
  PROVE  telemetry'[w] = worker'[w].frames + Cardinality(Counting(w)')
<1>0. /\ IsFiniteSet(Counting(w)) /\ Cardinality(Counting(w)) \in Nat
      /\ worker[w] \in WorkerRecord /\ worker[w].frames \in Nat
      /\ worker \in [Workers -> WorkerRecord]
      /\ telemetry \in [Workers -> Nat]
  <2>1. IsFiniteSet(Counting(w))
    BY DEF CountingIsFinite
  <2>2. QED
    BY <2>1, FS_CardinalityType, StoreFields
       DEF TypeOK, OutsideTypeOK, WorkerRecord
<1>1. CASE pc[h] = "ingestCount"
  <2>1. PICK v \in Workers : local[h].todo = {v}
    BY <1>1 DEF OneFrameEach
  <2>2. /\ telemetry' = telemetry
        /\ worker' = [worker EXCEPT ![v] = CountFrameOf(worker[v])]
    BY <1>1, <2>1, CountStep
  <2>3. Counting(w)' = Counting(w) \ {h}
    BY <1>1, CountingStep
  <2>4. h \in Counting(w) <=> w = v
    BY <1>1, <2>1 DEF Counting
  <2>5. Cardinality(Counting(w) \ {h}) =
          IF w = v THEN Cardinality(Counting(w)) - 1
          ELSE Cardinality(Counting(w))
    BY <1>0, <2>4, FS_RemoveElement
  <2>6. CountFrameOf(worker[w]).frames = worker[w].frames + 1
    BY <1>0 DEF CountFrameOf, WorkerRecord
  <2>7. worker'[w].frames = IF w = v THEN worker[w].frames + 1
                            ELSE worker[w].frames
    BY <1>0, <2>2, <2>6
  <2>8. QED
    BY <1>0, <2>2, <2>3, <2>5, <2>7
<1>2. CASE pc[h] # "ingestCount"
  <2>1. worker'[w].frames = worker[w].frames
    BY <1>2, FramesKept
  <2>2. CASE pc'[h] # "ingestCount"
    <3>1. Counting(w)' = Counting(w)
      BY <1>2, <2>2, CountingStep
    <3>2. telemetry' = telemetry
      BY <2>2, PublishStep
    <3>3. QED
      BY <2>1, <3>1, <3>2
  <2>3. CASE pc'[h] = "ingestCount"
    <3>1. /\ pc[h] = "ingestPublish"
          /\ \E v \in local[h].todo :
               telemetry' = [telemetry EXCEPT ![v] = @ + 1]
      BY <2>3, PublishStep
    <3>2. PICK v \in Workers : local[h].todo = {v}
      BY <3>1 DEF OneFrameEach
    <3>3. telemetry' = [telemetry EXCEPT ![v] = @ + 1]
      BY <3>1, <3>2
    <3>4. h \notin Counting(w)
      BY <1>2 DEF Counting
    <3>5. CASE w = v
      <4>1. Counting(w)' = Counting(w) \cup {h}
        BY <1>2, <2>3, <3>2, <3>5, CountingStep
      <4>2. Cardinality(Counting(w) \cup {h}) = Cardinality(Counting(w)) + 1
        BY <1>0, <3>4, FS_AddElement
      <4>3. telemetry'[w] = telemetry[w] + 1
        BY <1>0, <3>3, <3>5
      <4>4. QED
        BY <1>0, <2>1, <4>1, <4>2, <4>3
    <3>6. CASE w # v
      <4>1. Counting(w)' = Counting(w)
        BY <1>2, <2>3, <3>2, <3>6, CountingStep
      <4>2. telemetry'[w] = telemetry[w]
        BY <1>0, <3>3, <3>6
      <4>3. QED
        BY <2>1, <4>1, <4>2
    <3>7. QED
      BY <3>5, <3>6
  <2>4. QED
    BY <2>2, <2>3
<1>3. QED
  BY <1>1, <1>2

(* The invariant of the frame counts holds after every step.               *)
LEMMA FramesInvKept ==
  ASSUME Adapter = "postgres", TypeOK, TypeOK', FramesInv, [Next]_vars
  PROVE  FramesInv'
<1>1. /\ NothingBefore /\ PlansBehind /\ OneFrameEach /\ CountingIsFinite
      /\ FramesMatchTelemetry
  BY DEF FramesInv
<1>2. NothingBefore' /\ PlansBehind' /\ OneFrameEach' /\ CountingIsFinite'
  BY <1>1, NothingBeforeKept, PlansBehindKept, OneFrameKept, CountingStaysFinite
<1>3. ASSUME faults' = 0, crashes' = 0, NEW w \in Workers
      PROVE  telemetry'[w] = worker'[w].frames + Cardinality(Counting(w)')
  <2>0. faults \in Nat /\ crashes \in Nat
    BY DEF TypeOK, BoundsTypeOK
  <2>1. ASSUME NEW h \in Handlers, HandlerStep(h)
        PROVE  telemetry'[w] = worker'[w].frames + Cardinality(Counting(w)')
    <3>1. ~Fault
      BY <1>3, <2>0 DEF Fault
    <3>2. faults = 0 /\ crashes = 0
      BY <1>3, <2>1, <3>1, FaultStep
    <3>3. telemetry[w] = worker[w].frames + Cardinality(Counting(w))
      BY <1>1, <3>2 DEF FramesMatchTelemetry
    <3>4. QED
      BY <1>1, <2>1, <3>1, <3>3, FramesStillMatch
  <2>2. CASE ~ \E h \in Handlers : HandlerStep(h)
    <3>1. ~Crash
      BY <1>3, <2>0 DEF Crash
    <3>2. UNCHANGED <<telemetry, worker, pc, local, faults, crashes>>
      <4>1. CASE Next
        BY <2>2, <3>1, <4>1 DEF Next, WorkerExit, MinutePasses, store, outside,
                                request, bounds
      <4>2. CASE UNCHANGED vars
        BY <4>2 DEF vars, store, outside, request, bounds
      <4>3. QED
        BY <4>1, <4>2
    <3>3. Counting(w)' = Counting(w)
      BY <3>2 DEF Counting
    <3>4. telemetry[w] = worker[w].frames + Cardinality(Counting(w))
      BY <1>1, <1>3, <3>2 DEF FramesMatchTelemetry
    <3>5. QED
      BY <3>2, <3>3, <3>4
  <2>3. QED
    BY <2>1, <2>2
<1>4. FramesMatchTelemetry'
  BY <1>3 DEF FramesMatchTelemetry
<1>5. QED
  BY <1>2, <1>4 DEF FramesInv

(* In the Postgres store, the frames counted of a worker are those that    *)
(* were published for it, less the ones whose ingest is under way: no      *)
(* launch record, failure outcome or observation that is saved late takes  *)
(* counted frames away, over idempotent creates that race and recover, as  *)
(* long as no call fails and nothing crashes: a failed answer of the count *)
(* loses frames that were published (SaveLaunch, UpdateWorkerFrames).      *)
THEOREM NoFrameIsTakenBack ==
  ASSUME Adapter = "postgres"
  PROVE  Spec => []FramesMatchTelemetry
<1>1. Init => FramesInv
  <2> SUFFICES ASSUME Init PROVE FramesInv
    OBVIOUS
  <2>1. PlannedWorker \in WorkerRecord /\ PlannedWorker.frames = 0
    BY FreshRecordsType DEF PlannedWorker
  <2>2. EnsureWorkerState(PlannedWorker).frames = 0
    BY <2>1 DEF EnsureWorkerState, WorkerRecord
  <2>3. NothingBefore /\ PlansBehind /\ OneFrameEach
    BY <2>1, <2>2 DEF Init, NothingBefore, PlansBehind, OneFrameEach, Blank
  <2>4. \A w \in Workers : Counting(w) = {}
    BY DEF Init, Counting
  <2>5. CountingIsFinite
    BY <2>4, FS_EmptySet DEF CountingIsFinite
  <2>6. \A w \in Workers :
          telemetry[w] = worker[w].frames + Cardinality(Counting(w))
    <3>1. \A w \in Workers : telemetry[w] = 0 /\ worker[w].frames = 0
      BY <2>2 DEF Init
    <3>2. Cardinality({}) = 0
      BY FS_EmptySet
    <3>3. TAKE w \in Workers
    <3>4. Cardinality(Counting(w)) = 0
      BY <2>4, <3>2
    <3>5. telemetry[w] = 0 /\ worker[w].frames = 0
      BY <3>1
    <3>6. QED
      BY <3>4, <3>5
  <2>7. QED
    BY <2>3, <2>5, <2>6 DEF FramesInv, FramesMatchTelemetry
<1>2. TypeOK /\ TypeOK' /\ FramesInv /\ [Next]_vars => FramesInv'
  BY FramesInvKept
<1>3. FramesInv => FramesMatchTelemetry
  BY DEF FramesInv
<1>4. QED
  BY <1>1, <1>2, <1>3, TypeCorrect, PTL DEF Spec
-----------------------------------------------------------------------------
(* The terminal outcomes, in the Postgres store, of a Run whose start      *)
(* nobody recovers, so that no launch record carries an outcome that was   *)
(* observed earlier.                                                       *)
RecoverCalls == {"recoverList", "recoverSync", "recoverObserve"}
NoRecovery == \A h \in Handlers : pc[h] \notin RecoverCalls

PlansAreUnobserved ==
  /\ ~created => \A w \in Workers : worker[w].observed = "none"
  /\ \A h \in Handlers, w \in Workers : local[h].plan[w].observed = "none"

NoRetry == created => \A c \in Creates : pc[c] # "idle"

(* An observation keeps a terminal outcome, or replaces it by another.     *)
LEMMA ObserveKeepsTerminal ==
  ASSUME NEW w \in WorkerRecord, NEW o \in ObservedState, NEW id \in BOOLEAN,
         Terminal(w.observed)
  PROVE  Terminal(ObserveWorker(w, o, id).observed)
<1> DEFINE a == ApplyObserved(w, o, id)
           e == EnsureWorkerState(a)
<1>1. a \in WorkerRecord /\ Terminal(a.observed)
  BY ApplyObservedType DEF ApplyObserved, WorkerRecord
<1> HIDE DEF a
<1>2. e \in WorkerRecord /\ e.observed = a.observed
  BY <1>1, EnsureWorkerStateType DEF EnsureWorkerState, WorkerRecord
<1> HIDE DEF e
<1>3. ApplyRuntimeObservation(e, o).observed = e.observed
  BY <1>2 DEF ApplyRuntimeObservation, WorkerRecord
<1>4. QED
  BY <1>1, <1>2, <1>3 DEF ObserveWorker, a, e

(* SaveLaunch in Postgres keeps the outcome that the record has none of.   *)
LEMMA SaveLaunchObserved ==
  ASSUME Adapter = "postgres", NEW table \in [Workers -> WorkerRecord],
         NEW records \in [Workers -> WorkerRecord], NEW w \in Workers,
         records[w].observed = "none"
  PROVE  SaveLaunchIn(Adapter, table, records)[w].observed = table[w].observed
<1> DEFINE m == MaterializeLaunch(records[w])
<1>1. m \in WorkerRecord /\ m.observed = "none"
  BY MaterializeLaunchType, MaterializeKeeps
<1> HIDE DEF m
<1>2. MergeLaunchPostgres(table[w], records[w]).observed = table[w].observed
  BY <1>1 DEF MergeLaunchPostgres, WorkerRecord, m
<1>3. QED
  BY <1>2 DEF SaveLaunchIn

(* No step of a handler takes a terminal outcome away.                     *)
LEMMA OutcomesKept ==
  ASSUME Adapter = "postgres", TypeOK, NoRecovery, PlansAreUnobserved,
         NEW h \in Handlers, HandlerStep(h), NEW w \in Workers, Terminal(worker[w].observed)
  PROVE  Terminal(worker'[w].observed)
<1>0. UNCHANGED worker => Terminal(worker'[w].observed)
  OBVIOUS
<1>a. ASSUME NEW records \in [Workers -> WorkerRecord],
             \A v \in Workers : records[v].observed = local[h].plan[v].observed,
             worker' = SaveLaunchIn(Adapter, worker, records)
      PROVE  Terminal(worker'[w].observed)
  BY <1>a, StoreFields, SaveLaunchObserved DEF PlansAreUnobserved
<1>b. ASSUME NEW v \in Workers, NEW o \in ObservedState, Observe(v, o)
      PROVE  Terminal(worker'[w].observed)
  <2>1. worker' = [worker EXCEPT ![v] = ObserveWorker(worker[v], o, o # "missing")]
    BY <1>b DEF Observe
  <2>2. Terminal(ObserveWorker(worker[w], o, o # "missing").observed)
    BY StoreFields, ObserveKeepsTerminal
  <2>3. QED
    BY <2>1, <2>2, StoreFields
<1>c. ASSUME worker'[w].observed = worker[w].observed
      PROVE  Terminal(worker'[w].observed)
  BY <1>c
<1>1. CASE CreateStep(h)
  <2>1. CASE CreateRun(h)
    <3>1. created
      BY DEF PlansAreUnobserved, Terminal
    <3>2. QED
      BY <1>0, <2>1, <3>1 DEF CreateRun, InsertRun, RetryStaleRun, ReplayRun
  <2>2. CASE SaveLaunch(h)
    BY <1>0, <1>a, <2>2, LocalFields DEF SaveLaunch
  <2>3. CASE LaunchWorker(h) \/ SetStreaming(h) \/ SaveArtifact(h)
    BY <1>0, <2>3 DEF LaunchWorker, SetStreaming, SaveArtifact, store
  <2>4. QED
    BY <1>1, <2>1, <2>2, <2>3 DEF CreateStep
<1>2. ~RecoverStep(h)
  BY DEF NoRecovery, RecoverCalls, RecoverStep, RecoverList, RecoverSync,
         RecoverObserve
<1>3. CASE FailStep(h)
  <2>1. CASE FailSaveLaunch(h)
    <3> DEFINE failed == [v \in Workers |-> [local[h].plan[v] EXCEPT
                                               !.lifecycle = FailedLifecycle(h, v)]]
    <3>1. /\ failed \in [Workers -> WorkerRecord]
          /\ \A v \in Workers : failed[v].observed = local[h].plan[v].observed
      BY LocalFields DEF FailedLifecycle, WorkerRecord, Lifecycle
    <3> HIDE DEF failed
    <3>2. UNCHANGED worker \/ worker' = SaveLaunchIn(Adapter, worker, failed)
      BY <2>1 DEF FailSaveLaunch, failed
    <3>3. QED
      BY <1>0, <1>a, <3>1, <3>2
  <2>2. CASE FailWorker(h)
    <3>1. PICK v \in Workers :
            \/ UNCHANGED worker
            \/ worker' = [worker EXCEPT ![v].lifecycle = FailedLifecycle(h, v)]
      BY <2>2, LocalFields DEF FailWorker
    <3>2. worker'[w].observed = worker[w].observed
      BY <3>1, StoreFields DEF WorkerRecord
    <3>3. QED
      BY <1>c, <3>2
  <2>3. QED
    BY <1>0, <1>3, <2>1, <2>2
       DEF FailStep, CompensateStop, CompensateClean, FailRun, FailArtifact,
           FailEvent, store
<1>4. CASE DispatchStep(h) \/ RunStopStep(h)
  <2>1. ASSUME NEW t \in StopTransition, ApplyStop(t)
        PROVE  worker'[w].observed = worker[w].observed
    <3>1. worker'[w] = StopWorkerPostgres(worker[w], t)
      BY <2>1 DEF ApplyStop, StopWorkersIn
    <3>2. QED
      BY <3>1, StoreFields DEF StopWorkerPostgres, WorkerRecord
  <2>2. QED
    BY <1>0, <1>c, <1>4, <2>1, StopWritesByTransition
<1>5. CASE GetStep(h)
  <2>1. CASE GetObserve(h)
    <3>1. PICK v \in Workers : Observe(v, local[h].seen[v]) \/ UNCHANGED worker
      BY <2>1, LocalFields DEF GetObserve
    <3>2. local[h].seen[v] \in ObservedState
      BY LocalFields
    <3>3. QED
      BY <1>0, <1>b, <3>1, <3>2
  <2>2. QED
    BY <1>0, <1>5, <2>1 DEF GetStep, GetRead, GetSync, ListEvents, store
<1>6. CASE IngestStep(h)
  <2>1. CASE IngestCount(h)
    <3>1. PICK v \in Workers :
            \/ UNCHANGED worker
            \/ worker' = [worker EXCEPT ![v] = CountFrameOf(worker[v])]
      BY <2>1, LocalFields DEF IngestCount
    <3>2. CountFrameOf(worker[w]).observed = worker[w].observed
      BY StoreFields DEF CountFrameOf, WorkerRecord
    <3>3. worker'[w].observed = worker[w].observed
      BY <3>1, <3>2, StoreFields
    <3>4. QED
      BY <1>c, <3>3
  <2>2. QED
    BY <1>0, <1>6, <2>1 DEF IngestStep, IngestRead, IngestPublish, store
<1>7. QED
  BY <1>1, <1>2, <1>3, <1>4, <1>5, <1>6 DEF HandlerStep

(* A recovery begins with a create that finds the Run made.                *)
LEMMA RecoveryBegins ==
  ASSUME TypeOK, NEW h \in Handlers, HandlerStep(h), pc'[h] \in RecoverCalls
  PROVE  \/ pc[h] \in RecoverCalls
         \/ pc[h] = "idle" /\ h \in Creates /\ created
<1>0. pc \in [Handlers -> Labels]
  BY DEF TypeOK, RequestTypeOK
<1>a. ASSUME NEW status, Answer(h, status) PROVE pc'[h] \in {"idle", "done"}
  BY <1>0, <1>a DEF Answer
<1>b. ASSUME NEW label, Goto(h, label) PROVE pc'[h] = label
  BY <1>0, <1>b DEF Goto
<1> USE DEF RecoverCalls
<1>1. CASE CreateStep(h)
  BY <1>a, <1>b, <1>1
     DEF CreateStep, CreateRun, InsertRun, RetryStaleRun, ReplayRun,
         LaunchWorker, SaveLaunch, SetStreaming, SaveArtifact
<1>2. CASE RecoverStep(h)
  BY <1>2 DEF RecoverStep, RecoverList, RecoverSync, RecoverObserve
<1>3. CASE FailStep(h)
  BY <1>a, <1>b, <1>3
     DEF FailStep, CompensateStop, CompensateClean, FailSaveLaunch, FailWorker,
         FailRun, FailArtifact, FailEvent
<1>4. CASE DispatchStep(h)
  BY <1>a, <1>b, <1>4
     DEF DispatchStep, ListIntents, Publish, MarkPublished, MarkFailed, Mark
<1>5. CASE RunStopStep(h)
  BY <1>a, <1>b, <1>5
     DEF RunStopStep, StopRead, StopRequest, StopRuntime, StopProgress,
         StopCleanup, StopFinal, StopStep
<1>6. CASE GetStep(h)
  BY <1>b, <1>6 DEF GetStep, GetRead, GetSync, GetObserve, ListEvents
<1>7. CASE IngestStep(h)
  BY <1>a, <1>b, <1>7 DEF IngestStep, IngestRead, IngestPublish, IngestCount
<1>8. QED
  BY <1>1, <1>2, <1>3, <1>4, <1>5, <1>6, <1>7 DEF HandlerStep

(* The only create inserts the Run, and is never again where it could find *)
(* it made.                                                                *)
LEMMA NoRetryKept ==
  ASSUME OneCreate, TypeOK, NoRecovery, NoRetry, [Next]_vars
  PROVE  NoRecovery' /\ NoRetry'
<1>1. ASSUME NEW g \in Handlers PROVE pc'[g] \notin RecoverCalls
  BY RecoveryBegins, StepMovesItself, OtherMoves DEF NoRecovery, NoRetry, RecoverCalls
<1>2. ASSUME created', NEW c \in Creates PROVE pc'[c] # "idle"
  <2>0. c \in Handlers /\ c \notin Pollers /\ pc \in [Handlers -> Labels]
    BY HandlersAssumption DEF Handlers, TypeOK, RequestTypeOK
  <2>1. CASE created
    <3>1. pc[c] # "idle"
      BY <2>1 DEF NoRetry
    <3>2. ASSUME HandlerStep(c) PROVE pc'[c] # "idle"
      BY <3>2, CreateMoves
    <3>3. QED
      BY <2>0, <3>1, <3>2, StepMovesItself, OtherMoves
  <2>2. CASE ~created
    <3>1. PICK h \in Handlers : CreateRun(h)
      BY <1>2, <2>2, OnlyCreateLaunches
    <3>2. h \in Creates /\ Goto(h, "launch")
      BY <1>2, <2>2, <3>1 DEF CreateRun, InsertRun, RetryStaleRun, ReplayRun
    <3>3. h = c
      BY <3>2 DEF OneCreate
    <3>4. QED
      BY <2>0, <3>2, <3>3 DEF Goto
  <2>3. QED
    BY <2>1, <2>2
<1>3. QED
  BY <1>1, <1>2 DEF NoRecovery, NoRetry

(* What a start saves was planned or launched by it.                       *)
LEMMA PlansStayUnobserved ==
  ASSUME TypeOK, NothingBefore, NoRecovery, PlansAreUnobserved, [Next]_vars
  PROVE  PlansAreUnobserved'
<1>1. ASSUME ~created', NEW w \in Workers PROVE worker'[w].observed = "none"
  <2>1. ~created
    BY <1>1, CreatedStays
  <2>2. UNCHANGED worker
    BY <1>1, <2>1, RefusedBefore, OthersWriteNothing
  <2>3. QED
    BY <2>1, <2>2 DEF PlansAreUnobserved
<1>2. ASSUME NEW g \in Handlers, NEW w \in Workers
      PROVE  local'[g].plan[w].observed = "none"
  <2>0. /\ local[g].plan[w].observed = "none"
        /\ PlannedWorker.observed = "none" /\ LaunchedWorker.observed = "none"
    BY DEF PlansAreUnobserved, PlannedWorker, LaunchedWorker
  <2>1. CASE HandlerStep(g)
    <3>1. ~RecoverStep(g)
      BY DEF NoRecovery, RecoverCalls, RecoverStep, RecoverList, RecoverSync,
             RecoverObserve
    <3>2. local'[g].plan[w] \in {local[g].plan[w], PlannedWorker, LaunchedWorker}
      BY <2>1, <3>1, HeldRecords DEF Held
    <3>3. QED
      BY <2>0, <3>2
  <2>2. CASE ~HandlerStep(g)
    <3>1. local'[g] \in {local[g], Blank}
      BY <2>2, StepKeepsOthers, OtherMoves
    <3>2. Blank.plan[w] = PlannedWorker
      BY DEF Blank
    <3>3. QED
      BY <2>0, <3>1, <3>2
  <2>3. QED
    BY <2>1, <2>2
<1>3. QED
  BY <1>1, <1>2 DEF PlansAreUnobserved

(* In the Postgres store, a worker keeps a terminal outcome once one was   *)
(* observed, whatever launch record, failure outcome or observation is     *)
(* saved later, by any creates and readers, over crashes and failing       *)
(* calls, in every behaviour in which no create recovers an incomplete     *)
(* start (applyObservedWorkerLifecycle, the COALESCE of SaveLaunch).       *)
THEOREM TerminalOutcomeStays ==
  ASSUME Adapter = "postgres"
  PROVE  Spec /\ []NoRecovery => TerminalObservationKept
<1> DEFINE Kept == \A w \in Workers : Terminal(worker[w].observed) =>
                                        Terminal(worker'[w].observed)
<1>1. Init => NothingBefore /\ PlansAreUnobserved
  <2>1. PlannedWorker \in WorkerRecord /\ PlannedWorker.observed = "none"
    BY FreshRecordsType DEF PlannedWorker
  <2>2. EnsureWorkerState(PlannedWorker).observed = "none"
    BY <2>1 DEF EnsureWorkerState, WorkerRecord
  <2>3. QED
    BY <2>1, <2>2, StartsWithNothing DEF Init, PlansAreUnobserved, Blank
<1>2. TypeOK /\ NoRecovery /\ NothingBefore /\ PlansAreUnobserved /\ [Next]_vars
        => NothingBefore' /\ PlansAreUnobserved'
  BY NothingBeforeKept, PlansStayUnobserved
<1>3. TypeOK /\ NoRecovery /\ PlansAreUnobserved /\ [Next]_vars => [Kept]_vars
  <2> SUFFICES ASSUME TypeOK, NoRecovery, PlansAreUnobserved, [Next]_vars PROVE Kept
    OBVIOUS
  <2>1. CASE \E h \in Handlers : HandlerStep(h)
    BY <2>1, OutcomesKept
  <2>2. CASE ~ \E h \in Handlers : HandlerStep(h)
    <3>1. UNCHANGED worker
      BY <2>2, OthersWriteNothing
    <3>2. QED
      BY <3>1
  <2>3. QED
    BY <2>1, <2>2
<1>4. QED
  BY <1>1, <1>2, <1>3, TypeCorrect, PTL DEF Spec, TerminalObservationKept

(* A Run that one create makes is never recovered: only a create that      *)
(* finds the Run made recovers it (RetryStaleRun), and the one that made   *)
(* it does not come again.                                                 *)
LEMMA OneCreateRecoversNothing ==
  ASSUME OneCreate
  PROVE  Spec => []NoRecovery
<1>1. Init => NoRecovery /\ NoRetry
  BY DEF Init, NoRecovery, NoRetry, RecoverCalls
<1>2. TypeOK /\ NoRecovery /\ NoRetry /\ [Next]_vars => NoRecovery' /\ NoRetry'
  BY NoRetryKept
<1>3. QED
  BY <1>1, <1>2, TypeCorrect, PTL DEF Spec

(* So the terminal outcomes of a Run that one create makes are kept in     *)
(* every behaviour (Start, recoverIncompleteStart).                        *)
THEOREM TerminalOutcomeOfOneCreateStays ==
  ASSUME Adapter = "postgres", OneCreate
  PROVE  Spec => TerminalObservationKept
BY TerminalOutcomeStays, OneCreateRecoversNothing, PTL
-----------------------------------------------------------------------------
(* The Run implements PublicationOutbox: what each step does to the        *)
(* lifecycle, the intents and the topics that occur in the log.            *)

(* A step that leaves the intents and no topic behind leaves a topic, or   *)
(* changes nothing the outbox is about.                                    *)
LEMMA OutboxLeaves ==
  ASSUME TypeOK, TypeOK', UNCHANGED intent,
         log' \in {log, Append(log, "failed")},
         run'.lifecycle = run.lifecycle \/ run'.lifecycle \notin Topics
  PROVE  [Outbox!Next]_(Outbox!vars)
<1>1. log \in Seq(Topics \cup {"failed"})
  BY DEF TypeOK, OutsideTypeOK
<1>2. \A t \in Topics : Occurs(t)' <=> Occurs(t)
  BY <1>1 DEF Occurs, Topics
<1>3. {t \in Topics : Occurs(t)}' = {t \in Topics : Occurs(t)}
  BY <1>2
<1>4. run'.lifecycle \in Lifecycle
  BY DEF TypeOK, StoreTypeOK, RunRecord
<1>5. CASE run'.lifecycle = run.lifecycle
  BY <1>3, <1>5 DEF Outbox!vars
<1>6. CASE run'.lifecycle \notin Topics
  BY <1>3, <1>4, <1>6 DEF Outbox!Next, Outbox!Leave
<1>7. QED
  BY <1>5, <1>6

(* A step that records an intent with the lifecycle it enters.             *)
LEMMA OutboxEnters ==
  ASSUME TypeOK, NEW t \in Topics, run'.lifecycle = t, UNCHANGED log,
         RecordIntent(t, t = "stopped")
  PROVE  [Outbox!Next]_(Outbox!vars)
<1>1. {x \in Topics : Occurs(x)}' = {x \in Topics : Occurs(x)}
  BY DEF Occurs
<1>2. intent' = [intent EXCEPT ![t] =
                   IF @ = "none"
                      \/ t \in IF Adapter = "memory" THEN {"stopped"} ELSE {}
                   THEN "pending" ELSE @]
  BY StoreFields DEF RecordIntent, RecordIntentIn
<1>3. Outbox!Enter(t)
  BY <1>1, <1>2 DEF Outbox!Enter
<1>4. QED
  BY <1>3 DEF Outbox!Next

(* What a handler has listed to publish, or is about to mark, has its      *)
(* intent on record; and what it is about to mark published is in the log. *)
HoldsRecorded ==
  \A h \in Handlers :
    /\ \A t \in local[h].due : intent[t] # "none"
    /\ pc[h] \in {"markPublished", "markFailed"} =>
         intent[local[h].topic] # "none"
OutboxInv == Delivered /\ HoldsRecorded

(* A publication, answered or not.                                         *)
LEMMA OutboxPublishes ==
  ASSUME TypeOK, HoldsRecorded, NEW h \in Handlers, NEW t \in local[h].due,
         UNCHANGED <<intent, run>>, log' \in {log, Append(log, t)}
  PROVE  [Outbox!Next]_(Outbox!vars)
<1>1. log \in Seq(Topics \cup {"failed"}) /\ t \in Topics
  BY LocalFields DEF TypeOK, OutsideTypeOK
<1>2. CASE log' = log
  <2>1. {x \in Topics : Occurs(x)}' = {x \in Topics : Occurs(x)}
    BY <1>2 DEF Occurs
  <2>2. QED
    BY <2>1 DEF Outbox!vars
<1>3. CASE log' = Append(log, t)
  <2>1. \A x \in Topics : Occurs(x)' <=> Occurs(x) \/ x = t
    BY <1>1, <1>3 DEF Occurs
  <2>2. {x \in Topics : Occurs(x)}' = {x \in Topics : Occurs(x)} \cup {t}
    BY <1>1, <2>1
  <2>3. Outbox!Publish(t)
    BY <2>2 DEF Outbox!Publish, HoldsRecorded
  <2>4. QED
    BY <1>1, <2>3 DEF Outbox!Next
<1>4. QED
  BY <1>2, <1>3

(* A mark, of a topic that is in the log if it is marked published.        *)
LEMMA OutboxMarks ==
  ASSUME TypeOK, OutboxInv, NEW h \in Handlers,
         MarkPublished(h) \/ MarkFailed(h)
  PROVE  [Outbox!Next]_(Outbox!vars)
<1> DEFINE t == local[h].topic
<1>1. t \in Topics
  BY LocalFields
<1>2. UNCHANGED <<run, log>>
  BY DEF MarkPublished, MarkFailed, Mark, outside
<1>3. {x \in Topics : Occurs(x)}' = {x \in Topics : Occurs(x)}
  BY <1>2 DEF Occurs
<1>4. intent[t] # "none"
  BY DEF MarkPublished, MarkFailed, Mark, OutboxInv, HoldsRecorded
<1>5. CASE UNCHANGED intent
  BY <1>2, <1>3, <1>5 DEF Outbox!vars
<1>6. CASE MarkPublished(h) /\ intent' = [intent EXCEPT ![t] = "published"]
  <2>1. Occurs(t)
    BY <1>6 DEF MarkPublished, Mark, OutboxInv, Delivered
  <2>2. Outbox!MarkPublished(t)
    BY <1>1, <1>2, <1>3, <1>4, <1>6, <2>1 DEF Outbox!MarkPublished
  <2>3. QED
    BY <1>1, <2>2 DEF Outbox!Next
<1>7. CASE MarkFailed(h) /\ intent' = [intent EXCEPT ![t] = "failed"]
  <2>1. Outbox!MarkFailed(t)
    BY <1>2, <1>3, <1>4, <1>7 DEF Outbox!MarkFailed
  <2>2. QED
    BY <1>1, <2>1 DEF Outbox!Next
<1>8. QED
  BY <1>5, <1>6, <1>7 DEF MarkPublished, MarkFailed, Mark

(* What a handler lists to publish is due, and it marks what it has listed.*)
ListsDue(h) ==
  /\ local'[h].due \subseteq local[h].due \cup Due
  /\ pc'[h] \in {"markPublished", "markFailed"} =>
       local'[h].topic \in local[h].due

LEMMA DispatchHolds ==
  ASSUME TypeOK, NEW h \in Handlers, HandlerStep(h)
  PROVE  ListsDue(h)
<1>0. /\ pc \in [Handlers -> Labels]
      /\ local \in [Handlers -> LocalRecord] /\ local[h] \in LocalRecord
  BY DEF TypeOK, RequestTypeOK
<1>a. ASSUME NEW status, Answer(h, status) PROVE ListsDue(h)
  BY <1>0, <1>a DEF Answer, Blank, ListsDue
<1>b. ASSUME NEW label, Goto(h, label),
             label \notin {"markPublished", "markFailed"},
             local'[h].due = local[h].due
      PROVE  ListsDue(h)
  BY <1>0, <1>b DEF Goto, ListsDue
<1>c. ASSUME pc'[h] = pc[h], pc[h] \notin {"markPublished", "markFailed"},
             local'[h].due = local[h].due
      PROVE  ListsDue(h)
  BY <1>c DEF ListsDue
<1>1. CASE CreateStep(h)
  <2>1. CASE LaunchWorker(h)
    <3>1. local'[h].due = local[h].due
      <4>1. PICK w \in Workers :
              \/ local' = [local EXCEPT ![h] = [local[h] EXCEPT
                     !.todo     = local[h].todo \ {w},
                     !.launched = local[h].launched \cup {w},
                     !.plan     = [local[h].plan EXCEPT ![w] = LaunchedWorker]]]
              \/ local' = [local EXCEPT ![h].todo = {}]
        BY <2>1, LocalFields DEF LaunchWorker, Hold
      <4>2. QED
        BY <1>0, <4>1 DEF LocalRecord
    <3>2. QED
      BY <1>b, <1>c, <2>1, <3>1 DEF LaunchWorker
  <2>2. CASE CreateRun(h)
    <3>1. CASE InsertRun(h)
      <4>1. local'[h].due = local[h].due
        BY <1>0, <3>1 DEF InsertRun, LocalRecord
      <4>2. QED
        BY <1>b, <3>1, <4>1 DEF InsertRun
    <3>2. CASE ~InsertRun(h)
      BY <1>a, <1>b, <2>2, <3>2 DEF CreateRun, RetryStaleRun, ReplayRun
    <3>3. QED
      BY <3>1, <3>2
  <2>3. CASE SaveLaunch(h) \/ SetStreaming(h) \/ SaveArtifact(h)
    BY <1>b, <2>3 DEF SaveLaunch, SetStreaming, SaveArtifact
  <2>4. QED
    BY <1>1, <2>1, <2>2, <2>3 DEF CreateStep
<1>2. CASE RecoverStep(h)
  <2>1. CASE RecoverList(h)
    <3>1. local'[h].due = local[h].due
      BY <1>0, <2>1 DEF RecoverList, LocalRecord
    <3>2. QED
      BY <1>b, <2>1, <3>1 DEF RecoverList
  <2>2. CASE RecoverSync(h)
    <3>1. local'[h].due = local[h].due
      <4>1. \/ \E seen, todo : local' = [local EXCEPT ![h] = [local[h] EXCEPT
                                          !.seen = seen, !.todo = todo]]
            \/ local' = local
        BY <2>2 DEF RecoverSync, Hold
      <4>2. QED
        BY <1>0, <4>1 DEF LocalRecord
    <3>2. QED
      BY <1>b, <2>2, <3>1 DEF RecoverSync
  <2>3. CASE RecoverObserve(h)
    <3>1. local'[h].due = local[h].due
      <4>1. PICK w \in Workers :
              \/ local' = [local EXCEPT ![h] = [local[h] EXCEPT
                              !.todo = local[h].todo \ {w}]]
              \/ local' = [local EXCEPT ![h] = [local[h] EXCEPT
                     !.todo     = local[h].todo \ {w},
                     !.launched = local[h].launched \cup {w},
                     !.plan     = [local[h].plan EXCEPT ![w] =
                        ApplyObserved(local[h].plan[w], local[h].seen[w], TRUE)]]]
        BY <2>3, LocalFields DEF RecoverObserve, Hold
      <4>2. QED
        BY <1>0, <4>1 DEF LocalRecord
    <3>2. QED
      BY <1>b, <1>c, <2>3, <3>1 DEF RecoverObserve
  <2>4. QED
    BY <1>2, <2>1, <2>2, <2>3 DEF RecoverStep
<1>3. CASE FailStep(h)
  <2>1. CASE CompensateStop(h) \/ CompensateClean(h) \/ FailSaveLaunch(h)
             \/ FailWorker(h)
    <3>1. local'[h].due = local[h].due
      BY <1>0, <2>1 DEF CompensateStop, CompensateClean, FailSaveLaunch,
                        FailWorker, LocalRecord
    <3>2. QED
      BY <1>b, <1>c, <2>1, <3>1
         DEF CompensateStop, CompensateClean, FailSaveLaunch, FailWorker
  <2>2. CASE FailRun(h) \/ FailArtifact(h) \/ FailEvent(h)
    BY <1>a, <1>b, <2>2 DEF FailRun, FailArtifact, FailEvent
  <2>3. QED
    BY <1>3, <2>1, <2>2 DEF FailStep
<1>4. CASE DispatchStep(h)
  <2>1. CASE ListIntents(h)
    <3>1. CASE local' = [local EXCEPT ![h].due = Due] /\ Goto(h, "publish")
      BY <1>0, <3>1 DEF Goto, LocalRecord, ListsDue
    <3>2. CASE Answer(h, "ok")
      BY <1>a, <3>2
    <3>3. QED
      BY <2>1, <3>1, <3>2 DEF ListIntents
  <2>2. CASE Publish(h)
    <3>1. ASSUME NEW t \in local[h].due,
                 Hold(h, [local[h] EXCEPT !.due = local[h].due \ {t}, !.topic = t])
          PROVE  local'[h].due \subseteq local[h].due /\ local'[h].topic = t
      BY <1>0, <3>1 DEF Hold, LocalRecord
    <3>2. QED
      BY <1>a, <2>2, <3>1 DEF Publish, Goto, Hold, ListsDue
  <2>3. CASE MarkPublished(h) \/ MarkFailed(h)
    BY <1>b, <2>3 DEF MarkPublished, MarkFailed, Mark
  <2>4. QED
    BY <1>4, <2>1, <2>2, <2>3 DEF DispatchStep
<1>5. CASE RunStopStep(h)
  <2>1. CASE StopRuntime(h) \/ StopCleanup(h)
    <3>1. local'[h].due = local[h].due
      BY <1>0, <2>1 DEF StopRuntime, StopCleanup, LocalRecord
    <3>2. QED
      BY <1>b, <2>1, <3>1 DEF StopRuntime, StopCleanup
  <2>2. CASE StopRead(h) \/ StopRequest(h) \/ StopProgress(h) \/ StopFinal(h)
    BY <1>a, <1>b, <2>2
       DEF StopRead, StopRequest, StopProgress, StopFinal, StopStep
  <2>3. QED
    BY <1>5, <2>1, <2>2 DEF RunStopStep
<1>6. CASE GetStep(h)
  <2>1. CASE GetSync(h)
    <3>1. local'[h].due = local[h].due
      <4>1. \/ \E seen, todo : local' = [local EXCEPT ![h] = [local[h] EXCEPT
                                          !.seen = seen, !.todo = todo]]
            \/ local' = local
        BY <2>1 DEF GetSync, Hold
      <4>2. QED
        BY <1>0, <4>1 DEF LocalRecord
    <3>2. QED
      BY <1>b, <2>1, <3>1 DEF GetSync
  <2>2. CASE GetRead(h) \/ GetObserve(h) \/ ListEvents(h)
    <3>1. local'[h].due = local[h].due
      BY <1>0, <2>2 DEF GetRead, GetObserve, ListEvents, LocalRecord
    <3>2. QED
      BY <1>b, <1>c, <2>2, <3>1 DEF GetRead, GetObserve, ListEvents
  <2>3. QED
    BY <1>6, <2>1, <2>2 DEF GetStep
<1>7. CASE IngestStep(h)
  <2>1. CASE IngestRead(h)
    <3>1. ASSUME NEW w, local' = [local EXCEPT ![h].todo = {w}]
          PROVE  local'[h].due = local[h].due
      BY <1>0, <3>1 DEF LocalRecord
    <3>2. QED
      BY <1>a, <1>b, <2>1, <3>1 DEF IngestRead
  <2>2. CASE IngestPublish(h) \/ IngestCount(h)
    BY <1>a, <1>b, <2>2 DEF IngestPublish, IngestCount
  <2>3. QED
    BY <1>7, <2>1, <2>2 DEF IngestStep
<1>8. QED
  BY <1>1, <1>2, <1>3, <1>4, <1>5, <1>6, <1>7 DEF HandlerStep

LEMMA HoldsRecordedKept ==
  ASSUME TypeOK, TypeOK', HoldsRecorded, [Next]_vars
  PROVE  HoldsRecorded'
<1>1. \A t \in Topics : intent[t] # "none" => intent'[t] # "none"
  BY TransitionRecordsIntent
<1>2. \A g \in Handlers : local[g].due \subseteq Topics /\ local[g].topic \in Topics
  BY LocalFields
<1> SUFFICES ASSUME NEW g \in Handlers
             PROVE  /\ \A t \in local'[g].due : intent'[t] # "none"
                    /\ pc'[g] \in {"markPublished", "markFailed"} =>
                         intent'[local'[g].topic] # "none"
  BY DEF HoldsRecorded
<1>3. CASE pc'[g] = pc[g] /\ local'[g] = local[g]
  BY <1>1, <1>2, <1>3 DEF HoldsRecorded
<1>4. CASE HandlerStep(g)
  <2>1. \A t \in local[g].due \cup Due : intent'[t] # "none"
    BY <1>1, <1>2 DEF HoldsRecorded, Due
  <2>2. QED
    BY <1>4, <2>1, DispatchHolds DEF ListsDue
<1>5. ASSUME NEW h \in Handlers, HandlerStep(h), h # g
      PROVE  pc'[g] = pc[g] /\ local'[g] = local[g]
  BY <1>5, StepMovesItself, StepKeepsOthers
<1>6. CASE Crash
  <2>1. pc'[g] \in {"idle", "done"} /\ local'[g].due = {}
    BY <1>6 DEF Crash, Blank
  <2>2. QED
    BY <2>1
<1>7. CASE (\E w \in Workers : WorkerExit(w)) \/ MinutePasses \/ UNCHANGED vars
  BY <1>3, <1>7 DEF WorkerExit, MinutePasses, vars, request
<1>8. QED
  BY <1>3, <1>4, <1>5, <1>6, <1>7 DEF Next

(* A stop transition enters stopped with its intent, or leaves the topics. *)
LEMMA OutboxStops ==
  ASSUME TypeOK, TypeOK', NEW t \in StopTransition, ApplyStop(t), UNCHANGED log
  PROVE  [Outbox!Next]_(Outbox!vars)
<1>1. run' = StopRunIn(Adapter, run, StopWorkersIn(Adapter, worker, t), t)
      /\ IF run'.phase = "stopped" THEN RecordIntent("stopped", TRUE)
         ELSE UNCHANGED intent
  BY DEF ApplyStop
<1>2. CASE run'.phase = "stopped"
  <2>1. run'.lifecycle = "stopped"
    BY <1>1, <1>2, StoreFields, StoppedPhase
  <2>2. QED
    BY <1>1, <1>2, <2>1, OutboxEnters DEF Topics
<1>3. CASE run'.phase # "stopped"
  <2>1. run'.lifecycle \notin Topics
    BY <1>1, <1>3, StoreFields, StopLeavesNoStreaming
  <2>2. QED
    BY <1>1, <1>3, <2>1, OutboxLeaves
<1>4. QED
  BY <1>2, <1>3

LEMMA OutboxSteps ==
  ASSUME TypeOK, TypeOK', OutboxInv, [Next]_vars
  PROVE  [Outbox!Next]_(Outbox!vars)
<1>1. ASSUME NEW h \in Handlers, HandlerStep(h)
      PROVE  [Outbox!Next]_(Outbox!vars)
  <2>1. CASE CreateStep(h)
    <3>1. UNCHANGED log
      BY <2>1 DEF CreateStep, CreateRun, LaunchWorker, SaveLaunch,
                  SetStreaming, SaveArtifact, outside
    <3>2. CASE SetStreaming(h)
      <4>1. CASE RecordIntent("streaming", FALSE)
                 /\ run' = SetRunLifecycleIn(Adapter, run, "streaming")
        <5>1. run'.lifecycle = "streaming"
          BY <4>1, StoreFields, SetRunLifecycleType DEF Lifecycle
        <5>2. ("streaming" = "stopped") = FALSE
          OBVIOUS
        <5>3. QED
          BY <3>1, <4>1, <5>1, <5>2, OutboxEnters DEF Topics
      <4>2. CASE UNCHANGED <<run, intent>>
        BY <3>1, <4>2, OutboxLeaves
      <4>3. QED
        BY <3>2, <4>1, <4>2 DEF SetStreaming
    <3>3. CASE CreateRun(h) \/ LaunchWorker(h) \/ SaveLaunch(h) \/ SaveArtifact(h)
      <4>1. UNCHANGED intent
        BY <3>3 DEF CreateRun, LaunchWorker, SaveLaunch, SaveArtifact, store
      <4>2. UNCHANGED run \/ run' = AdmittedRun
        BY <3>3 DEF CreateRun, InsertRun, RetryStaleRun, ReplayRun,
                    LaunchWorker, SaveLaunch, SaveArtifact, store
      <4>3. run'.lifecycle = run.lifecycle \/ run'.lifecycle \notin Topics
        BY <4>2 DEF AdmittedRun, Topics
      <4>4. QED
        BY <3>1, <4>1, <4>3, OutboxLeaves
    <3>4. QED
      BY <2>1, <3>2, <3>3 DEF CreateStep
  <2>2. CASE RecoverStep(h) \/ GetStep(h)
    <3>1. UNCHANGED <<intent, log>>
      BY <2>2 DEF RecoverStep, RecoverList, RecoverSync, RecoverObserve,
                  GetStep, GetRead, GetSync, GetObserve, ListEvents,
                  store, outside
    <3>2. UNCHANGED run \/ run' = ObserveRunIn(Adapter, run, worker')
      BY <2>2 DEF RecoverStep, RecoverList, RecoverSync, RecoverObserve,
                  GetStep, GetRead, GetSync, GetObserve, ListEvents, Observe,
                  store
    <3>3. run'.lifecycle = run.lifecycle
      BY <3>2, ObserveKeepsLifecycle, StoreFields
    <3>4. QED
      BY <3>1, <3>3, OutboxLeaves
  <2>3. CASE FailStep(h)
    <3>1. UNCHANGED intent /\ log' \in {log, Append(log, "failed")}
      BY <2>3 DEF FailStep, CompensateStop, CompensateClean, FailSaveLaunch,
                  FailWorker, FailRun, FailArtifact, FailEvent, store, outside
    <3>2. UNCHANGED run \/ run' = SetRunLifecycleIn(Adapter, run, "failed")
      BY <2>3 DEF FailStep, CompensateStop, CompensateClean, FailSaveLaunch,
                  FailWorker, FailRun, FailArtifact, FailEvent, store
    <3>3. SetRunLifecycleIn(Adapter, run, "failed").lifecycle = "failed"
      BY StoreFields, SetRunLifecycleType DEF Lifecycle
    <3>4. run'.lifecycle = run.lifecycle \/ run'.lifecycle \notin Topics
      BY <3>2, <3>3 DEF Topics
    <3>5. QED
      BY <3>1, <3>4, OutboxLeaves
  <2>4. CASE DispatchStep(h)
    <3>1. CASE ListIntents(h)
      BY <3>1, OutboxLeaves DEF ListIntents, store, outside
    <3>2. CASE Publish(h)
      <4>1. UNCHANGED <<intent, run>>
        BY <3>2 DEF Publish, store
      <4>2. \/ UNCHANGED log
            \/ \E t \in local[h].due : log' \in {log, Append(log, t)}
        BY <3>2 DEF Publish
      <4>3. QED
        BY <4>1, <4>2, OutboxLeaves, OutboxPublishes DEF OutboxInv
    <3>3. CASE MarkPublished(h) \/ MarkFailed(h)
      BY <3>3, OutboxMarks
    <3>4. QED
      BY <2>4, <3>1, <3>2, <3>3 DEF DispatchStep
  <2>5. CASE RunStopStep(h)
    <3>1. UNCHANGED log
      BY <2>5 DEF RunStopStep, StopRead, StopRequest, StopRuntime,
                  StopProgress, StopCleanup, StopFinal, StopStep, outside
    <3>2. \/ UNCHANGED <<run, intent>>
          \/ \E t \in StopTransition : ApplyStop(t)
      BY <2>5, StopStepsApply
         DEF RunStopStep, StopRead, StopRuntime, StopCleanup, store
    <3>3. QED
      BY <3>1, <3>2, OutboxLeaves, OutboxStops
  <2>6. CASE IngestStep(h)
    <3>1. UNCHANGED <<intent, run, log>>
      BY <2>6 DEF IngestStep, IngestRead, IngestPublish, IngestCount, store,
                  outside
    <3>2. QED
      BY <3>1, OutboxLeaves
  <2>7. QED
    BY <1>1, <2>1, <2>2, <2>3, <2>4, <2>5, <2>6 DEF HandlerStep
<1>2. CASE (\E w \in Workers : WorkerExit(w)) \/ MinutePasses \/ Crash
  <2>1. UNCHANGED <<intent, run, log>>
    BY <1>2 DEF WorkerExit, MinutePasses, Crash, store, outside
  <2>2. QED
    BY <2>1, OutboxLeaves
<1>3. CASE UNCHANGED vars
  BY <1>3, OutboxLeaves DEF vars, store, outside
<1>4. QED
  BY <1>1, <1>2, <1>3 DEF Next

(* The control plane keeps the promise of PublicationOutbox, in either     *)
(* store, over any requests, faults and crashes: a topic is published only *)
(* of a Run that entered it, the same call recorded its intent, and that   *)
(* intent is done only after its event                                     *)
(* (UpdateRunLifecycleWithPublicationIntent, ApplyStopTransition,          *)
(* dispatchSimopsPublicationIntents).                                      *)
THEOREM RunImplementsOutbox == Spec => ImplementsOutbox
<1>1. Init => Outbox!Init
  <2> SUFFICES ASSUME Init PROVE Outbox!Init
    OBVIOUS
  <2>1. \A t \in Topics : ~Occurs(t)
    BY DEF Init, Occurs
  <2>2. run.lifecycle \in Lifecycle \ Topics
    BY DEF Init, AdmittedRun, Lifecycle, Topics
  <2>3. QED
    BY <2>1, <2>2 DEF Init, Outbox!Init
<1>2. Init => HoldsRecorded
  BY DEF Init, Blank, HoldsRecorded
<1>3. TypeOK /\ TypeOK' /\ HoldsRecorded /\ [Next]_vars => HoldsRecorded'
  BY HoldsRecordedKept
<1>4. TypeOK /\ TypeOK' /\ Delivered /\ HoldsRecorded /\ [Next]_vars
        => [Outbox!Next]_(Outbox!vars)
  BY OutboxSteps DEF OutboxInv
<1>5. QED
  BY <1>1, <1>2, <1>3, <1>4, TypeCorrect, DeliveredIsInvariant, PTL
     DEF Spec, ImplementsOutbox, Outbox!Spec
=============================================================================
