--------------------------- MODULE SimopsRunProofs ---------------------------
(***************************************************************************)
(* Type correctness of the control plane of one Run, for every set of      *)
(* workers and of requests, either store, and any bound on faults and      *)
(* crashes: first of what the state algebra and the calls of the store     *)
(* return, then of every step of a handler.                                *)
(***************************************************************************)
EXTENDS SimopsRun, TLAPS

-----------------------------------------------------------------------------
(* plannedWorkerRecords and the runtime make worker records.               *)
LEMMA FreshRecordsType ==
  /\ PlannedWorker \in WorkerRecord
  /\ LaunchedWorker \in WorkerRecord
BY DEF PlannedWorker, LaunchedWorker, WorkerRecord, Lifecycle, WorkerPhase,
       Launch, Execution, Condition, Cleanup, ObservedState

(* Replacing the state of a worker by a state leaves a worker record.      *)
LEMMA StateUpdateType ==
  ASSUME NEW w \in WorkerRecord, NEW p \in WorkerPhase, NEW l \in Launch,
         NEW a \in Execution, NEW c \in Condition
  PROVE  /\ [w EXCEPT !.phase = p] \in WorkerRecord
         /\ [w EXCEPT !.condition = c] \in WorkerRecord
         /\ [w EXCEPT !.launch = l, !.phase = p] \in WorkerRecord
         /\ [w EXCEPT !.launch = l, !.phase = p, !.condition = c] \in WorkerRecord
         /\ [w EXCEPT !.launch = l, !.active = a, !.phase = p, !.condition = c]
              \in WorkerRecord
BY DEF WorkerRecord

(* ensureSimopsWorkerState keeps the type and leaves no state unset.       *)
LEMMA EnsureWorkerStateType ==
  ASSUME NEW w \in WorkerRecord
  PROVE  /\ EnsureWorkerState(w) \in WorkerRecord
         /\ EnsureWorkerState(w).phase \in WorkerPhase
<1>1. CASE w.phase # "unset"
  BY <1>1 DEF EnsureWorkerState, WorkerRecord
<1>2. CASE w.phase = "unset"
  <2> DEFINE p == PhaseOfWorker(w.lifecycle)
             a == IF w.lifecycle \in {"complete", "failed", "stopped"}
                  THEN "terminal" ELSE "unobserved"
             c == IF w.lifecycle = "failed" THEN "failed" ELSE "nominal"
             l == "unattempted"
             k == "not_requested"
             e == [w EXCEPT !.phase = p, !.launch = l, !.active = a,
                            !.condition = c, !.cleanup = k]
  <2>1. EnsureWorkerState(w) = e
    BY <1>2 DEF EnsureWorkerState
  <2>2. p \in WorkerPhase
    BY DEF PhaseOfWorker, WorkerPhase
  <2>3. a \in Execution /\ c \in Condition /\ l \in Launch /\ k \in Cleanup
    BY DEF Execution, Condition, Launch, Cleanup
  <2> HIDE DEF p, a, c, l, k
  <2>4. e \in WorkerRecord /\ e.phase \in WorkerPhase
    BY <2>2, <2>3 DEF WorkerRecord
  <2>5. QED
    BY <2>1, <2>4
<1>3. QED
  BY <1>1, <1>2

(* applyDegradation never improves a condition.                            *)
LEMMA DegradeType ==
  ASSUME NEW c \in Condition
  PROVE  /\ Degrade(c) \in Condition \ {"nominal"}
         /\ c = "failed" => Degrade(c) = "failed"
BY DEF Degrade, Condition

(* materializeWorkerLaunchState keeps the type.                            *)
LEMMA ApplyLaunchOutcomeType ==
  ASSUME NEW w \in WorkerRecord, NEW disposition
  PROVE  ApplyLaunchOutcome(w, disposition) \in WorkerRecord
<1>1. /\ "launched" \in Launch /\ "rejected" \in Launch
      /\ "attempted-absent" \in Launch
      /\ "launching" \in WorkerPhase /\ "failed" \in WorkerPhase
      /\ "failed" \in Condition /\ "uncertain" \in Execution
  BY DEF Launch, WorkerPhase, Condition, Execution
<1>2. w.condition \in Condition
  BY DEF WorkerRecord
<1>3. Degrade(w.condition) \in Condition
  BY <1>2, DegradeType
<1>4. CASE disposition = "launched"
  BY <1>1, <1>4, StateUpdateType DEF ApplyLaunchOutcome
<1>5. CASE disposition = "rejected"
  BY <1>1, <1>5, StateUpdateType, ZenonT(40) DEF ApplyLaunchOutcome
<1>6. CASE disposition = "attempted-absent"
  BY <1>1, <1>3, <1>6, StateUpdateType DEF ApplyLaunchOutcome
<1>7. CASE disposition \notin {"launched", "rejected", "attempted-absent"}
  BY <1>7 DEF ApplyLaunchOutcome
<1>8. QED
  BY <1>4, <1>5, <1>6, <1>7

(* Filling in a launched worker's state from its lifecycle keeps a record. *)
LEMMA MaterializeLaunchType ==
  ASSUME NEW w \in WorkerRecord
  PROVE  MaterializeLaunch(w) \in WorkerRecord
BY EnsureWorkerStateType, ApplyLaunchOutcomeType DEF MaterializeLaunch

(* Accepting or refusing an observed lifecycle keeps a record.             *)
LEMMA ApplyObservedType ==
  ASSUME NEW w \in WorkerRecord, NEW o \in ObservedState, NEW id \in BOOLEAN
  PROVE  ApplyObserved(w, o, id) \in WorkerRecord
BY DEF ApplyObserved, WorkerRecord

(* The state an observation sets is a worker's state.                      *)
LEMMA ApplyRuntimeObservationType ==
  ASSUME NEW w \in WorkerRecord, NEW o \in ObservedState
  PROVE  ApplyRuntimeObservation(w, o) \in WorkerRecord
<1> USE DEF WorkerRecord, WorkerPhase, Launch, Execution, Condition
<1>1. CASE w.active = "terminal" /\ ~Terminal(o)
  BY <1>1, DegradeType DEF ApplyRuntimeObservation
<1>2. CASE ~(w.active = "terminal" /\ ~Terminal(o))
  <2>1. CASE o = "active"
    BY <1>2, <2>1 DEF ApplyRuntimeObservation
  <2>2. CASE o = "succeeded"
    BY <1>2, <2>2 DEF ApplyRuntimeObservation
  <2>3. CASE o \in {"failed", "image-pull-failed"}
    BY <1>2, <2>3, ZenonT(40) DEF ApplyRuntimeObservation
  <2>4. CASE o = "stopped"
    BY <1>2, <2>4 DEF ApplyRuntimeObservation
  <2>5. CASE o \in {"missing", "pending"}
    BY <1>2, <2>5 DEF ApplyRuntimeObservation
  <2>6. QED
    BY <2>1, <2>2, <2>3, <2>4, <2>5 DEF ObservedState
<1>3. QED
  BY <1>1, <1>2

(* One worker's part of UpdateWorkerObservedLifecycle keeps a record.      *)
LEMMA ObserveWorkerType ==
  ASSUME NEW w \in WorkerRecord, NEW o \in ObservedState, NEW id \in BOOLEAN
  PROVE  ObserveWorker(w, o, id) \in WorkerRecord
<1> DEFINE e == EnsureWorkerState(ApplyObserved(w, o, id))
<1>1. e \in WorkerRecord
  BY ApplyObservedType, EnsureWorkerStateType
<1> HIDE DEF e
<1>2. ApplyRuntimeObservation(e, o) \in WorkerRecord
  BY <1>1, ApplyRuntimeObservationType
<1>3. QED
  BY <1>2 DEF ObserveWorker, e

(* applyWorkerCleanupOutcome keeps the type, and a failure.                *)
LEMMA ApplyCleanupOutcomeType ==
  ASSUME NEW w \in WorkerRecord, NEW cleanup \in Cleanup
  PROVE  /\ ApplyCleanupOutcome(w, cleanup) \in WorkerRecord
         /\ w.condition = "failed" =>
              ApplyCleanupOutcome(w, cleanup).condition = "failed"
<1> USE DEF WorkerRecord, ApplyCleanupOutcome
<1>1. CASE cleanup = "incomplete"
  BY <1>1, DegradeType
<1>2. CASE cleanup = "failed"
  BY <1>2 DEF Condition
<1>3. CASE cleanup \notin {"incomplete", "failed"}
  BY <1>3
<1>4. QED
  BY <1>1, <1>2, <1>3

(* UpdateWorkerFrames keeps the type.                                      *)
LEMMA CountFrameType ==
  ASSUME NEW w \in WorkerRecord
  PROVE  CountFrameOf(w) \in WorkerRecord
<1>1. w.frames + 1 \in Nat /\ "streaming" \in Lifecycle
  BY DEF WorkerRecord, Lifecycle
<1>2. QED
  BY <1>1 DEF CountFrameOf, WorkerRecord

-----------------------------------------------------------------------------
(* The lifecycles projected from a phase are lifecycles.                   *)
LEMMA ProjectionType ==
  ASSUME NEW phase
  PROVE  /\ ProjectWorkerLifecycle(phase) \in Lifecycle
         /\ ProjectRunLifecycle(phase) \in Lifecycle
BY DEF ProjectWorkerLifecycle, ProjectRunLifecycle, Lifecycle

(* deriveSimopsRunState and its counterpart in SQL keep the Run's type.    *)
LEMMA AggregateType ==
  ASSUME NEW row \in RunRecord, NEW table
  PROVE  /\ DeriveRunState(row, table) \in RunRecord
         /\ AggregatePostgres(row, table) \in RunRecord
<1>1. DeriveRunState(row, table) \in RunRecord
  BY DEF DeriveRunState, RunRecord, RunPhase, Condition
<1>2. AggregatePostgres(row, table) \in RunRecord
  BY DEF AggregatePostgres, RunRecord, RunPhase, Condition
<1>3. QED
  BY <1>1, <1>2

(* The Run's part of UpdateWorkerObservedLifecycle keeps a record.         *)
LEMMA ObserveRunType ==
  ASSUME NEW adapter, NEW row \in RunRecord, NEW table
  PROVE  ObserveRunIn(adapter, row, table) \in RunRecord
BY AggregateType DEF ObserveRunIn

(* UpdateRunLifecycle stores the lifecycle it is given.                    *)
LEMMA SetRunLifecycleType ==
  ASSUME NEW adapter, NEW row \in RunRecord, NEW lifecycle \in Lifecycle
  PROVE  /\ SetRunLifecycleIn(adapter, row, lifecycle) \in RunRecord
         /\ SetRunLifecycleIn(adapter, row, lifecycle).lifecycle = lifecycle
<1>1. PhaseOfRun(lifecycle) \in RunPhase
  BY DEF PhaseOfRun, RunPhase
<1>2. QED
  BY <1>1 DEF SetRunLifecycleIn, SetRunLifecycleMemory,
              SetRunLifecyclePostgres, RunRecord, Condition, Cleanup

(* SaveLaunch keeps the type of the workers.                               *)
LEMMA SaveLaunchType ==
  ASSUME NEW adapter, NEW table \in [Workers -> WorkerRecord],
         NEW records \in [Workers -> WorkerRecord]
  PROVE  SaveLaunchIn(adapter, table, records) \in [Workers -> WorkerRecord]
<1> SUFFICES ASSUME NEW w \in Workers
             PROVE  /\ MergeLaunchMemory(table[w], records[w]) \in WorkerRecord
                    /\ MergeLaunchPostgres(table[w], records[w]) \in WorkerRecord
  BY DEF SaveLaunchIn
<1>1. MaterializeLaunch(records[w]) \in WorkerRecord
  BY MaterializeLaunchType
<1>2. QED
  BY <1>1 DEF MergeLaunchMemory, MergeLaunchPostgres, WorkerRecord

-----------------------------------------------------------------------------
(* ApplyStopTransition keeps the types of the Run and of its workers.      *)
LEMMA StopWorkersType ==
  ASSUME NEW adapter, NEW table \in [Workers -> WorkerRecord],
         NEW t \in StopTransition
  PROVE  StopWorkersIn(adapter, table, t) \in [Workers -> WorkerRecord]
<1> SUFFICES ASSUME NEW w \in Workers
             PROVE  /\ StopWorkerMemory(table[w], t) \in WorkerRecord
                    /\ StopWorkerPostgres(table[w], t) \in WorkerRecord
  BY DEF StopWorkersIn
<1>1. t.cleanup \in Cleanup
  BY DEF StopTransition
<1>2. StopWorkerMemory(table[w], t) \in WorkerRecord
  <2> DEFINE cleaned == ApplyCleanupOutcome(EnsureWorkerState(table[w]), t.cleanup)
             judged  == IF ~t.stopFailure THEN cleaned
                        ELSE [cleaned EXCEPT
                               !.condition = IF t.stopConfirmed THEN "failed"
                                             ELSE Degrade(cleaned.condition)]
  <2>1. cleaned \in WorkerRecord
    BY <1>1, EnsureWorkerStateType, ApplyCleanupOutcomeType
  <2> HIDE DEF cleaned
  <2>2. judged \in WorkerRecord
    BY <2>1, DegradeType DEF WorkerRecord, Condition
  <2> HIDE DEF judged
  <2>3. [judged EXCEPT !.phase = "stopped", !.active = "terminal",
                       !.lifecycle = ProjectWorkerLifecycle("stopped")]
          \in WorkerRecord
    BY <2>2, ProjectionType DEF WorkerRecord, WorkerPhase, Execution
  <2>4. QED
    BY <2>2, <2>3 DEF StopWorkerMemory, judged, cleaned
<1>3. StopWorkerPostgres(table[w], t) \in WorkerRecord
  <2> DEFINE v == table[w]
             s == StopWorkerPostgres(v, t)
  <2>1. v \in WorkerRecord
    OBVIOUS
  <2>2. s = [v EXCEPT !.cleanup = s.cleanup, !.condition = s.condition,
                      !.phase = s.phase, !.active = s.active,
                      !.lifecycle = s.lifecycle]
    BY <2>1 DEF StopWorkerPostgres, WorkerRecord
  <2>3. /\ s.cleanup = t.cleanup
        /\ s.condition \in {v.condition, "degraded", "failed"}
        /\ s.phase \in {v.phase, "stopped"}
        /\ s.active \in {v.active, "terminal"}
        /\ s.lifecycle \in {v.lifecycle, "stopped"}
    BY <2>1 DEF StopWorkerPostgres, WorkerRecord
  <2>4. /\ "degraded" \in Condition /\ "failed" \in Condition
        /\ "stopped" \in WorkerPhase /\ "terminal" \in Execution
        /\ "stopped" \in Lifecycle
    BY DEF Condition, WorkerPhase, Execution, Lifecycle
  <2> HIDE DEF v, s
  <2>5. s \in WorkerRecord
    BY <1>1, <2>1, <2>2, <2>3, <2>4 DEF WorkerRecord
  <2>6. QED
    BY <2>5 DEF v, s
<1>4. QED
  BY <1>2, <1>3

(* The Run's part of ApplyStopTransition keeps a record, on either store.  *)
LEMMA StopRunType ==
  ASSUME NEW adapter, NEW row \in RunRecord, NEW table,
         NEW t \in StopTransition
  PROVE  StopRunIn(adapter, row, table, t) \in RunRecord
<1>1. t.cleanup \in Cleanup
  BY DEF StopTransition
<1>2. StopRunMemory(row, table, t) \in RunRecord
  <2> DEFINE stopping == [row EXCEPT !.cleanup = t.cleanup]
  <2>1. stopping \in RunRecord
    BY <1>1 DEF RunRecord
  <2> HIDE DEF stopping
  <2>2. DeriveRunState(stopping, table) \in RunRecord
    BY <2>1, AggregateType
  <2>3. [stopping EXCEPT !.phase = "stopping",
                         !.condition = IF row.condition = "failed" THEN "failed"
                                       ELSE "degraded"] \in RunRecord
    BY <2>1 DEF RunRecord, RunPhase, Condition
  <2>4. ASSUME NEW state \in RunRecord
        PROVE  [state EXCEPT !.lifecycle = ProjectRunLifecycle(state.phase)]
                 \in RunRecord
    BY ProjectionType DEF RunRecord
  <2>5. QED
    BY <2>2, <2>3, <2>4 DEF StopRunMemory, stopping
<1>3. StopRunPostgres(row, table, t) \in RunRecord
  BY <1>1, ProjectionType DEF StopRunPostgres, RunRecord, RunPhase, Condition
<1>4. QED
  BY <1>2, <1>3 DEF StopRunIn

(* Recording an intent leaves one, and keeps one that is still due.        *)
LEMMA RecordIntentType ==
  ASSUME NEW adapter, NEW state \in IntentState, NEW replaces \in BOOLEAN
  PROVE  /\ RecordIntentIn(adapter, state, replaces) \in IntentState
         /\ RecordIntentIn(adapter, state, replaces) # "none"
         /\ RecordIntentIn(adapter, state, replaces) = "published" =>
              state = "published"
BY DEF RecordIntentIn, IntentState

-----------------------------------------------------------------------------
(* The records a request and the store start with.                         *)
LEMMA BlankType == Blank \in LocalRecord
BY FreshRecordsType
   DEF Blank, LocalRecord, Topics, Verdict, NoVerdict, Lifecycle, ObservedState

(* The Run that create admits and its planned workers are well typed.      *)
LEMMA AdmittedType ==
  /\ AdmittedRun \in RunRecord
  /\ [w \in Workers |-> EnsureWorkerState(PlannedWorker)]
       \in [Workers -> WorkerRecord]
<1>1. AdmittedRun \in RunRecord
  BY DEF AdmittedRun, RunRecord, Lifecycle, RunPhase, Condition, Cleanup
<1>2. QED
  BY <1>1, FreshRecordsType, EnsureWorkerStateType

(* Before the first request everything is well typed.                      *)
LEMMA InitTypeOK == Init => TypeOK
<1> SUFFICES ASSUME Init PROVE TypeOK
  OBVIOUS
<1>1. StoreTypeOK
  BY AdmittedType DEF Init, StoreTypeOK, IntentState
<1>2. OutsideTypeOK
  BY DEF Init, OutsideTypeOK, Resource
<1>3. RequestTypeOK
  BY BlankType DEF Init, RequestTypeOK, Labels
<1>4. BoundsTypeOK
  BY DEF Init, BoundsTypeOK
<1>5. QED
  BY <1>1, <1>2, <1>3, <1>4 DEF TypeOK

(* What a step leaves alone keeps its type.                                *)
LEMMA Frames ==
  ASSUME TypeOK
  PROVE  /\ UNCHANGED store => StoreTypeOK'
         /\ UNCHANGED outside => OutsideTypeOK'
         /\ UNCHANGED request => RequestTypeOK'
         /\ UNCHANGED bounds => BoundsTypeOK'
<1>1. UNCHANGED store => StoreTypeOK'
  BY DEF TypeOK, StoreTypeOK, store
<1>2. UNCHANGED outside => OutsideTypeOK'
  BY DEF TypeOK, OutsideTypeOK, outside
<1>3. UNCHANGED request => RequestTypeOK'
  BY DEF TypeOK, RequestTypeOK, request
<1>4. UNCHANGED bounds => BoundsTypeOK'
  BY DEF TypeOK, BoundsTypeOK, bounds
<1>5. QED
  BY <1>1, <1>2, <1>3, <1>4

(* A call that may fail counts the fault or leaves the bounds alone.       *)
LEMMA BoundsStep ==
  ASSUME TypeOK, Fault \/ StoreFault \/ UNCHANGED faults,
         UNCHANGED <<launches, crashes>>
  PROVE  BoundsTypeOK'
BY DEF Fault, StoreFault, TypeOK, BoundsTypeOK

(* A handler goes to a label, holding a record; an answer resets it.       *)
LEMMA RequestStep ==
  ASSUME TypeOK, NEW h \in Handlers, NEW label \in Labels, NEW r \in LocalRecord,
         Goto(h, label) \/ UNCHANGED pc,
         Hold(h, r) \/ UNCHANGED local,
         UNCHANGED reply
  PROVE  RequestTypeOK'
BY DEF TypeOK, RequestTypeOK, Goto, Hold

(* An answered request is well typed: it forgets what it held.             *)
LEMMA AnswerStep ==
  ASSUME TypeOK, NEW h \in Handlers, NEW status \in {"ok", "error"},
         Answer(h, status)
  PROVE  RequestTypeOK'
BY BlankType DEF Answer, TypeOK, RequestTypeOK, Labels

(* What the store holds.                                                   *)
LEMMA StoreFields ==
  ASSUME TypeOK
  PROVE  /\ run \in RunRecord
         /\ worker \in [Workers -> WorkerRecord]
         /\ intent \in [Topics -> IntentState]
BY DEF TypeOK, StoreTypeOK

(* What a handler holds between two calls.                                 *)
LEMMA LocalFields ==
  ASSUME TypeOK, NEW h \in Handlers
  PROVE  /\ local[h] \in LocalRecord
         /\ local[h].plan \in [Workers -> WorkerRecord]
         /\ local[h].seen \in [Workers -> ObservedState]
         /\ local[h].todo \subseteq Workers
         /\ local[h].launched \subseteq Workers
         /\ local[h].due \subseteq Topics
         /\ local[h].topic \in Topics
         /\ local[h].stop \in Verdict /\ local[h].clean \in Verdict
         /\ local[h].unlisted \in BOOLEAN
BY DEF TypeOK, RequestTypeOK, LocalRecord

(* Each assignment a handler makes to what it holds keeps it well typed.   *)
LEMMA FieldTypes ==
  ASSUME NEW l \in LocalRecord
  PROVE  /\ \A S \in SUBSET Workers : [l EXCEPT !.todo = S] \in LocalRecord
         /\ \A p \in [Workers -> WorkerRecord] :
              [l EXCEPT !.plan = p] \in LocalRecord
         /\ \A S \in SUBSET Workers, s \in [Workers -> ObservedState] :
              [l EXCEPT !.seen = s, !.todo = S] \in LocalRecord
         /\ \A S, T \in SUBSET Workers, p \in [Workers -> WorkerRecord] :
              [l EXCEPT !.todo = S, !.launched = T, !.plan = p] \in LocalRecord
         /\ \A D \in SUBSET Topics : [l EXCEPT !.due = D] \in LocalRecord
         /\ \A D \in SUBSET Topics, t \in Topics :
              [l EXCEPT !.due = D, !.topic = t] \in LocalRecord
         /\ \A v \in Verdict : /\ [l EXCEPT !.stop = v] \in LocalRecord
                               /\ [l EXCEPT !.clean = v] \in LocalRecord
         /\ \A c \in Lifecycle : [l EXCEPT !.lifecycle = c] \in LocalRecord
         /\ [l EXCEPT !.unlisted = TRUE] \in LocalRecord
BY DEF LocalRecord

(* Stopping or removing containers keeps them well typed.                  *)
LEMMA ContainersType ==
  ASSUME TypeOK, NEW some, StopContainers(some) \/ RemoveContainers(some),
         UNCHANGED <<log, telemetry>>
  PROVE  OutsideTypeOK'
BY DEF TypeOK, OutsideTypeOK, StopContainers, RemoveContainers, Resource
-----------------------------------------------------------------------------
(* POST /runs keeps the types: SimopsRunLifecyclePolicy.Start.             *)
LEMMA CreateRunTypeOK ==
  ASSUME TypeOK, NEW h \in Handlers, CreateRun(h)
  PROVE  TypeOK'
<1>1. OutsideTypeOK'
  BY Frames DEF CreateRun
<1>2. StoreTypeOK'
  BY AdmittedType DEF CreateRun, InsertRun, RetryStaleRun, ReplayRun, TypeOK,
                      StoreTypeOK
<1>3. BoundsTypeOK'
  BY DEF CreateRun, InsertRun, RetryStaleRun, ReplayRun, StoreFault, Fault,
         TypeOK, BoundsTypeOK
<1>4. RequestTypeOK'
  <2>1. CASE InsertRun(h)
    <3>1. [local[h] EXCEPT !.todo = Workers] \in LocalRecord
      BY LocalFields, FieldTypes
    <3>2. Hold(h, [local[h] EXCEPT !.todo = Workers])
      BY <2>1 DEF InsertRun, Hold
    <3>3. Goto(h, "launch") /\ UNCHANGED reply
      BY <2>1 DEF InsertRun
    <3>4. QED
      BY <3>1, <3>2, <3>3, RequestStep DEF Labels
  <2>2. CASE RetryStaleRun(h)
    BY <2>2, LocalFields, RequestStep DEF RetryStaleRun, Labels
  <2>3. CASE ReplayRun(h) \/ Answer(h, "error")
    BY <2>3, AnswerStep DEF ReplayRun
  <2>4. QED
    BY <2>1, <2>2, <2>3 DEF CreateRun
<1>5. QED
  BY <1>1, <1>2, <1>3, <1>4 DEF TypeOK

(* StartRunProfiles: one container at a time, or a failed start.           *)
LEMMA LaunchWorkerTypeOK ==
  ASSUME TypeOK, NEW h \in Handlers, LaunchWorker(h)
  PROVE  TypeOK'
<1>1. StoreTypeOK'
  BY Frames DEF LaunchWorker
<1>2. BoundsTypeOK'
  BY BoundsStep DEF LaunchWorker
<1>3. OutsideTypeOK'
  BY DEF LaunchWorker, TypeOK, OutsideTypeOK, Resource
<1>4. RequestTypeOK'
  <2>1. PICK w \in local[h].todo :
          \/ /\ Hold(h, [local[h] EXCEPT
                   !.todo     = local[h].todo \ {w},
                   !.launched = local[h].launched \cup {w},
                   !.plan     = [local[h].plan EXCEPT ![w] = LaunchedWorker]])
             /\ Goto(h, "saveLaunch") \/ UNCHANGED pc
          \/ /\ Hold(h, [local[h] EXCEPT !.todo = {}])
             /\ Goto(h, "compensateStop")
    BY DEF LaunchWorker, Hold
  <2>2. w \in Workers
    BY LocalFields
  <2>3. [local[h].plan EXCEPT ![w] = LaunchedWorker] \in [Workers -> WorkerRecord]
    BY LocalFields, FreshRecordsType
  <2>4. [local[h] EXCEPT
           !.todo     = local[h].todo \ {w},
           !.launched = local[h].launched \cup {w},
           !.plan     = [local[h].plan EXCEPT ![w] = LaunchedWorker]]
          \in LocalRecord
    BY <2>2, <2>3, LocalFields, FieldTypes
  <2>5. [local[h] EXCEPT !.todo = {}] \in LocalRecord
    BY LocalFields, FieldTypes
  <2>6. UNCHANGED reply
    BY DEF LaunchWorker
  <2>7. QED
    BY <2>1, <2>4, <2>5, <2>6, RequestStep DEF Labels
<1>5. QED
  BY <1>1, <1>2, <1>3, <1>4 DEF TypeOK

(* Saving what the runtime launched, or failing to.                        *)
LEMMA SaveLaunchTypeOK ==
  ASSUME TypeOK, NEW h \in Handlers, SaveLaunch(h)
  PROVE  TypeOK'
<1>1. OutsideTypeOK' /\ BoundsTypeOK'
  BY Frames, BoundsStep DEF SaveLaunch
<1>2. StoreTypeOK'
  <2>1. SaveLaunchIn(Adapter, worker, local[h].plan) \in [Workers -> WorkerRecord]
    BY SaveLaunchType, LocalFields, StoreFields
  <2>2. QED
    BY <2>1 DEF SaveLaunch, TypeOK, StoreTypeOK
<1>3. RequestTypeOK'
  BY LocalFields, RequestStep DEF SaveLaunch, Labels
<1>4. QED
  BY <1>1, <1>2, <1>3 DEF TypeOK

(* RecordIntent changes nothing but the intents.                           *)
LEMMA RecordIntentStep ==
  ASSUME TypeOK, NEW t \in Topics, NEW replaces \in BOOLEAN,
         RecordIntent(t, replaces)
  PROVE  intent' \in [Topics -> IntentState]
BY RecordIntentType DEF RecordIntent, TypeOK, StoreTypeOK

(* The Streaming write with its publication intent.                        *)
LEMMA SetStreamingTypeOK ==
  ASSUME TypeOK, NEW h \in Handlers, SetStreaming(h)
  PROVE  TypeOK'
<1>1. OutsideTypeOK' /\ BoundsTypeOK'
  BY Frames, BoundsStep DEF SetStreaming
<1>2. StoreTypeOK'
  <2>1. SetRunLifecycleIn(Adapter, run, "streaming") \in RunRecord
    BY StoreFields, SetRunLifecycleType DEF Lifecycle
  <2>2. run' \in RunRecord /\ stale' \in BOOLEAN
    BY <2>1, StoreFields DEF SetStreaming, TypeOK, StoreTypeOK
  <2>3. intent' \in [Topics -> IntentState]
    BY StoreFields, RecordIntentStep DEF SetStreaming, Topics
  <2>4. QED
    BY <2>2, <2>3 DEF SetStreaming, TypeOK, StoreTypeOK
<1>3. RequestTypeOK'
  BY LocalFields, RequestStep DEF SetStreaming, Labels
<1>4. QED
  BY <1>1, <1>2, <1>3 DEF TypeOK

(* The artifact registration that ends a successful start.                 *)
LEMMA SaveArtifactTypeOK ==
  ASSUME TypeOK, NEW h \in Handlers, SaveArtifact(h)
  PROVE  TypeOK'
<1>1. OutsideTypeOK' /\ BoundsTypeOK'
  BY Frames, BoundsStep DEF SaveArtifact
<1>2. StoreTypeOK'
  BY DEF SaveArtifact, TypeOK, StoreTypeOK
<1>3. RequestTypeOK'
  BY LocalFields, RequestStep DEF SaveArtifact, Labels
<1>4. QED
  BY <1>1, <1>2, <1>3 DEF TypeOK
-----------------------------------------------------------------------------
(* The recovery of an incomplete start keeps the types.                    *)
LEMMA ObservationType ==
  ASSUME NEW resource, NEW lifecycle
  PROVE  Observation(resource, lifecycle) \in ObservedState
BY DEF Observation, ObservedState

(* UpdateWorkerObservedLifecycle keeps the store well typed.               *)
LEMMA ObserveStep ==
  ASSUME TypeOK, NEW w \in Workers, NEW o \in ObservedState, Observe(w, o),
         UNCHANGED <<created, intent, artifact>>
  PROVE  StoreTypeOK'
<1>1. worker[w] \in WorkerRecord /\ (o # "missing") \in BOOLEAN
  BY StoreFields
<1>2. ObserveWorker(worker[w], o, o # "missing") \in WorkerRecord
  BY <1>1, ObserveWorkerType
<1>3. worker' \in [Workers -> WorkerRecord]
  BY <1>2, StoreFields DEF Observe
<1>4. run' \in RunRecord /\ stale' \in BOOLEAN
  BY StoreFields, ObserveRunType DEF Observe
<1>5. QED
  BY <1>3, <1>4 DEF TypeOK, StoreTypeOK

(* Recovery: reading the workers of the stale Run.                         *)
LEMMA RecoverListTypeOK ==
  ASSUME TypeOK, NEW h \in Handlers, RecoverList(h)
  PROVE  TypeOK'
<1>1. StoreTypeOK' /\ OutsideTypeOK' /\ BoundsTypeOK'
  BY Frames, BoundsStep DEF RecoverList
<1>2. /\ [local[h] EXCEPT !.plan = worker] \in LocalRecord
      /\ [local[h] EXCEPT !.unlisted = TRUE] \in LocalRecord
  BY LocalFields, FieldTypes, StoreFields
<1>3. RequestTypeOK'
  BY <1>2, RequestStep DEF RecoverList, Hold, Labels
<1>4. QED
  BY <1>1, <1>3 DEF TypeOK

(* Recovery: asking the runtime what runs.                                 *)
LEMMA RecoverSyncTypeOK ==
  ASSUME TypeOK, NEW h \in Handlers, RecoverSync(h)
  PROVE  TypeOK'
<1>1. StoreTypeOK' /\ OutsideTypeOK' /\ BoundsTypeOK'
  BY Frames, BoundsStep DEF RecoverSync
<1>2. [local[h] EXCEPT
         !.seen = [w \in Workers |-> Observation(exec[w], "starting")],
         !.todo = Workers] \in LocalRecord
  BY LocalFields, FieldTypes, ObservationType
<1>3. RequestTypeOK'
  BY <1>2, RequestStep DEF RecoverSync, Labels
<1>4. QED
  BY <1>1, <1>3 DEF TypeOK

(* Recovery: recording one observation, or resuming the start.             *)
LEMMA RecoverObserveTypeOK ==
  ASSUME TypeOK, NEW h \in Handlers, RecoverObserve(h)
  PROVE  TypeOK'
<1>1. OutsideTypeOK' /\ BoundsTypeOK'
  BY Frames, BoundsStep DEF RecoverObserve
<1> DEFINE seen(w) == local[h].seen[w]
           skip(w) == [local[h] EXCEPT !.todo = local[h].todo \ {w}]
           keep(w) == [local[h] EXCEPT
                         !.todo     = local[h].todo \ {w},
                         !.launched = local[h].launched \cup {w},
                         !.plan     = [local[h].plan EXCEPT ![w] =
                           ApplyObserved(local[h].plan[w], seen(w), TRUE)]]
<1>2. PICK w \in local[h].todo :
        /\ Hold(h, IF seen(w) = "missing" THEN skip(w) ELSE keep(w))
        /\ Goto(h, "compensateStop") \/ UNCHANGED pc
        /\ Observe(w, seen(w)) \/ UNCHANGED <<worker, run, stale>>
  BY DEF RecoverObserve
<1>3. w \in Workers /\ seen(w) \in ObservedState
  BY LocalFields
<1>4. StoreTypeOK'
  <2>1. UNCHANGED <<created, intent, artifact>>
    BY DEF RecoverObserve
  <2>2. CASE Observe(w, seen(w))
    BY <1>3, <2>1, <2>2, ObserveStep
  <2>3. CASE UNCHANGED <<worker, run, stale>>
    BY <2>1, <2>3 DEF TypeOK, StoreTypeOK
  <2>4. QED
    BY <1>2, <2>2, <2>3
<1>5. skip(w) \in LocalRecord
  BY LocalFields, FieldTypes
<1>6. keep(w) \in LocalRecord
  <2>1. local[h].plan[w] \in WorkerRecord
    BY <1>3, LocalFields
  <2>2. ApplyObserved(local[h].plan[w], seen(w), TRUE) \in WorkerRecord
    BY <1>3, <2>1, ApplyObservedType
  <2>3. [local[h].plan EXCEPT ![w] =
           ApplyObserved(local[h].plan[w], seen(w), TRUE)]
          \in [Workers -> WorkerRecord]
    BY <2>2, LocalFields
  <2>4. QED
    BY <1>3, <2>3, LocalFields, FieldTypes
<1>7. UNCHANGED reply
  BY DEF RecoverObserve
<1> HIDE DEF skip, keep
<1>8. RequestTypeOK'
  BY <1>2, <1>5, <1>6, <1>7, RequestStep DEF Labels
<1>9. QED
  BY <1>1, <1>4, <1>8 DEF TypeOK
-----------------------------------------------------------------------------
(* SimopsRunLifecyclePolicy.fail and compensate keep the types.            *)
LEMMA CompensateStopTypeOK ==
  ASSUME TypeOK, NEW h \in Handlers, CompensateStop(h)
  PROVE  TypeOK'
<1>1. StoreTypeOK' /\ BoundsTypeOK' /\ OutsideTypeOK'
  BY Frames, BoundsStep, ContainersType DEF CompensateStop
<1>2. [local[h] EXCEPT !.stop = "uncertain"] \in LocalRecord
  BY LocalFields, FieldTypes DEF Verdict
<1>3. RequestTypeOK'
  BY <1>2, LocalFields, RequestStep DEF CompensateStop, Hold, Labels
<1>4. QED
  BY <1>1, <1>3 DEF TypeOK

(* Compensation: removing the containers that were launched.               *)
LEMMA CompensateCleanTypeOK ==
  ASSUME TypeOK, NEW h \in Handlers, CompensateClean(h)
  PROVE  TypeOK'
<1>1. StoreTypeOK' /\ BoundsTypeOK' /\ OutsideTypeOK'
  BY Frames, BoundsStep, ContainersType DEF CompensateClean
<1>2. [local[h] EXCEPT !.clean = "uncertain"] \in LocalRecord
  BY LocalFields, FieldTypes DEF Verdict
<1>3. RequestTypeOK'
  BY <1>2, LocalFields, RequestStep DEF CompensateClean, Hold, Labels
<1>4. QED
  BY <1>1, <1>3 DEF TypeOK

(* fail: saving the failed launch outcomes.                                *)
LEMMA FailSaveLaunchTypeOK ==
  ASSUME TypeOK, NEW h \in Handlers, FailSaveLaunch(h)
  PROVE  TypeOK'
<1>1. OutsideTypeOK' /\ BoundsTypeOK'
  BY Frames, BoundsStep DEF FailSaveLaunch
<1> DEFINE failed == [w \in Workers |-> [local[h].plan[w] EXCEPT
                                           !.lifecycle = FailedLifecycle(h, w)]]
<1>2. failed \in [Workers -> WorkerRecord]
  BY LocalFields DEF FailedLifecycle, WorkerRecord, Lifecycle
<1>3. StoreTypeOK'
  <2>1. SaveLaunchIn(Adapter, worker, failed) \in [Workers -> WorkerRecord]
    BY <1>2, SaveLaunchType, StoreFields
  <2>2. QED
    BY <2>1 DEF FailSaveLaunch, TypeOK, StoreTypeOK
<1>4. [local[h] EXCEPT !.todo = Workers] \in LocalRecord
  BY LocalFields, FieldTypes
<1>5. RequestTypeOK'
  BY <1>4, RequestStep DEF FailSaveLaunch, Hold, Labels
<1>6. QED
  BY <1>1, <1>3, <1>5 DEF TypeOK

(* fail: writing one worker's lifecycle.                                   *)
LEMMA FailWorkerTypeOK ==
  ASSUME TypeOK, NEW h \in Handlers, FailWorker(h)
  PROVE  TypeOK'
<1>1. OutsideTypeOK' /\ BoundsTypeOK'
  BY Frames, BoundsStep DEF FailWorker
<1>2. PICK w \in local[h].todo :
        /\ \/ worker' = [worker EXCEPT ![w].lifecycle = FailedLifecycle(h, w)]
           \/ UNCHANGED worker
        /\ Hold(h, [local[h] EXCEPT !.todo = local[h].todo \ {w}])
        /\ Goto(h, "failRun") \/ UNCHANGED pc
  BY DEF FailWorker, Hold
<1>3. StoreTypeOK'
  <2>1. worker[w] \in WorkerRecord /\ FailedLifecycle(h, w) \in Lifecycle
    BY LocalFields, StoreFields DEF FailedLifecycle, Lifecycle
  <2>2. [worker[w] EXCEPT !.lifecycle = FailedLifecycle(h, w)] \in WorkerRecord
    BY <2>1 DEF WorkerRecord
  <2>3. worker' \in [Workers -> WorkerRecord]
    BY <1>2, <2>2, StoreFields
  <2>4. QED
    BY <2>3 DEF FailWorker, TypeOK, StoreTypeOK
<1>4. [local[h] EXCEPT !.todo = local[h].todo \ {w}] \in LocalRecord
  BY LocalFields, FieldTypes
<1>5. UNCHANGED reply
  BY DEF FailWorker
<1>6. RequestTypeOK'
  BY <1>2, <1>4, <1>5, RequestStep DEF Labels
<1>7. QED
  BY <1>1, <1>3, <1>6 DEF TypeOK

(* fail: writing the Run's lifecycle.                                      *)
LEMMA FailRunTypeOK ==
  ASSUME TypeOK, NEW h \in Handlers, FailRun(h)
  PROVE  TypeOK'
<1>1. OutsideTypeOK' /\ BoundsTypeOK'
  BY Frames, BoundsStep DEF FailRun
<1>2. SetRunLifecycleIn(Adapter, run, "failed") \in RunRecord
  BY SetRunLifecycleType, StoreFields DEF Lifecycle
<1>3. StoreTypeOK'
  BY <1>2 DEF FailRun, TypeOK, StoreTypeOK
<1>4. RequestTypeOK'
  BY LocalFields, RequestStep DEF FailRun, Labels
<1>5. QED
  BY <1>1, <1>3, <1>4 DEF TypeOK

(* fail: the artifact of a failed Run.                                     *)
LEMMA FailArtifactTypeOK ==
  ASSUME TypeOK, NEW h \in Handlers, FailArtifact(h)
  PROVE  TypeOK'
<1>1. OutsideTypeOK' /\ BoundsTypeOK'
  BY Frames, BoundsStep DEF FailArtifact
<1>2. StoreTypeOK'
  BY DEF FailArtifact, TypeOK, StoreTypeOK
<1>3. RequestTypeOK'
  BY LocalFields, RequestStep DEF FailArtifact, Labels
<1>4. QED
  BY <1>1, <1>2, <1>3 DEF TypeOK

(* eventLog.Publish only appends lifecycles.                               *)
LEMMA LogStep ==
  ASSUME TypeOK, NEW e \in Topics \cup {"failed"},
         log' \in {log, Append(log, e)}, UNCHANGED <<exec, telemetry>>
  PROVE  OutsideTypeOK'
BY DEF TypeOK, OutsideTypeOK

(* fail: the failure event on the log.                                     *)
LEMMA FailEventTypeOK ==
  ASSUME TypeOK, NEW h \in Handlers, FailEvent(h)
  PROVE  TypeOK'
<1>1. StoreTypeOK' /\ BoundsTypeOK'
  BY Frames, BoundsStep DEF FailEvent
<1>2. OutsideTypeOK'
  BY LogStep DEF FailEvent
<1>3. RequestTypeOK'
  BY AnswerStep DEF FailEvent
<1>4. QED
  BY <1>1, <1>2, <1>3 DEF TypeOK
-----------------------------------------------------------------------------
(* dispatchSimopsPublicationIntents keeps the types.                       *)
LEMMA ListIntentsTypeOK ==
  ASSUME TypeOK, NEW h \in Handlers, ListIntents(h)
  PROVE  TypeOK'
<1>1. StoreTypeOK' /\ OutsideTypeOK' /\ BoundsTypeOK'
  BY Frames, BoundsStep DEF ListIntents
<1>2. [local[h] EXCEPT !.due = Due] \in LocalRecord
  BY LocalFields, FieldTypes DEF Due
<1>3. RequestTypeOK'
  <2>1. CASE Answer(h, "ok")
    BY <2>1, AnswerStep
  <2>2. CASE ~Answer(h, "ok")
    BY <1>2, <2>2, RequestStep DEF ListIntents, Hold, Labels
  <2>3. QED
    BY <2>1, <2>2
<1>4. QED
  BY <1>1, <1>3 DEF TypeOK

(* Dispatch: publishing one due intent.                                    *)
LEMMA PublishTypeOK ==
  ASSUME TypeOK, NEW h \in Handlers, Publish(h)
  PROVE  TypeOK'
<1>1. StoreTypeOK' /\ BoundsTypeOK'
  BY Frames, BoundsStep DEF Publish
<1>2. CASE Answer(h, "ok") /\ UNCHANGED log
  <2>1. OutsideTypeOK'
    BY <1>2, Frames DEF Publish, outside
  <2>2. QED
    BY <1>1, <1>2, <2>1, AnswerStep DEF TypeOK
<1>3. CASE \E t \in local[h].due :
             /\ Hold(h, [local[h] EXCEPT !.due = local[h].due \ {t}, !.topic = t])
             /\ log' \in {log, Append(log, t)}
             /\ Goto(h, "markPublished") \/ Goto(h, "markFailed")
             /\ UNCHANGED reply
  <2>1. PICK t \in local[h].due :
             /\ Hold(h, [local[h] EXCEPT !.due = local[h].due \ {t}, !.topic = t])
             /\ log' \in {log, Append(log, t)}
             /\ Goto(h, "markPublished") \/ Goto(h, "markFailed")
             /\ UNCHANGED reply
    BY <1>3
  <2>2. t \in Topics
    BY LocalFields
  <2>3. [local[h] EXCEPT !.due = local[h].due \ {t}, !.topic = t] \in LocalRecord
    BY <2>2, LocalFields, FieldTypes
  <2>4. OutsideTypeOK'
    BY <2>1, <2>2, LogStep DEF Publish
  <2>5. RequestTypeOK'
    BY <2>1, <2>3, RequestStep DEF Labels
  <2>6. QED
    BY <1>1, <2>4, <2>5 DEF TypeOK
<1>4. QED
  BY <1>2, <1>3 DEF Publish

(* Dispatch: recording an intent published or failed.                      *)
LEMMA MarkTypeOK ==
  ASSUME TypeOK, NEW h \in Handlers, MarkPublished(h) \/ MarkFailed(h)
  PROVE  TypeOK'
<1>1. PICK label \in Labels, state \in IntentState : Mark(h, label, state)
  BY DEF MarkPublished, MarkFailed, Labels, IntentState
<1>2. OutsideTypeOK' /\ BoundsTypeOK'
  BY <1>1, Frames, BoundsStep DEF Mark
<1>3. StoreTypeOK'
  BY <1>1, LocalFields DEF Mark, TypeOK, StoreTypeOK
<1>4. RequestTypeOK'
  BY <1>1, LocalFields, RequestStep DEF Mark, Labels
<1>5. QED
  BY <1>2, <1>3, <1>4 DEF TypeOK
-----------------------------------------------------------------------------
(* POST /runs/{id}/stop keeps the types: SimopsStopOrchestrator.Stop.      *)
LEMMA StopReadTypeOK ==
  ASSUME TypeOK, NEW h \in Handlers, StopRead(h)
  PROVE  TypeOK'
<1>1. StoreTypeOK' /\ OutsideTypeOK' /\ BoundsTypeOK'
  BY Frames DEF StopRead
<1>2. RequestTypeOK'
  BY LocalFields, AnswerStep, RequestStep DEF StopRead, Labels
<1>3. QED
  BY <1>1, <1>2 DEF TypeOK

(* What the stop orchestrator hands the store is a stop transition.        *)
LEMMA StopFactType ==
  ASSUME NEW cleanup \in Cleanup, NEW stop, NEW clean
  PROVE  StopFact(cleanup, stop, clean) \in StopTransition
BY DEF StopFact, StopTransition

(* ApplyStopTransition keeps the store well typed, on either store.        *)
LEMMA ApplyStopStep ==
  ASSUME TypeOK, NEW t \in StopTransition, ApplyStop(t),
         UNCHANGED <<created, artifact>>
  PROVE  StoreTypeOK'
<1> DEFINE workers == StopWorkersIn(Adapter, worker, t)
           after   == StopRunIn(Adapter, run, workers, t)
<1>1. workers \in [Workers -> WorkerRecord]
  BY StoreFields, StopWorkersType
<1>2. after \in RunRecord
  BY StoreFields, StopRunType
<1>3. intent' \in [Topics -> IntentState]
  <2>1. RecordIntent("stopped", TRUE) \/ UNCHANGED intent
    BY DEF ApplyStop
  <2>2. QED
    BY <2>1, StoreFields, RecordIntentStep DEF Topics
<1>4. worker' = workers /\ run' = after /\ stale' = FALSE
  BY DEF ApplyStop
<1> HIDE DEF workers, after
<1>5. QED
  BY <1>1, <1>2, <1>3, <1>4 DEF TypeOK, StoreTypeOK

(* A stop step that records a transition is well typed, if its request is. *)
LEMMA StopStepTypeOK ==
  ASSUME TypeOK, NEW h \in Handlers, NEW label, NEW t \in StopTransition,
         StopStep(h, label, t, RequestTypeOK')
  PROVE  TypeOK'
<1>1. OutsideTypeOK' /\ BoundsTypeOK'
  BY Frames, BoundsStep DEF StopStep
<1>2. StoreTypeOK'
  <2>1. CASE ApplyStop(t)
    BY <2>1, ApplyStopStep DEF StopStep
  <2>2. CASE UNCHANGED <<worker, run, stale, intent>>
    BY <2>2 DEF StopStep, TypeOK, StoreTypeOK
  <2>3. QED
    BY <2>1, <2>2 DEF StopStep
<1>3. RequestTypeOK'
  BY AnswerStep DEF StopStep
<1>4. QED
  BY <1>1, <1>2, <1>3 DEF TypeOK

(* The three transitions a stop records.                                   *)
LEMMA StopRecordsTypeOK ==
  ASSUME TypeOK, NEW h \in Handlers,
         StopRequest(h) \/ StopProgress(h) \/ StopFinal(h)
  PROVE  TypeOK'
<1>1. CASE StopRequest(h)
  <2>1. Goto(h, "stopRuntime") /\ UNCHANGED <<local, reply>> => RequestTypeOK'
    BY LocalFields, RequestStep DEF Labels
  <2>2. StopFact("requested", "ok", "ok") \in StopTransition
    BY StopFactType DEF Cleanup
  <2>3. StopStep(h, "stopRequest", StopFact("requested", "ok", "ok"), RequestTypeOK')
    BY <1>1, <2>1 DEF StopRequest, StopStep
  <2>4. QED
    BY <2>2, <2>3, StopStepTypeOK
<1>2. CASE StopProgress(h)
  <2> DEFINE t == StopFact("in_progress", local[h].stop, "ok")
  <2>1. Goto(h, "stopCleanup") /\ UNCHANGED <<local, reply>> => RequestTypeOK'
    BY LocalFields, RequestStep DEF Labels
  <2>2. t \in StopTransition
    BY StopFactType DEF Cleanup
  <2> HIDE DEF t
  <2>3. StopStep(h, "stopProgress", t, RequestTypeOK')
    BY <1>2, <2>1 DEF StopProgress, StopStep, t
  <2>4. QED
    BY <2>2, <2>3, StopStepTypeOK
<1>3. CASE StopFinal(h)
  <2> DEFINE t == StopFact(CleanupOf(local[h].clean), local[h].stop, local[h].clean)
  <2>1. Goto(h, "dispatch") /\ UNCHANGED <<local, reply>> => RequestTypeOK'
    BY LocalFields, RequestStep DEF Labels
  <2>2. Answer(h, "error") => RequestTypeOK'
    BY AnswerStep
  <2>3. t \in StopTransition
    BY StopFactType DEF CleanupOf, Cleanup
  <2> HIDE DEF t
  <2>4. StopStep(h, "stopFinal", t, RequestTypeOK')
    BY <1>3, <2>1, <2>2 DEF StopFinal, StopStep, t
  <2>5. QED
    BY <2>3, <2>4, StopStepTypeOK
<1>4. QED
  BY <1>1, <1>2, <1>3

(* Stop: the runtime stops the Run's containers.                           *)
LEMMA StopRuntimeTypeOK ==
  ASSUME TypeOK, NEW h \in Handlers, StopRuntime(h)
  PROVE  TypeOK'
<1>1. StoreTypeOK' /\ BoundsTypeOK' /\ OutsideTypeOK'
  BY Frames, BoundsStep, ContainersType DEF StopRuntime
<1>2. \A e \in RuntimeErrors : [local[h] EXCEPT !.stop = e] \in LocalRecord
  BY LocalFields, FieldTypes, ParameterAssumption DEF Verdict
<1>3. RequestTypeOK'
  BY <1>2, LocalFields, RequestStep DEF StopRuntime, Hold, Labels
<1>4. QED
  BY <1>1, <1>3 DEF TypeOK

(* Stop: the runtime removes the Run's containers.                         *)
LEMMA StopCleanupTypeOK ==
  ASSUME TypeOK, NEW h \in Handlers, StopCleanup(h)
  PROVE  TypeOK'
<1>1. StoreTypeOK' /\ BoundsTypeOK' /\ OutsideTypeOK'
  BY Frames, BoundsStep, ContainersType DEF StopCleanup
<1>2. \A e \in RuntimeErrors : [local[h] EXCEPT !.clean = e] \in LocalRecord
  BY LocalFields, FieldTypes, ParameterAssumption DEF Verdict
<1>3. RequestTypeOK'
  BY <1>2, LocalFields, RequestStep DEF StopCleanup, Hold, Labels
<1>4. QED
  BY <1>1, <1>3 DEF TypeOK
-----------------------------------------------------------------------------
(* Reads and ingests keep the types.                                       *)
LEMMA GetReadTypeOK ==
  ASSUME TypeOK, NEW h \in Handlers, GetRead(h)
  PROVE  TypeOK'
<1>1. StoreTypeOK' /\ OutsideTypeOK' /\ BoundsTypeOK'
  BY Frames DEF GetRead
<1>2. run.lifecycle \in Lifecycle
  BY StoreFields DEF RunRecord
<1>3. [local[h] EXCEPT !.lifecycle = run.lifecycle] \in LocalRecord
  BY <1>2, LocalFields, FieldTypes
<1>4. RequestTypeOK'
  BY <1>3, RequestStep DEF GetRead, Hold, Labels
<1>5. QED
  BY <1>1, <1>4 DEF TypeOK

(* GET: asking the runtime what runs.                                      *)
LEMMA GetSyncTypeOK ==
  ASSUME TypeOK, NEW h \in Handlers, GetSync(h)
  PROVE  TypeOK'
<1>1. StoreTypeOK' /\ OutsideTypeOK' /\ BoundsTypeOK'
  BY Frames, BoundsStep DEF GetSync
<1>2. [local[h] EXCEPT
         !.seen = [w \in Workers |-> Observation(exec[w], local[h].lifecycle)],
         !.todo = Workers] \in LocalRecord
  BY LocalFields, FieldTypes, ObservationType
<1>3. RequestTypeOK'
  BY <1>2, LocalFields, RequestStep DEF GetSync, Labels
<1>4. QED
  BY <1>1, <1>3 DEF TypeOK

(* GET: recording one observation, or answering.                           *)
LEMMA GetObserveTypeOK ==
  ASSUME TypeOK, NEW h \in Handlers, GetObserve(h)
  PROVE  TypeOK'
<1>1. OutsideTypeOK' /\ BoundsTypeOK'
  BY Frames, BoundsStep DEF GetObserve
<1>2. PICK w \in local[h].todo :
        \/ /\ Observe(w, local[h].seen[w])
           /\ Hold(h, [local[h] EXCEPT !.todo = local[h].todo \ {w}])
           /\ Goto(h, "dispatch") \/ UNCHANGED pc
        \/ /\ Goto(h, "dispatch")
           /\ UNCHANGED <<worker, run, stale, local>>
  BY DEF GetObserve, Hold
<1>3. w \in Workers /\ local[h].seen[w] \in ObservedState
  BY LocalFields
<1>4. UNCHANGED <<created, intent, artifact, reply>>
  BY DEF GetObserve
<1>5. StoreTypeOK'
  <2>1. CASE Observe(w, local[h].seen[w])
    BY <1>3, <1>4, <2>1, ObserveStep
  <2>2. CASE UNCHANGED <<worker, run, stale>>
    BY <1>4, <2>2 DEF TypeOK, StoreTypeOK
  <2>3. QED
    BY <1>2, <2>1, <2>2
<1>6. [local[h] EXCEPT !.todo = local[h].todo \ {w}] \in LocalRecord
  BY LocalFields, FieldTypes
<1>7. RequestTypeOK'
  BY <1>2, <1>4, <1>6, RequestStep DEF Labels
<1>8. QED
  BY <1>1, <1>5, <1>7 DEF TypeOK

(* GET events: reading the intents to dispatch.                            *)
LEMMA ListEventsTypeOK ==
  ASSUME TypeOK, NEW h \in Handlers, ListEvents(h)
  PROVE  TypeOK'
<1>1. StoreTypeOK' /\ OutsideTypeOK' /\ BoundsTypeOK'
  BY Frames DEF ListEvents
<1>2. RequestTypeOK'
  BY LocalFields, RequestStep DEF ListEvents, Labels
<1>3. QED
  BY <1>1, <1>2 DEF TypeOK

(* Ingest: the check of the Run's lifecycle.                               *)
LEMMA IngestReadTypeOK ==
  ASSUME TypeOK, NEW h \in Handlers, IngestRead(h)
  PROVE  TypeOK'
<1>1. StoreTypeOK' /\ OutsideTypeOK' /\ BoundsTypeOK'
  BY Frames DEF IngestRead
<1>2. \A w \in Workers : [local[h] EXCEPT !.todo = {w}] \in LocalRecord
  BY LocalFields, FieldTypes
<1>3. RequestTypeOK'
  <2>1. CASE Answer(h, "error")
    BY <2>1, AnswerStep
  <2>2. CASE ~Answer(h, "error")
    BY <1>2, <2>2, RequestStep DEF IngestRead, Hold, Labels
  <2>3. QED
    BY <2>1, <2>2
<1>4. QED
  BY <1>1, <1>3 DEF TypeOK

(* Ingest: publishing one frame.                                           *)
LEMMA IngestPublishTypeOK ==
  ASSUME TypeOK, NEW h \in Handlers, IngestPublish(h)
  PROVE  TypeOK'
<1>1. StoreTypeOK' /\ BoundsTypeOK'
  BY Frames, BoundsStep DEF IngestPublish
<1>2. OutsideTypeOK'
  BY DEF IngestPublish, TypeOK, OutsideTypeOK
<1>3. RequestTypeOK'
  BY LocalFields, AnswerStep, RequestStep DEF IngestPublish, Labels
<1>4. QED
  BY <1>1, <1>2, <1>3 DEF TypeOK

(* Ingest: counting the frame in the store.                                *)
LEMMA IngestCountTypeOK ==
  ASSUME TypeOK, NEW h \in Handlers, IngestCount(h)
  PROVE  TypeOK'
<1>1. OutsideTypeOK' /\ BoundsTypeOK'
  BY Frames, BoundsStep DEF IngestCount
<1>2. \A w \in Workers : CountFrameOf(worker[w]) \in WorkerRecord
  BY StoreFields, CountFrameType
<1>3. PICK w \in Workers :
        \/ worker' = [worker EXCEPT ![w] = CountFrameOf(worker[w])]
        \/ UNCHANGED worker
  BY LocalFields DEF IngestCount
<1>4. worker' \in [Workers -> WorkerRecord]
  BY <1>2, <1>3, StoreFields
<1>5. StoreTypeOK'
  BY <1>4 DEF IngestCount, TypeOK, StoreTypeOK
<1>6. RequestTypeOK'
  BY AnswerStep DEF IngestCount
<1>7. QED
  BY <1>1, <1>5, <1>6 DEF TypeOK
-----------------------------------------------------------------------------
(* The worker processes, time and a crash of the gateway keep the types.   *)
LEMMA EnvironmentTypeOK ==
  ASSUME TypeOK, (\E w \in Workers : WorkerExit(w)) \/ MinutePasses \/ Crash
  PROVE  TypeOK'
<1>1. CASE \E w \in Workers : WorkerExit(w)
  <2>1. StoreTypeOK' /\ RequestTypeOK' /\ BoundsTypeOK'
    BY <1>1, Frames DEF WorkerExit
  <2>2. OutsideTypeOK'
    BY <1>1 DEF WorkerExit, TypeOK, OutsideTypeOK, Resource
  <2>3. QED
    BY <2>1, <2>2 DEF TypeOK
<1>2. CASE MinutePasses
  <2>1. OutsideTypeOK' /\ RequestTypeOK' /\ BoundsTypeOK'
    BY <1>2, Frames DEF MinutePasses
  <2>2. StoreTypeOK'
    BY <1>2 DEF MinutePasses, TypeOK, StoreTypeOK
  <2>3. QED
    BY <2>1, <2>2 DEF TypeOK
<1>3. CASE Crash
  <2>1. StoreTypeOK' /\ OutsideTypeOK'
    BY <1>3, Frames DEF Crash
  <2>2. BoundsTypeOK'
    BY <1>3 DEF Crash, TypeOK, BoundsTypeOK
  <2>3. RequestTypeOK'
    BY <1>3, BlankType DEF Crash, TypeOK, RequestTypeOK, Labels
  <2>4. QED
    BY <2>1, <2>2, <2>3 DEF TypeOK
<1>4. QED
  BY <1>1, <1>2, <1>3

(* A step that changes nothing keeps everything well typed.                *)
LEMMA StutterTypeOK ==
  ASSUME TypeOK, UNCHANGED vars
  PROVE  TypeOK'
<1>1. UNCHANGED store /\ UNCHANGED outside /\ UNCHANGED request /\ UNCHANGED bounds
  BY DEF vars
<1>2. QED
  BY <1>1, Frames DEF TypeOK

(* Every step keeps the types.                                             *)
LEMMA NextTypeOK ==
  ASSUME TypeOK, [Next]_vars
  PROVE  TypeOK'
<1>1. ASSUME NEW h \in Handlers, HandlerStep(h)
      PROVE  TypeOK'
  <2>1. CASE CreateStep(h)
    BY <2>1, CreateRunTypeOK, LaunchWorkerTypeOK, SaveLaunchTypeOK,
       SetStreamingTypeOK, SaveArtifactTypeOK DEF CreateStep
  <2>2. CASE RecoverStep(h)
    BY <2>2, RecoverListTypeOK, RecoverSyncTypeOK, RecoverObserveTypeOK
       DEF RecoverStep
  <2>3. CASE FailStep(h)
    BY <2>3, CompensateStopTypeOK, CompensateCleanTypeOK, FailSaveLaunchTypeOK,
       FailWorkerTypeOK, FailRunTypeOK, FailArtifactTypeOK, FailEventTypeOK
       DEF FailStep
  <2>4. CASE DispatchStep(h)
    BY <2>4, ListIntentsTypeOK, PublishTypeOK, MarkTypeOK DEF DispatchStep
  <2>5. CASE RunStopStep(h)
    BY <2>5, StopReadTypeOK, StopRecordsTypeOK, StopRuntimeTypeOK,
       StopCleanupTypeOK DEF RunStopStep
  <2>6. CASE GetStep(h)
    BY <2>6, GetReadTypeOK, GetSyncTypeOK, GetObserveTypeOK, ListEventsTypeOK
       DEF GetStep
  <2>7. CASE IngestStep(h)
    BY <2>7, IngestReadTypeOK, IngestPublishTypeOK, IngestCountTypeOK
       DEF IngestStep
  <2>8. QED
    BY <1>1, <2>1, <2>2, <2>3, <2>4, <2>5, <2>6, <2>7 DEF HandlerStep
<1>2. CASE UNCHANGED vars
  BY <1>2, StutterTypeOK
<1>3. QED
  BY <1>1, <1>2, EnvironmentTypeOK DEF Next

(* Type correctness: whatever requests, faults and crashes interleave,     *)
(* every stored record, container, request and log entry keeps the type    *)
(* its Go declaration gives it.                                            *)
THEOREM TypeCorrect == Spec => []TypeOK
<1>1. Init => TypeOK
  BY InitTypeOK
<1>2. TypeOK /\ [Next]_vars => TypeOK'
  BY NextTypeOK
<1>3. QED
  BY <1>1, <1>2, PTL DEF Spec
=============================================================================
