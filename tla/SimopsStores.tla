---------------------------- MODULE SimopsStores ----------------------------
(***************************************************************************)
(* What one call of the SimOps control store does to the stored Run and to *)
(* its workers, for the two adapters of the store: the in-memory one,      *)
(* whose calls hold one mutex, and the Postgres one, whose calls are one   *)
(* transaction or one statement.  Every operator takes the stored records  *)
(* and returns the records the call leaves.                                *)
(***************************************************************************)
EXTENDS SimopsState

Adapters == {"memory", "postgres"}

(* A SimopsStopTransition: the cleanup disposition to record, whether the  *)
(* runtime stop failed, and which failures the runtime has confirmed.      *)
StopTransition ==
  [cleanup : Cleanup, stopFailure : BOOLEAN, stopConfirmed : BOOLEAN,
   cleanupConfirmed : BOOLEAN]

StopFact(cleanup, stop, clean) ==
  [cleanup          |-> cleanup,
   stopFailure      |-> stop # "ok",
   stopConfirmed    |-> stop = "confirmed",
   cleanupConfirmed |-> clean = "confirmed"]

-----------------------------------------------------------------------------
(* SaveLaunch.  The in-memory adapter replaces the stored worker; Postgres *)
(* keeps the larger frame count, the lifecycle that came with it, and the  *)
(* observed fields the new record does not carry.                          *)
MergeLaunchMemory(stored, record) == MaterializeLaunch(record)

MergeLaunchPostgres(stored, record) ==
  LET w == MaterializeLaunch(record)
      ahead == stored.frames > w.frames
  IN [w EXCEPT !.lifecycle = IF ahead THEN stored.lifecycle ELSE w.lifecycle,
               !.frames    = IF ahead THEN stored.frames ELSE w.frames,
               !.observed  = IF w.observed = "none" THEN stored.observed
                             ELSE w.observed,
               !.runtimeID = w.runtimeID \/ stored.runtimeID]

SaveLaunchIn(adapter, worker, records) ==
  [w \in Workers |-> IF adapter = "memory"
                     THEN MergeLaunchMemory(worker[w], records[w])
                     ELSE MergeLaunchPostgres(worker[w], records[w])]

(* UpdateRunLifecycle, and the run part of                                 *)
(* UpdateRunLifecycleWithPublicationIntent.  Neither asks what the Run was *)
(* before.  In memory the state is rebuilt from the lifecycle; Postgres    *)
(* keeps the condition and the cleanup disposition.                        *)
SetRunLifecycleMemory(run, lifecycle) ==
  [lifecycle |-> lifecycle, phase |-> PhaseOfRun(lifecycle),
   condition |-> IF lifecycle = "failed" THEN "failed" ELSE "nominal",
   cleanup   |-> "not_requested"]

SetRunLifecyclePostgres(run, lifecycle) ==
  [run EXCEPT !.lifecycle = lifecycle, !.phase = PhaseOfRun(lifecycle),
              !.condition = IF lifecycle = "failed" THEN "failed"
                            ELSE run.condition]

SetRunLifecycleIn(adapter, run, lifecycle) ==
  IF adapter = "memory" THEN SetRunLifecycleMemory(run, lifecycle)
  ELSE SetRunLifecyclePostgres(run, lifecycle)

(* UpdateWorkerFrames for one frame: the worker streams, whatever it was.  *)
CountFrameOf(w) == [w EXCEPT !.frames = @ + 1, !.lifecycle = "streaming"]

-----------------------------------------------------------------------------
(* UpdateWorkerObservedLifecycle: the observed worker ...                  *)
ObserveWorker(w, observed, hasRuntimeID) ==
  ApplyRuntimeObservation(
    EnsureWorkerState(ApplyObserved(w, observed, hasRuntimeID)), observed)

(* ... and the Run's aggregate.  Postgres has its own aggregate, in SQL:   *)
(* it knows no stopped phase.  Neither adapter touches run.lifecycle.      *)
AggregatePostgres(run, worker) ==
  LET failed   == \E w \in Workers : \/ worker[w].condition = "failed"
                                     \/ worker[w].cleanup = "failed"
      degraded == \E w \in Workers : \/ worker[w].condition = "degraded"
                                     \/ worker[w].launch = "attempted-absent"
                                     \/ worker[w].cleanup = "incomplete"
      ended    == \A w \in Workers :
                    worker[w].phase \in {"completed", "failed", "stopped"}
  IN [run EXCEPT
       !.condition = IF failed THEN "failed"
                     ELSE IF degraded THEN "degraded" ELSE "nominal",
       !.phase = CASE failed -> "failed"
                   [] ~failed /\ (\E w \in Workers :
                                    worker[w].phase = "executing") -> "running"
                   [] OTHER -> IF ended THEN "completed" ELSE "launching"]

ObserveRunIn(adapter, run, worker) ==
  IF adapter = "memory" THEN DeriveRunState(run, worker)
  ELSE AggregatePostgres(run, worker)

-----------------------------------------------------------------------------
(* ApplyStopTransition, in memory.                                         *)
SettlesUnlessStopFailed(t) == ~t.stopFailure   \* mutant: at any disposition

SettlesWhileCleaning(t) ==                     \* mutant: before the cleanup
  t.cleanup \in {"in_progress", "completed"} /\ ~t.stopFailure

Settles(t) == t.cleanup = "completed" /\ ~t.stopFailure

StopWorkerMemory(w, t) ==
  LET cleaned == ApplyCleanupOutcome(EnsureWorkerState(w), t.cleanup)
      judged  == IF ~t.stopFailure THEN cleaned
                 ELSE [cleaned EXCEPT
                        !.condition = IF t.stopConfirmed THEN "failed"
                                      ELSE Degrade(cleaned.condition)]
  IN IF Settles(t) /\ judged.condition # "failed"
     THEN [judged EXCEPT !.phase = "stopped", !.active = "terminal",
                         !.lifecycle = ProjectWorkerLifecycle("stopped")]
     ELSE judged

StopRunMemory(run, workers, t) ==
  LET stopping == [run EXCEPT !.cleanup = t.cleanup]
      state == IF Settles(t) THEN DeriveRunState(stopping, workers)
               ELSE [stopping EXCEPT
                      !.phase = "stopping",
                      !.condition = IF run.condition = "failed" THEN "failed"
                                    ELSE "degraded"]
  IN [state EXCEPT !.lifecycle = ProjectRunLifecycle(state.phase)]

(* ApplyStopTransition, in Postgres: every CASE of the worker UPDATE reads *)
(* the row as it was before the statement.                                 *)
StopWorkerPostgresKeepsPhase(w, t) ==   \* mutant: only the v1 lifecycle
  [w EXCEPT !.cleanup   = t.cleanup,
            !.lifecycle = IF Settles(t) THEN "stopped" ELSE w.lifecycle]

StopWorkerPostgres(w, t) ==
  LET settled == Settles(t) /\ w.condition # "failed" IN
  [w EXCEPT
     !.cleanup   = t.cleanup,
     !.condition = CASE t.stopConfirmed \/ t.cleanupConfirmed -> "failed"
                     [] /\ ~(t.stopConfirmed \/ t.cleanupConfirmed)
                        /\ t.stopFailure
                           \/ t.cleanup \in {"incomplete", "failed"} ->
                          "degraded"
                     [] OTHER -> w.condition,
     !.phase     = IF settled THEN "stopped" ELSE w.phase,
     !.active    = IF settled THEN "terminal" ELSE w.active,
     !.lifecycle = IF settled THEN "stopped" ELSE w.lifecycle]

StopRunPostgres(run, workers, t) ==
  LET Some(c) == \E w \in Workers : workers[w].condition = c
      failed  == \/ t.stopConfirmed
                 \/ t.cleanupConfirmed
                 \/ Some("failed")
      worse   == \/ t.stopFailure
                 \/ t.cleanup \in {"incomplete", "failed"}
                 \/ Some("degraded")
      phase   == CASE Some("failed") -> "failed"
                   [] ~Some("failed") /\ Settles(t) -> "stopped"
                   [] OTHER -> "stopping"
  IN [phase     |-> phase,
      lifecycle |-> ProjectRunLifecycle(phase),
      cleanup   |-> t.cleanup,
      condition |-> IF failed THEN "failed"
                    ELSE IF worse THEN "degraded" ELSE "nominal"]

StopWorkersIn(adapter, worker, t) ==
  [w \in Workers |-> IF adapter = "memory" THEN StopWorkerMemory(worker[w], t)
                     ELSE StopWorkerPostgres(worker[w], t)]

StopRunIn(adapter, run, workers, t) ==
  IF adapter = "memory" THEN StopRunMemory(run, workers, t)
  ELSE StopRunPostgres(run, workers, t)

(* A stop that reaches the stopped phase records the intent to publish it. *)
(* In memory a new pending intent replaces one that may already have been  *)
(* published; Postgres keeps the row it has.                               *)
IntentState == {"none", "pending", "failed", "published"}

RecordIntentInMemory(adapter, state, replaces) ==   \* mutant: no SQL outbox
  IF adapter = "memory" /\ (state = "none" \/ replaces) THEN "pending"
  ELSE state

RecordIntentIn(adapter, state, replaces) ==
  IF state = "none" \/ (adapter = "memory" /\ replaces) THEN "pending"
  ELSE state
=============================================================================
