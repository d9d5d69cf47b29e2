----------------------------- MODULE SimopsState -----------------------------
(***************************************************************************)
(* The state algebra of a SimOps Run and of its workers: the facts the     *)
(* control plane stores about them, and the pure functions that fold a     *)
(* launch outcome, a runtime observation or a cleanup outcome into those   *)
(* facts and derive the aggregate of the Run from its workers.             *)
(*                                                                         *)
(* Evidence lists, labels, timestamps and the failure stage are left out:  *)
(* no decision of the control plane reads them.                            *)
(***************************************************************************)
EXTENDS Naturals

CONSTANT Workers        \* the worker ids of the one Run that is modelled

Lifecycle     == {"created", "starting", "streaming", "degraded", "complete",
                  "failed", "stopped"}
RunPhase      == {"admitted", "launching", "running", "stopping", "completed",
                  "failed", "stopped"}
WorkerPhase   == {"planned", "launching", "executing", "completed", "failed",
                  "stopped"}
Launch        == {"unattempted", "attempted-absent", "launched", "rejected"}
Execution     == {"unobserved", "uncertain", "active", "absent", "terminal"}
Condition     == {"nominal", "degraded", "failed"}
Cleanup       == {"not_requested", "requested", "in_progress", "completed",
                  "incomplete", "failed"}
ObservedState == {"pending", "active", "succeeded", "failed", "missing",
                  "image-pull-failed", "stopped"}

(* A record handed over by a runtime or by the planner carries no state    *)
(* yet: its phase is "unset" (the empty string of the code).               *)
WorkerRecord ==
  [lifecycle : Lifecycle, frames : Nat, observed : ObservedState \cup {"none"},
   runtimeID : BOOLEAN, phase : WorkerPhase \cup {"unset"}, launch : Launch,
   active : Execution, condition : Condition, cleanup : Cleanup]

RunRecord ==
  [lifecycle : Lifecycle, phase : RunPhase, condition : Condition,
   cleanup : Cleanup]

(* The record plannedWorkerRecords makes: starting, nothing launched yet.  *)
PlannedWorker ==
  [lifecycle |-> "starting", frames |-> 0, observed |-> "none",
   runtimeID |-> FALSE, phase |-> "unset", launch |-> "unattempted",
   active |-> "unobserved", condition |-> "nominal",
   cleanup |-> "not_requested"]

(* The record a runtime returns for a worker it has launched.              *)
LaunchedWorker == [PlannedWorker EXCEPT !.runtimeID = TRUE]

PhaseOfWorker(lifecycle) ==
  CASE lifecycle = "starting"  -> "launching"
    [] lifecycle = "streaming" -> "executing"
    [] lifecycle = "complete"  -> "completed"
    [] lifecycle = "failed"    -> "failed"
    [] lifecycle = "stopped"   -> "stopped"
    [] OTHER                   -> "planned"

(* ensureSimopsWorkerState: a state that is already set is kept.           *)
EnsureWorkerState(w) ==
  IF w.phase # "unset" THEN w
  ELSE [w EXCEPT
         !.phase     = PhaseOfWorker(w.lifecycle),
         !.launch    = "unattempted",
         !.active    = IF w.lifecycle \in {"complete", "failed", "stopped"}
                       THEN "terminal" ELSE "unobserved",
         !.condition = IF w.lifecycle = "failed" THEN "failed" ELSE "nominal",
         !.cleanup   = "not_requested"]

PhaseOfRun(lifecycle) ==
  CASE lifecycle = "starting"  -> "launching"
    [] lifecycle = "streaming" -> "running"
    [] lifecycle = "complete"  -> "completed"
    [] lifecycle = "failed"    -> "failed"
    [] lifecycle = "stopped"   -> "stopped"
    [] OTHER                   -> "admitted"

Degrade(condition) == IF condition = "nominal" THEN "degraded" ELSE condition

Terminal(observed) ==
  observed \in {"succeeded", "failed", "image-pull-failed", "stopped"}

-----------------------------------------------------------------------------
(* applyWorkerLaunchOutcome                                                *)
ApplyLaunchOutcome(w, disposition) ==
  IF w.launch \in {"launched", "rejected"} THEN w
  ELSE CASE disposition = "launched" ->
              [w EXCEPT !.launch = "launched", !.phase = "launching"]
         [] disposition = "rejected" ->
              [w EXCEPT !.launch = "rejected", !.phase = "failed",
                        !.condition = "failed"]
         [] disposition = "attempted-absent" ->
              [w EXCEPT !.launch = "attempted-absent", !.active = "uncertain",
                        !.phase = "launching",
                        !.condition = Degrade(w.condition)]
         [] OTHER -> w

(* materializeWorkerLaunchState: what SaveLaunch makes of a record.        *)
MaterializeLaunch(record) ==
  LET w == EnsureWorkerState(record) IN
  CASE w.runtimeID             -> ApplyLaunchOutcome(w, "launched")
    [] /\ ~w.runtimeID
       /\ w.lifecycle = "failed" -> ApplyLaunchOutcome(w, "rejected")
    [] OTHER ->
       IF w.launch = "unattempted"
       THEN ApplyLaunchOutcome(w, "attempted-absent") ELSE w

(* applyWorkerRuntimeObservation: a terminal execution is kept against a   *)
(* later observation that is not terminal, which only degrades the worker. *)
ApplyRuntimeObservation(w, observed) ==
  IF w.active = "terminal" /\ ~Terminal(observed)
  THEN [w EXCEPT !.condition = Degrade(w.condition)]
  ELSE CASE observed = "active" ->
              [w EXCEPT !.active = "active", !.launch = "launched",
                        !.phase = "executing"]
         [] observed = "succeeded" ->
              [w EXCEPT !.active = "terminal", !.phase = "completed"]
         [] observed \in {"failed", "image-pull-failed"} ->
              [w EXCEPT !.active = "terminal", !.phase = "failed",
                        !.condition = "failed"]
         [] observed = "stopped" ->
              [w EXCEPT !.active = "terminal", !.phase = "stopped"]
         [] /\ observed = "missing"
            /\ w.active \in {"unobserved", "uncertain"} ->
              [w EXCEPT !.active = "absent"]
         [] OTHER -> w

(* applyObservedWorkerLifecycle: the observed fields of the worker.        *)
ApplyObserved(w, observed, hasRuntimeID) ==
  IF Terminal(w.observed) /\ ~Terminal(observed) THEN w
  ELSE [w EXCEPT !.observed = observed, !.runtimeID = hasRuntimeID]

ForgivingCleanupOutcome(w, cleanup) ==   \* mutant: degraded, even if failed
  [w EXCEPT !.cleanup = cleanup,
            !.condition = CASE cleanup = "incomplete" -> "degraded"
                            [] cleanup = "failed"     -> "failed"
                            [] OTHER                  -> w.condition]

(* applyWorkerCleanupOutcome                                               *)
ApplyCleanupOutcome(w, cleanup) ==
  [w EXCEPT !.cleanup = cleanup,
            !.condition = CASE cleanup = "incomplete" -> Degrade(w.condition)
                            [] cleanup = "failed"     -> "failed"
                            [] OTHER                  -> w.condition]

ProjectWorkerLifecycle(phase) ==
  CASE phase = "launching" -> "starting"
    [] phase = "executing" -> "streaming"
    [] phase = "completed" -> "complete"
    [] phase = "failed"    -> "failed"
    [] phase = "stopped"   -> "stopped"
    [] OTHER               -> "created"

(* deriveSimopsRunState: the aggregate of the worker facts.                *)
DeriveRunState(run, worker) ==
  LET failed   == \E w \in Workers : \/ worker[w].condition = "failed"
                                     \/ worker[w].cleanup = "failed"
      degraded == \E w \in Workers : \/ worker[w].condition = "degraded"
                                     \/ worker[w].launch = "attempted-absent"
                                     \/ worker[w].cleanup = "incomplete"
      InPhase(P) == \E w \in Workers : worker[w].phase \in P
      phase == CASE failed -> "failed"
                 [] ~failed /\ InPhase({"stopped"}) -> "stopped"
                 [] /\ ~failed
                    /\ ~InPhase({"stopped"})
                    /\ InPhase({"executing"}) -> "running"
                 [] OTHER -> IF InPhase({"planned", "launching"})
                             THEN "launching" ELSE "completed"
  IN [run EXCEPT !.phase = phase,
                 !.condition = IF failed THEN "failed"
                               ELSE IF degraded THEN "degraded" ELSE "nominal"]

ProjectRunLifecycle(phase) ==
  CASE phase = "launching" -> "starting"
    [] phase = "running"   -> "streaming"
    [] phase = "stopping"  -> "degraded"
    [] phase = "completed" -> "complete"
    [] phase = "failed"    -> "failed"
    [] phase = "stopped"   -> "stopped"
    [] OTHER               -> "created"
=============================================================================
