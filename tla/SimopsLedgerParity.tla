-------------------------- MODULE SimopsLedgerParity --------------------------
(***************************************************************************)
(* The two adapters of the SimOps control store, side by side: every call  *)
(* the control plane makes is applied to both, and what they then hold is  *)
(* compared.  ADR-0014: the "in-memory and Postgres ledger adapters must   *)
(* pass the same stop/cleanup contract cases".                             *)
(*                                                                         *)
(* One Run that was launched and is streaming; its workers are observed    *)
(* and counted, and it is stopped, again and again, one call at a time.    *)
(***************************************************************************)
EXTENDS SimopsStores

CONSTANTS
  Reported,   \* what the runtime may report of a worker
  Verdicts,   \* how a runtime stop or cleanup may end: "ok" and errors
  MaxFrames   \* bound: frames counted for a worker

ASSUME ParityAssumption ==
  /\ Workers # {}
  /\ Reported \subseteq ObservedState
  /\ Verdicts \subseteq {"ok", "uncertain", "confirmed"}
  /\ MaxFrames \in Nat

VARIABLES
  ledger,     \* per adapter: the Run, its workers, the intent to say stopped
  stage,      \* where the stop in progress is
  verdict     \* how its runtime stop ended

vars == <<ledger, stage, verdict>>

(* What SaveLaunch and the streaming transition leave of a fresh Run.      *)
Launched(adapter) ==
  LET admitted == [lifecycle |-> "starting", phase |-> "admitted",
                   condition |-> "nominal", cleanup |-> "not_requested"]
      planned  == [w \in Workers |-> EnsureWorkerState(PlannedWorker)]
  IN [run     |-> SetRunLifecycleIn(adapter, admitted, "streaming"),
      worker  |-> SaveLaunchIn(adapter, planned,
                               [w \in Workers |-> LaunchedWorker]),
      stopped |-> "none"]

Init ==
  /\ ledger = [a \in Adapters |-> Launched(a)]
  /\ stage = "idle"
  /\ verdict = "ok"

-----------------------------------------------------------------------------
(* UpdateWorkerObservedLifecycle                                           *)
ObserveIn(adapter, w, observed) ==
  LET old    == ledger[adapter]
      worker == [old.worker EXCEPT ![w] =
                   ObserveWorker(@, observed, observed # "missing")]
  IN [old EXCEPT !.worker = worker,
                 !.run    = ObserveRunIn(adapter, old.run, worker)]

ObserveBoth(w) ==
  /\ \E observed \in Reported :
       ledger' = [a \in Adapters |-> ObserveIn(a, w, observed)]
  /\ UNCHANGED <<stage, verdict>>

(* UpdateWorkerFrames                                                      *)
CountFrame(w) ==
  /\ ledger["memory"].run.lifecycle \in {"starting", "streaming", "degraded"}
  /\ ledger["memory"].worker[w].frames < MaxFrames
  /\ ledger' = [a \in Adapters |->
                  [ledger[a] EXCEPT !.worker[w] = CountFrameOf(@)]]
  /\ UNCHANGED <<stage, verdict>>

(* ApplyStopTransition                                                     *)
ApplyStopIn(adapter, t) ==
  LET old    == ledger[adapter]
      worker == StopWorkersIn(adapter, old.worker, t)
      run    == StopRunIn(adapter, old.run, worker, t)
  IN [run     |-> run,
      worker  |-> worker,
      stopped |-> IF run.phase = "stopped"
                  THEN RecordIntentIn(adapter, old.stopped, TRUE)
                  ELSE old.stopped]

ApplyBoth(t) == ledger' = [a \in Adapters |-> ApplyStopIn(a, t)]

StopRequested ==
  /\ stage = "idle"
  /\ ledger["memory"].run.lifecycle \notin {"stopped", "complete"}
  /\ ApplyBoth(StopFact("requested", "ok", "ok"))
  /\ stage' = "requested" /\ UNCHANGED verdict

StopInProgress ==
  /\ stage = "requested"
  /\ \E v \in Verdicts :
       /\ ApplyBoth(StopFact("in_progress", v, "ok"))
       /\ verdict' = v
  /\ stage' = "in_progress"

CleanupRecorded ==
  /\ stage = "in_progress"
  /\ \E v \in Verdicts :
       ApplyBoth(StopFact(CASE v = "ok"        -> "completed"
                            [] v = "confirmed" -> "failed"
                            [] OTHER           -> "incomplete", verdict, v))
  /\ stage' = "idle" /\ verdict' = "ok"

Next ==
  \/ \E w \in Workers : ObserveBoth(w) \/ CountFrame(w)
  \/ StopRequested \/ StopInProgress \/ CleanupRecorded

Spec == Init /\ [][Next]_vars
-----------------------------------------------------------------------------
Memory   == ledger["memory"]
Postgres == ledger["postgres"]

(* Both adapters hold the same v1 view of the Run: its lifecycle, cleanup, *)
(* the lifecycle of each worker and whether the stop is to be published.   *)
SameView ==
  /\ Memory.run.lifecycle = Postgres.run.lifecycle
  /\ Memory.run.cleanup = Postgres.run.cleanup
  /\ \A w \in Workers :
       /\ Memory.worker[w].lifecycle = Postgres.worker[w].lifecycle
       /\ Memory.worker[w].frames = Postgres.worker[w].frames
  /\ Memory.stopped = Postgres.stopped

(* Both adapters hold the same execution facts of every worker: its phase, *)
(* launch disposition, execution and last observation.                     *)
SameWorkerFacts ==
  \A w \in Workers :
    LET m == Memory.worker[w]
        p == Postgres.worker[w]
    IN /\ m.phase = p.phase /\ m.launch = p.launch /\ m.active = p.active
       /\ m.observed = p.observed /\ m.cleanup = p.cleanup

(* Both adapters judge the condition of every worker alike.                *)
SameCondition ==
  \A w \in Workers :
    Memory.worker[w].condition = Postgres.worker[w].condition
=============================================================================
