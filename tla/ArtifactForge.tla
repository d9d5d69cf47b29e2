----------------------------- MODULE ArtifactForge -----------------------------
(***************************************************************************)
(* The Artifact Forge of one game session: the manager, which under its    *)
(* mutex takes a request through admission, one SimOps Run and the         *)
(* evaluation of what the Run produced; the ledger it saves to, in memory  *)
(* or in Postgres; the session activity other intents record in the same   *)
(* ledger without the mutex; and the evidence it reads: results stamped    *)
(* with the request's context when they are ingested, projected by one     *)
(* consumer, given their Lineage by the Twin projector.                    *)
(*                                                                         *)
(* A request is its idempotency key.  Of its SimOps Run the lifecycle      *)
(* counts, as CreateRun and the stops of any client write it ("active"     *)
(* stands for starting, streaming and degraded): a stop of a failed Run    *)
(* makes it active again.  Results are valid frames with the expected      *)
(* value.                                                                  *)
(***************************************************************************)
EXTENDS Naturals, Sequences, FiniteSets

CONSTANTS
  Keys,          \* idempotency keys of the session's requests
  Reactors,      \* its reactors
  Sessions,      \* the sessions to check: the store configured, the reactor
                 \* of each request, and the active requests the session may
                 \* have (four in the code)
  StopKeys,      \* keys whose Run a client of SimOps stops
  CompleteKeys,  \* keys whose Run is given the lifecycle complete: the tests
                 \* of the repository do so, no code of the gateway does
  MaxEvents      \* bound on the results ingested, the failed calls, stops,
                 \* crashes, activities of other intents, expiries and flushes

ASSUME KeysAssumption == Keys # {}
ASSUME SessionsAssumption ==
  Sessions \subseteq [backend : {"memory", "postgres"}, reactorOf : [Keys -> Reactors], maxActive : Nat]
ASSUME BoundsAssumption == MaxEvents \in Nat

VARIABLES
  backend, reactorOf, maxActive,  \* the session
  ledger,              \* the saved record of each key
  pc, key,             \* the manager: its step and the request it is at,
  record,              \*   its copy of the record,
  createFailed,        \*   whether CreateRun returned an error
  listed,              \* copies an activity has listed and not yet saved
  run,                 \* SimOps: lifecycle of the Run of each request,
  stops,               \*   stops of it under way,
  completed,           \*   and (history) the Runs that were ever complete
  results,             \* the results topic: [key, bound] frames
  projected,           \* results stored by the projection consumer
  twin,                \* results the Twin projector has seen
  evidence,            \* [result, lineage] by Run: offsets, 0 for none
  events

manager  == <<pc, key, record, createFailed>>
simops   == <<run, stops, completed>>
pipeline == <<results, projected, twin, evidence>>
config   == <<backend, reactorOf, maxActive>>
vars     == <<config, ledger, manager, listed, simops, pipeline, events>>

(* "failed" is that the record's events tell of a Run that failed.         *)
NoRecord   == [decision |-> "none", run |-> FALSE, outcome |-> 0, failed |-> FALSE]
NoEvidence == [result |-> 0, lineage |-> 0]
AnyKey     == CHOOSE k \in Keys : TRUE
NoList     == [k \in Keys |-> NoRecord]

Accepted == [NoRecord EXCEPT !.decision = "awaiting-run"]
Rejected == [Accepted EXCEPT !.decision = "intent-rejected"]

Init ==
  /\ \E s \in Sessions : backend = s.backend /\ reactorOf = s.reactorOf /\ maxActive = s.maxActive
  /\ ledger = NoList
  /\ pc = "idle" /\ key = AnyKey /\ record = NoRecord /\ createFailed = FALSE
  /\ listed = NoList
  /\ run = [k \in Keys |-> "none"] /\ stops = [k \in Keys |-> 0] /\ completed = {}
  /\ results = <<>> /\ projected = 0 /\ twin = 0
  /\ evidence = [k \in Keys |-> NoEvidence]
  /\ events = 0

Event == events < MaxEvents /\ events' = events + 1
StoreFault == backend = "postgres" /\ Event
NoFault == UNCHANGED events

-------------------------------------------------------------------------------
(* The ledger                                                              *)

(* Mutant of MaySave: the upsert has no condition.                         *)
MaySaveAnything(k, r) == TRUE
(* An applied outcome is neither removed nor replaced.                     *)
MaySave(k, r) == ledger[k].outcome = 0 \/ r.outcome = ledger[k].outcome
Saved(k, r) == ledger' = [ledger EXCEPT ![k] = r]

Ended == {"intent-rejected", "run-failed"}
Active(k) == ledger[k] # NoRecord /\ ledger[k].outcome = 0 /\ ledger[k].decision \notin Ended
ActiveKeys == {k \in Keys : Active(k)}

-------------------------------------------------------------------------------
(* The manager: Request                                                    *)

Goto(step) == pc' = step
Keep == UNCHANGED <<key, record, createFailed>>
Reply == Goto("idle") /\ key' = AnyKey /\ record' = NoRecord /\ createFailed' = FALSE

(* m.mu.Lock, then TouchSession, which moves the retention of every record *)
(* of the session.  The retention is not kept here; the copies the manager *)
(* saves for it are current.                                               *)
Request(k) ==
  /\ pc = "idle"
  /\ key' = k /\ Goto("find")
  /\ UNCHANGED <<record, createFailed, config, ledger, listed, simops, pipeline, events>>

(* Mutant of Resume: an applied outcome is evaluated again.                *)
ResumeApplied(r) ==
  /\ r # NoRecord
  /\ IF r.decision = "intent-rejected" THEN Reply
     ELSE /\ record' = r /\ Goto(IF r.run THEN "evaluate" ELSE "create")
          /\ UNCHANGED <<key, createFailed>>
(* Mutant of Resume: a repeated request is answered from the ledger.       *)
ResumeAnswered(r) == r # NoRecord /\ Reply
(* Find, then resume: what is decided for good is answered, a request      *)
(* without a Run is associated, the others are evaluated.  Of a new        *)
(* request the job may not be completed, or the recipe not be allowed.     *)
Resume(r) ==
  /\ r # NoRecord
  /\ IF r.outcome # 0 \/ r.decision = "intent-rejected" THEN Reply
     ELSE /\ record' = r /\ Goto(IF r.run THEN "evaluate" ELSE "create")
          /\ UNCHANGED <<key, createFailed>>

Find ==
  /\ pc = "find"
  /\ \/ Resume(ledger[key])
     \/ /\ ledger[key] = NoRecord
        /\ \/ record' = Accepted /\ Goto("caps")
           \/ record' = Rejected /\ Goto("decide")
        /\ UNCHANGED <<key, createFailed>>
  /\ UNCHANGED <<config, ledger, listed, simops, pipeline, events>>

(* Mutant of WithinCaps: only the session's cap is looked at.              *)
WithinSessionCap == Cardinality(ActiveKeys) < maxActive
(* enforceCaps: one active request per reactor, maxActive per session.     *)
WithinCaps ==
  /\ \A k \in ActiveKeys : reactorOf[k] # reactorOf[key]
  /\ Cardinality(ActiveKeys) < maxActive

EnforceCaps ==
  /\ pc = "caps"
  /\ IF WithinCaps THEN Goto("admit") /\ Keep ELSE Reply
  /\ UNCHANGED <<config, ledger, listed, simops, pipeline, events>>

(* A save the manager makes: refused, failed with or without effect (not   *)
(* in memory), or done and followed by the next step.                      *)
SaveThen(next) ==
  \/ ~MaySave(key, record) /\ Reply /\ UNCHANGED <<ledger, events>>
  \/ MaySave(key, record) /\ NoFault /\ Saved(key, record) /\ next
  \/ MaySave(key, record) /\ StoreFault /\ Reply /\ (Saved(key, record) \/ UNCHANGED ledger)

Admit ==
  /\ pc = "admit"
  /\ SaveThen(Goto("create") /\ Keep)
  /\ UNCHANGED <<config, listed, simops, pipeline>>

(* CreateRun: at most one Run for a request id.  A call that fails may     *)
(* have left it behind, still starting or failed, and may have failed one  *)
(* that an earlier call left starting (recoverIncompleteStart).  The call  *)
(* ends with its last write of the lifecycle, which may overtake a stop.   *)
Launched == run' = [run EXCEPT ![key] = IF @ = "none" THEN "active" ELSE @]
LaunchFailed ==
  /\ run[key] \in {"none", "active"}
  /\ \E end \in {"active", "failed"} : run' = [run EXCEPT ![key] = end]
CreateRun ==
  /\ pc = "create"
  /\ \/ /\ NoFault /\ Launched
        /\ record' = [record EXCEPT !.run = TRUE, !.decision = "awaiting-run"]
        /\ Goto("associate") /\ UNCHANGED <<key, createFailed>>
     \/ /\ Event /\ (LaunchFailed \/ UNCHANGED run)
        /\ createFailed' = TRUE /\ Goto("lookup") /\ UNCHANGED <<key, record>>
  /\ UNCHANGED <<config, ledger, listed, stops, completed, pipeline>>

(* GetRunByIdempotency after a failure: found, or the launch is retryable. *)
Lookup ==
  /\ pc = "lookup"
  /\ \/ /\ run[key] # "none" /\ NoFault
        /\ record' = [record EXCEPT !.run = TRUE, !.decision = "awaiting-run"]
        /\ Goto("associate")
     \/ /\ (run[key] = "none" /\ NoFault) \/ StoreFault
        /\ record' = [record EXCEPT !.decision = "run-launch-retryable"]
        /\ Goto("decide")
  /\ UNCHANGED <<key, createFailed, config, ledger, listed, simops, pipeline>>

Associate ==
  /\ pc = "associate"
  /\ SaveThen(IF createFailed THEN Goto("evaluate") /\ Keep ELSE Reply)
  /\ UNCHANGED <<config, listed, simops, pipeline>>

(* evaluate: GetRun, and the evidence of a Run that completed.  A Run that *)
(* is active again puts a failed request back to awaiting it.              *)
RunFailed(k) == run[k] \in {"failed", "stopped"}
Evaluate ==
  /\ pc = "evaluate"
  /\ \/ run[key] = "complete" /\ Goto("evidence") /\ UNCHANGED record
     \/ /\ RunFailed(key) /\ Goto("decide")
        /\ record' = [record EXCEPT !.decision = "run-failed", !.failed = TRUE]
     \/ /\ run[key] # "complete" /\ ~RunFailed(key) /\ Goto("decide")
        /\ record' = [record EXCEPT !.decision = "awaiting-run"]
  /\ UNCHANGED <<key, createFailed, config, ledger, listed, simops, pipeline, events>>

(* Mutant of LineageEligible: a Lineage is enough, whatever it binds.      *)
AnyLineage(i) == TRUE
(* artifactForgeLineageEligible: it binds the session, the reactor, the    *)
(* Run and the recipe.                                                     *)
LineageEligible(i) == results[i].bound

DecisionOn(e) ==
  CASE e.result = 0                -> "operational-telemetry-ineligible"
    [] e.result # 0 /\ e.lineage = 0 -> "lineage-missing"
    [] e.lineage # 0 -> IF LineageEligible(e.lineage) THEN "outcome-applied" ELSE "lineage-ineligible"

ReadEvidence ==
  /\ pc = "evidence"
  /\ LET e == evidence[key]
     IN  record' = [record EXCEPT !.decision = DecisionOn(e),
                                  !.outcome = IF DecisionOn(e) = "outcome-applied" THEN e.lineage ELSE @]
  /\ Goto("decide")
  /\ UNCHANGED <<key, createFailed, config, ledger, listed, simops, pipeline, events>>

(* recordDecision, the outcome and the rejection: one save, then reply.    *)
Decide ==
  /\ pc = "decide"
  /\ SaveThen(Reply)
  /\ UNCHANGED <<config, listed, simops, pipeline>>

RequestStep ==
  Find \/ EnforceCaps \/ Admit \/ CreateRun \/ Lookup \/ Associate
  \/ Evaluate \/ ReadEvidence \/ Decide

(* The gateway ends and starts again; what is in memory is lost, so that a *)
(* store in memory starts as a new system.                                 *)
Crash ==
  /\ backend = "postgres" /\ Event
  /\ Reply /\ listed' = NoList /\ stops' = [k \in Keys |-> 0]
  /\ UNCHANGED <<config, ledger, run, completed, pipeline>>

-------------------------------------------------------------------------------
(* What runs beside the manager                                            *)

(* Every intent of the session touches its records without the mutex: at   *)
(* once in memory, in Postgres by a list and one save of each copy.        *)
RecordActivity ==
  /\ backend = "postgres" /\ listed = NoList
  /\ Event
  /\ listed' = ledger
  /\ UNCHANGED <<config, ledger, manager, simops, pipeline>>

(* Save of one listed copy; a refusal ends the touch with an error.        *)
SaveListed(k) ==
  /\ listed[k] # NoRecord
  /\ IF MaySave(k, listed[k]) THEN Saved(k, listed[k]) /\ listed' = [listed EXCEPT ![k] = NoRecord]
     ELSE UNCHANGED ledger /\ listed' = NoList
  /\ UNCHANGED <<config, manager, simops, pipeline, events>>

Beside == UNCHANGED <<config, ledger, manager, listed, pipeline>>

(* StopRun of any client: only what it finds stopped or complete is left   *)
(* alone, a failed Run is stopped again.                                   *)
StopRun(k) ==
  /\ k \in StopKeys /\ run[k] \notin {"none", "stopped", "complete"}
  /\ Event
  /\ stops' = [stops EXCEPT ![k] = @ + 1]
  /\ UNCHANGED <<run, completed>> /\ Beside

(* ApplyStopTransition of a stop under way writes the lifecycle whatever   *)
(* it was: degraded until the last one, in Postgres failed while a worker  *)
(* is; the last one leaves a confirmed stop stopped, an uncertain one      *)
(* degraded, one with a failed worker failed.                              *)
SaveStop(k) ==
  /\ stops[k] > 0
  /\ \/ /\ \/ run' = [run EXCEPT ![k] = "active"]
           \/ backend = "postgres" /\ run' = [run EXCEPT ![k] = "failed"]
        /\ UNCHANGED stops
     \/ /\ \E end \in {"active", "stopped", "failed"} : run' = [run EXCEPT ![k] = end]
        /\ stops' = [stops EXCEPT ![k] = @ - 1]
  /\ UNCHANGED <<completed, events>> /\ Beside

(* UpdateRunLifecycle with complete, as the tests of the repository call   *)
(* it.                                                                     *)
RunCompletes(k) ==
  /\ k \in CompleteKeys /\ run[k] = "active"
  /\ run' = [run EXCEPT ![k] = "complete"] /\ completed' = completed \union {k}
  /\ UNCHANGED <<stops, events>> /\ Beside

(* ResultLineageContext: the request of a Run, once the association is     *)
(* saved.                                                                  *)
HasContext(k) == ledger[k].run /\ ledger[k].decision # "intent-rejected"

(* IngestResults stamps a result with the context its Run has by then.     *)
IngestResult(k) ==
  /\ run[k] = "active" /\ Event
  /\ results' = Append(results, [key |-> k, bound |-> HasContext(k)])
  /\ UNCHANGED <<config, ledger, manager, listed, simops, projected, twin, evidence>>

(* SaveResultProjection: the evidence of the Run starts again, without a   *)
(* Lineage.                                                                *)
ProjectResult ==
  /\ projected < Len(results)
  /\ projected' = projected + 1
  /\ evidence' = [evidence EXCEPT ![results[projected'].key] = [result |-> projected', lineage |-> 0]]
  /\ UNCHANGED <<config, ledger, manager, listed, simops, results, twin, events>>

(* attachArtifactForgeLineage: with each Twin State saved, the Lineage of  *)
(* its result joins the evidence of that Run, if there is any.             *)
Attached(i) ==
  LET k == results[i].key
  IN  evidence' = [evidence EXCEPT ![k].lineage = IF evidence[k].result # 0 THEN i ELSE @]

(* The Twin projector saves a Twin State at a new result, and at any       *)
(* measured frame one of the last result.                                  *)
PublishTwin ==
  /\ twin' \in {twin, twin + 1} \cap 1..Len(results)
  /\ Attached(twin')
  /\ UNCHANGED <<config, ledger, manager, listed, simops, results, projected, events>>

(* Records are pruned when eight days have passed without activity: no     *)
(* intent is under way.                                                    *)
PruneExpired ==
  /\ pc = "idle" /\ listed = NoList /\ ledger # NoList
  /\ Event
  /\ ledger' = NoList
  /\ UNCHANGED <<config, manager, listed, simops, pipeline>>

(* A Configured Data Flush takes the ledger and the evidence when no Run   *)
(* is active, in the middle of a request or of a touch too.                *)
Flush ==
  /\ backend = "postgres" /\ \A k \in Keys : run[k] # "active"
  /\ Event
  /\ ledger' = NoList
  /\ evidence' = [k \in Keys |-> NoEvidence]
  /\ UNCHANGED <<config, manager, listed, simops, results, projected, twin>>

Next ==
  \/ \E k \in Keys : Request(k) \/ IngestResult(k) \/ SaveListed(k)
  \/ \E k \in Keys : StopRun(k) \/ SaveStop(k) \/ RunCompletes(k)
  \/ RequestStep \/ Crash \/ RecordActivity
  \/ ProjectResult \/ PublishTwin \/ PruneExpired \/ Flush

(* A client repeats its request, and the mutex lets none wait forever.     *)
Fairness ==
  /\ \A k \in Keys : SF_vars(Request(k))
  /\ WF_vars(RequestStep) /\ \A k \in Keys : WF_vars(SaveListed(k))
Spec == Init /\ [][Next]_vars /\ Fairness

-------------------------------------------------------------------------------
(* Properties                                                              *)

Decisions == {"awaiting-run", "run-failed", "run-launch-retryable", "operational-telemetry-ineligible",
              "lineage-missing", "lineage-ineligible", "outcome-applied", "intent-rejected"}
Records == [decision : Decisions, run : BOOLEAN, outcome : 0..MaxEvents, failed : BOOLEAN] \cup {NoRecord}
Lifecycles == {"none", "active", "failed", "stopped", "complete"}
(* Every variable has its type; a record says its outcome was applied when *)
(* it holds one, and a rejected request has no Run (ArtifactForgeRecord).  *)
TypeOK ==
  /\ [backend |-> backend, reactorOf |-> reactorOf, maxActive |-> maxActive] \in Sessions
  /\ ledger \in [Keys -> Records] /\ record \in Records
  /\ \A k \in Keys : /\ ledger[k].decision = "outcome-applied" <=> ledger[k].outcome # 0
                     /\ ledger[k].decision = "intent-rejected" => ~ledger[k].run
  /\ pc \in {"idle", "find", "caps", "admit", "create", "lookup", "associate",
             "evaluate", "evidence", "decide"}
  /\ key \in Keys /\ createFailed \in BOOLEAN
  /\ listed \in [Keys -> Records]
  /\ run \in [Keys -> Lifecycles] /\ stops \in [Keys -> 0..MaxEvents] /\ completed \subseteq Keys
  /\ \A i \in 1..Len(results) : results[i].key \in Keys /\ results[i].bound \in BOOLEAN
  /\ projected \in 0..Len(results) /\ twin \in 0..Len(results)
  /\ evidence \in [Keys -> [result : 0..Len(results), lineage : 0..Len(results)]]
  /\ events \in 0..MaxEvents

(* An outcome is applied only to the request whose own Run was complete,   *)
(* from a result that was ingested when the ledger bound that Run to it    *)
(* (evaluate, ResultLineageContext).                                       *)
OutcomeIsEarned ==
  \A k \in Keys : ledger[k].outcome # 0 =>
    k \in completed /\ results[ledger[k].outcome] = [key |-> k, bound |-> TRUE]

(* An applied outcome is never removed or replaced, whatever copies of the *)
(* record are saved late; only an expiry or a flush takes it (Save).       *)
OutcomeIsForGood ==
  [][\A k \in Keys : ledger[k].outcome # 0 => ledger'[k].outcome = ledger[k].outcome \/ ledger' = NoList]_vars

(* In the store in memory the caps hold of the active requests of which no *)
(* failure was ever recorded.  A request with a recorded failure is left   *)
(* out: a stop of its failed Run makes it active again with no look at the *)
(* caps (enforceCaps, resume, StopRun).                                    *)
CapsOf(S) ==
  /\ Cardinality(S) <= maxActive
  /\ \A j, k \in S : reactorOf[j] = reactorOf[k] => j = k
Unfailed == {k \in ActiveKeys : ~ledger[k].failed}
MemoryCapsUnlessReopened == backend = "memory" => CapsOf(Unfailed)

(* ADR-0007 states the caps of the Artifact Forge without exception.       *)
CapsAreKept == CapsOf(ActiveKeys)

(* A client that repeats its request has the failure of its Run recorded,  *)
(* and so its reactor freed for another request, if the Run stays failed   *)
(* or stopped: over failing calls, restarts, late saves of copies that     *)
(* still await the Run, and an expiry (Request, evaluate).                 *)
FailureIsRecorded ==
  \A k \in Keys :
    <>[](RunFailed(k) /\ ledger[k] \notin {NoRecord, Rejected} /\ ledger[k].outcome = 0)
      => <>[](ledger[k].decision = "run-failed")
===============================================================================
