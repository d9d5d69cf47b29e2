---------------------------- MODULE ReactorTelemetry ----------------------------
(***************************************************************************)
(* Reactor Telemetry Worker Sets: the manager that registers the dynamic   *)
(* reactors of one game session, launches the resident workers of each in  *)
(* Docker, keeps the session alive, and cleans a set up when its reactor   *)
(* is removed or its session expires.  Every operation runs under one      *)
(* mutex; each save and each runtime call is a step of its own, any of     *)
(* which may fail, and the process may die between two of them.            *)
(*                                                                         *)
(* Time is left out but for what is decided on it: whether a set has       *)
(* expired.  Tags, frames and the signature of a credential are left out:  *)
(* a credential counts while its set is on record, unrevoked and alive.    *)
(***************************************************************************)
EXTENDS Naturals, FiniteSets

CONSTANTS
  Reactors,      \* reactors of the session
  Keys,          \* idempotency keys its clients use
  Workers,       \* positions of the workers of a set
  Stores,        \* the stores the gateway may be configured with
  Caps,          \* values MaxReactorsPerSession may have
  MaxFaults      \* bound on the failed calls and the crashes of a behaviour

NoKey == ""
ASSUME KeysAssumption == NoKey \notin Keys
ASSUME StoresAssumption == Stores \subseteq {"memory", "postgres"}
ASSUME BoundsAssumption == Caps \subseteq Nat \ {0} /\ MaxFaults \in Nat

VARIABLES
  store, cap,    \* the configuration: the store and MaxReactorsPerSession
  row,           \* the record of each set in the store
  expired,       \* the reactors whose session has expired
  containers,    \* state of the container of each worker
  pc,            \* the step the manager is at
  op,            \* the operation that holds the mutex
  todo,          \* the sets of the list it has still to look at
  failed,        \* a set of this reconciliation failed
  reactor,       \* the reactor it works on
  hand,          \* its copy of the record of that reactor's set
  made,          \* workers created by this launch
  waiting,       \* register requests past their session activity
  faults

memory == <<op, todo, failed, reactor, hand, made>>
config == <<store, cap>>
vars   == <<config, row, expired, containers, pc, memory, waiting, faults>>

Lifecycles == {"starting", "active", "launch-failed",
               "cleanup", "cleanup-failed", "removed"}
Rows  == [lifecycle : Lifecycles, revoked : BOOLEAN, key : Keys \cup {NoKey}]
NoRow == [lifecycle |-> "none", revoked |-> FALSE, key |-> NoKey]
(* In memory a set also carries the gateway profile of its workers.        *)
Hands == [lifecycle : Lifecycles, revoked : BOOLEAN, key : Keys \cup {NoKey},
          profile : BOOLEAN]
NoHand == NoRow

Recorded == {r \in Reactors : row[r] # NoRow}
Life(r)  == row[r].lifecycle
InCleanup(r) == Life(r) \in {"cleanup", "cleanup-failed"}

(* The Postgres store keeps a set as JSON, from which the registration key *)
(* and the gateway profile are excluded; the key has a column of its own.  *)
Load(r) == [lifecycle |-> row[r].lifecycle, revoked |-> row[r].revoked,
            key     |-> IF store = "postgres" THEN NoKey ELSE row[r].key,
            profile |-> store = "memory"]

Init ==
  /\ store \in Stores /\ cap \in Caps
  /\ row = [r \in Reactors |-> NoRow]
  /\ expired = {}
  /\ containers = [r \in Reactors |-> [w \in Workers |-> "none"]]
  /\ pc = "idle" /\ op = "none" /\ todo = {} /\ failed = FALSE
  /\ reactor \in Reactors /\ hand = NoHand /\ made = {}
  /\ waiting = {}
  /\ faults = 0

-------------------------------------------------------------------------------
(* Ends of an operation, saves and faults                                  *)

Fault == faults < MaxFaults /\ faults' = faults + 1
Batch == op \in {"boot", "expire"}

(* One set is done: a reconciliation goes on with the next, a request      *)
(* answers.  What the operation held of it is gone.                        *)
Forget == hand' = NoHand /\ made' = {}
Done ==
  /\ Forget
  /\ pc' = IF Batch \/ op = "touch" THEN "next" ELSE "idle"
  /\ UNCHANGED failed

(* An error: a reconciliation joins it and goes on, a request returns it.  *)
Fail ==
  /\ Forget
  /\ pc' = IF Batch THEN "next" ELSE "idle"
  /\ failed' = Batch

(* The table is unique in (game_session_id, register_idempotency_key).     *)
KeyTaken(h) ==
  /\ store = "postgres"
  /\ \E r \in Recorded \ {reactor} : row[r].key = h.key

RowOf(h) == [lifecycle |-> h.lifecycle, revoked |-> h.revoked, key |-> h.key]
Written(h) == row' = [row EXCEPT ![reactor] = RowOf(h)]

(* SaveWorkerSet of h, and what follows when it succeeds or fails; an      *)
(* error of the database may come after the row was written.               *)
Save(h, Ok, Err) ==
  /\ \/ ~KeyTaken(h) /\ Written(h) /\ Ok /\ UNCHANGED faults
     \/ KeyTaken(h) /\ UNCHANGED <<row, faults>> /\ Err
     \/ Fault /\ UNCHANGED row /\ Err
     \/ ~KeyTaken(h) /\ store = "postgres" /\ Fault /\ Written(h) /\ Err

Goto(label, h) == pc' = label /\ hand' = h /\ UNCHANGED <<made, failed>>

(* The process dies: what only memory held is lost.                        *)
Crash ==
  /\ pc # "down"
  /\ Fault
  /\ pc' = "down"
  /\ row' = IF store = "memory" THEN [r \in Reactors |-> NoRow] ELSE row
  /\ waiting' = {}
  /\ UNCHANGED <<config, expired, containers, memory>>

-------------------------------------------------------------------------------
(* Requests and reconciliations take the mutex                             *)

Begin(kind, sets) ==
  /\ op' = kind
  /\ todo' = sets
  /\ failed' = FALSE
  /\ pc' = "next"
  /\ UNCHANGED <<config, row, expired, containers, hand, made, faults>>

(* The session expires: a day went by without activity.                    *)
Expire(r) ==
  /\ r \in Recorded \ expired
  /\ expired' = expired \cup {r}
  /\ UNCHANGED <<config, row, containers, pc, memory, waiting, faults>>

(* recordSessionActivity of a register intent.                             *)
Receive ==
  /\ pc = "idle"
  /\ Begin("touch", Recorded)
  /\ UNCHANGED <<reactor, waiting>>

(* NewDefaultGateway reconciles before the gateway serves.                 *)
Boot ==
  /\ pc = "down"
  /\ Begin("boot", Recorded)
  /\ UNCHANGED <<reactor, waiting>>

(* One tick of the scheduler: ReconcileExpired.                            *)
ReconcileExpired ==
  /\ pc = "idle"
  /\ Begin("expire", Recorded)
  /\ UNCHANGED <<reactor, waiting>>

(* Mutant of Unlaunched: a set whose cleanup failed is taken for one whose *)
(* launch failed.                                                          *)
UnlaunchedOrFailed(r) == Life(r) \in {"starting", "launch-failed", "cleanup-failed"}
Unlaunched(r) == Life(r) \in {"starting", "launch-failed"}
Retried(r)    == (Unlaunched(r) \/ Life(r) = "active") /\ r \notin expired

(* Mutant of Treatment: only the expired sets are cleaned up.              *)
TreatmentOfExpired(r) ==
  CASE op = "expire" -> IF Life(r) # "removed" /\ r \in expired THEN "cleanup" ELSE "next"
    [] op = "boot"   -> IF Retried(r) THEN "retry" ELSE "next"
    [] OTHER         -> IF InCleanup(r) \/ Life(r) = "removed" THEN "next" ELSE "touch"
(* What an operation does with a set of its list.                          *)
Treatment(r) ==
  CASE op = "boot"   -> IF Retried(r) THEN "retry" ELSE IF InCleanup(r) THEN "cleanup" ELSE "next"
    [] op = "expire" -> IF Life(r) # "removed" /\ (InCleanup(r) \/ r \in expired)
                          THEN "cleanup" ELSE "next"
    [] OTHER         -> IF InCleanup(r) \/ Life(r) = "removed" THEN "next" ELSE "touch"

NextSet ==
  /\ pc = "next"
  /\ \E r \in todo : /\ todo' = todo \ {r}
                     /\ reactor' = r
                     /\ pc' = Treatment(r)
                     /\ hand' = IF pc' = "next" THEN NoHand ELSE Load(r)
  /\ UNCHANGED <<config, row, expired, containers, op, failed, made, waiting, faults>>

(* The list is done.  A gateway whose boot reconciliation failed does not  *)
(* start; a request that touched its session goes on to register.          *)
Finish ==
  /\ pc = "next" /\ todo = {}
  /\ pc' = IF op = "boot" /\ failed THEN "down" ELSE "idle"
  /\ IF op = "touch" THEN \E r \in Reactors : waiting' = waiting \cup {r}
                     ELSE UNCHANGED waiting
  /\ UNCHANGED <<config, row, expired, containers, memory, faults>>

(* TouchSession renews a set that is not being cleaned up.                 *)
Touch ==
  /\ pc = "touch"
  /\ Save(hand, Done, Fail)
  /\ expired' = IF pc' = "next" THEN expired \ {reactor} ELSE expired
  /\ UNCHANGED <<config, containers, op, todo, reactor, waiting>>

NewSet(k) == [lifecycle |-> "starting", revoked |-> FALSE, key |-> k, profile |-> TRUE]

(* The set a registration finds: by its key, else by its reactor.          *)
FoundBy(r, k) == IF \E q \in Recorded : row[q].key = k
                   THEN {q \in Recorded : row[q].key = k}
                   ELSE Recorded \cap {r}

(* RegisterDynamicReactor: a set that did not get to run is retried, any   *)
(* other is returned; a new one is created within the cap of the session.  *)
UnderCap == Cardinality({q \in Recorded : Life(q) # "removed"}) < cap

Register(r, k) ==
  /\ pc = "idle"
  /\ r \in waiting
  /\ waiting' = waiting \ {r}
  /\ op' = "register"
  /\ \/ \E q \in FoundBy(r, k) :
          /\ reactor' = q
          /\ IF Unlaunched(q)
               THEN pc' = "retry" /\ hand' = Load(q)
               ELSE UNCHANGED <<pc, hand>>
     \/ /\ FoundBy(r, k) = {}
        /\ reactor' = r
        /\ UnderCap /\ pc' = "register" /\ hand' = NewSet(k)
     \/ /\ FoundBy(r, k) = {} /\ ~UnderCap
        /\ UNCHANGED <<reactor, pc, hand>>
  /\ UNCHANGED <<config, row, expired, containers, todo, failed, made, faults>>

BeginRemove(r) ==
  /\ pc = "idle"
  /\ op' = "remove" /\ reactor' = r /\ hand' = Load(r) /\ pc' = "cleanup"
  /\ UNCHANGED <<config, row, expired, containers, todo, failed, made, waiting, faults>>
(* Mutant of Remove: a reactor that has no set is not refused.             *)
RemoveUnknown(r) == Life(r) # "removed" /\ BeginRemove(r)
(* RemoveDynamicReactor: an unknown set is an error, a removed one is      *)
(* returned.                                                               *)
Remove(r) == r \in Recorded /\ Life(r) # "removed" /\ BeginRemove(r)

-------------------------------------------------------------------------------
(* Launch: the new record or retryWorkerSet, then the runtime              *)

As(lifecycle) == [hand EXCEPT !.lifecycle = lifecycle]

(* The sources of the workers are declared before the record is saved.     *)
DeclareSources ==
  /\ pc \in {"register", "retry"}
  /\ \/ Goto("save", As("starting")) /\ UNCHANGED faults
     \/ Fault /\ Fail
  /\ UNCHANGED <<config, row, expired, containers, op, todo, reactor, waiting>>

(* Mutant of SaveStarting: retryWorkerSet leaves the record as it is.      *)
SaveNothing ==
  /\ pc = "save"
  /\ Goto("clear", hand)
  /\ UNCHANGED <<config, row, expired, containers, op, todo, reactor, waiting, faults>>
SaveStarting ==
  /\ pc = "save"
  /\ Save(hand, Goto("clear", hand), Fail)
  /\ expired' = IF row[reactor] = NoRow THEN expired \ {reactor} ELSE expired
  /\ UNCHANGED <<config, containers, op, todo, reactor, waiting>>

NoContainers == [w \in Workers |-> "none"]

(* removeWorkerSetContainers stops and removes what carries the label of   *)
(* the set, one by one, and gives up at the first error.                   *)
RemoveContainers(ok, err) ==
  \/ /\ containers' = [containers EXCEPT ![reactor] = NoContainers]
     /\ pc' = ok /\ UNCHANGED faults
  \/ /\ \E left \in SUBSET Workers :
          containers' = [containers EXCEPT ![reactor] =
                           [w \in Workers |-> IF w \in left THEN @[w] ELSE "none"]]
     /\ pc' = err /\ Fault

(* StartWorkerSet first clears what an earlier launch left.                *)
ClearWorkers ==
  /\ pc = "clear"
  /\ RemoveContainers("launch", "launch-failed")
  /\ made' = {}
  /\ UNCHANGED <<config, row, expired, op, todo, failed, reactor, hand, waiting>>

Put(w, state) == containers' = [containers EXCEPT ![reactor][w] = state]

(* One worker: its profile is checked, its container is created and        *)
(* started.  A failed create may have created, and then is not rolled      *)
(* back; a failed start may have started.                                  *)
LaunchWorker ==
  /\ pc = "launch"
  /\ \E w \in Workers \ made :
       \/ /\ hand.profile
          /\ made' = made \cup {w} /\ Put(w, "running")
          /\ UNCHANGED <<pc, faults>>
       \/ /\ hand.profile
          /\ Fault /\ pc' = "rollback"
          /\ \/ \E state \in {"none", "created"} : Put(w, state) /\ UNCHANGED made
             \/ \E state \in {"created", "running"} : Put(w, state) /\ made' = made \cup {w}
       \/ /\ ~hand.profile
          /\ pc' = "rollback" /\ UNCHANGED <<made, containers, faults>>
  /\ UNCHANGED <<config, row, expired, op, todo, failed, reactor, hand, waiting>>

Launched ==
  /\ pc = "launch" /\ made = Workers
  /\ pc' = "activate"
  /\ UNCHANGED <<config, row, expired, containers, memory, waiting, faults>>

(* The rollback removes what this launch made and ignores errors.          *)
Rollback ==
  /\ pc = "rollback"
  /\ pc' = "launch-failed"
  /\ \E left \in SUBSET made :
       /\ IF left = {} THEN UNCHANGED faults ELSE Fault
       /\ containers' = [containers EXCEPT ![reactor] =
                           [w \in Workers |-> IF w \in made \ left THEN "none" ELSE @[w]]]
  /\ UNCHANGED <<config, row, expired, memory, waiting>>

(* The failure is recorded; an error of that save is ignored.              *)
SaveLaunchFailed ==
  /\ pc = "launch-failed"
  /\ Save(As("launch-failed"), Fail, Fail)
  /\ UNCHANGED <<config, expired, containers, op, todo, reactor, waiting>>

SaveActive ==
  /\ pc = "activate"
  /\ Save(As("active"), Done, Fail)
  /\ UNCHANGED <<config, expired, containers, op, todo, reactor, waiting>>

-------------------------------------------------------------------------------
(* cleanupWorkerSet                                                        *)

Revoked(lifecycle) == [hand EXCEPT !.lifecycle = lifecycle, !.revoked = TRUE]

SaveCleanup ==
  /\ pc = "cleanup"
  /\ Save(Revoked("cleanup"), Goto("stop", Revoked("cleanup")), Fail)
  /\ UNCHANGED <<config, expired, containers, op, todo, reactor, waiting>>

(* Mutant of StopWorkers: the error of the runtime is dropped.             *)
StopWorkersDropsError ==
  /\ pc = "stop"
  /\ RemoveContainers("removed", "removed")
  /\ UNCHANGED <<config, row, expired, memory, waiting>>
StopWorkers ==
  /\ pc = "stop"
  /\ RemoveContainers("removed", "cleanup-failed")
  /\ UNCHANGED <<config, row, expired, memory, waiting>>

SaveCleanupFailed ==
  /\ pc = "cleanup-failed"
  /\ Save(Revoked("cleanup-failed"), Fail, Fail)
  /\ UNCHANGED <<config, expired, containers, op, todo, reactor, waiting>>

SaveRemoved ==
  /\ pc = "removed"
  /\ Save(Revoked("removed"), Done, Fail)
  /\ UNCHANGED <<config, expired, containers, op, todo, reactor, waiting>>

-------------------------------------------------------------------------------
Step ==
  \/ NextSet \/ Finish \/ Touch
  \/ DeclareSources \/ SaveStarting \/ ClearWorkers \/ LaunchWorker \/ Launched
  \/ Rollback \/ SaveLaunchFailed \/ SaveActive
  \/ SaveCleanup \/ StopWorkers \/ SaveCleanupFailed \/ SaveRemoved

Next ==
  \/ Step \/ Boot \/ ReconcileExpired \/ Receive \/ Crash
  \/ \E r \in Reactors : Expire(r) \/ Remove(r) \/ \E k \in Keys : Register(r, k)

(* The manager goes on, its supervisor restarts it, the scheduler ticks;   *)
(* the mutex is contended, so that a tick is served again and again.       *)
Spec == Init /\ [][Next]_vars /\ WF_vars(Step) /\ WF_vars(Boot) /\ SF_vars(ReconcileExpired)
-------------------------------------------------------------------------------
(* Properties                                                              *)

(* The store, the containers and the memory of the manager hold values of  *)
(* their types.                                                            *)
TypeOK ==
  /\ store \in Stores /\ cap \in Caps
  /\ row \in [Reactors -> Rows \cup {NoRow}]
  /\ expired \subseteq Reactors
  /\ containers \in [Reactors -> [Workers -> {"none", "created", "running"}]]
  /\ pc \in {"down", "idle", "next", "touch", "register", "retry", "save", "clear",
             "launch", "rollback", "activate", "launch-failed", "cleanup", "stop",
             "cleanup-failed", "removed"}
  /\ op \in {"none", "boot", "expire", "touch", "register", "remove"}
  /\ todo \subseteq Reactors
  /\ failed \in BOOLEAN
  /\ reactor \in Reactors
  /\ hand \in Hands \cup {NoHand}
  /\ made \subseteq Workers
  /\ waiting \subseteq Reactors
  /\ faults \in 0..MaxFaults

(* A set recorded as removed has no container left, whatever failed or     *)
(* crashed in its launches and cleanups.                                   *)
RemovedHasNoContainers ==
  \A r \in Recorded : Life(r) = "removed" => containers[r] = NoContainers

(* A set recorded as active has all its workers running: a retry writes    *)
(* "starting" before it takes the workers of the earlier launch down.      *)
ActiveIsLaunched ==
  \A r \in Recorded : Life(r) = "active" => \A w \in Workers : containers[r][w] = "running"

(* AuthorizeSourceCredential: the set on record decides.                   *)
Authorized(r) == Life(r) \in {"starting", "active"} /\ ~row[r].revoked /\ r \notin expired

(* Once the credentials of a set are revoked no frame is authorized by     *)
(* them and no worker of the set is launched again, by a retry, a touch, a *)
(* reconciliation or a restart.  (In memory a crash forgets the set, and   *)
(* with it the credentials.)                                               *)
RevokedForGood ==
  [][\A r \in Recorded : row[r].revoked =>
       /\ row'[r].revoked \/ (store = "memory" /\ pc' = "down")
       /\ ~Authorized(r)'
       /\ \A w \in Workers : containers'[r][w] \in {"none", containers[r][w]}]_vars

(* A cleanup that was begun is finished by later reconciliations, whatever *)
(* failed of it; in memory a crash may forget it.                          *)
CleanupFinishes ==
  \A r \in Reactors : InCleanup(r) ~> (Life(r) \in {"removed", "none"})

(* Stated by ADR-0007: removal or expiry revokes the ingest credentials    *)
(* and starts a bounded cleanup, which finishes or exposes its failure.    *)
ExpiredIsCleanedUp ==
  \A r \in Reactors :
    (r \in expired /\ row[r] # NoRow) ~> (r \notin expired \/ row[r].revoked \/ row[r] = NoRow)
===============================================================================
