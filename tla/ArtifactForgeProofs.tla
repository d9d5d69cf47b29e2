-------------------------- MODULE ArtifactForgeProofs --------------------------
(***************************************************************************)
(* An outcome of the Artifact Forge is earned and final, for any number of *)
(* requests, either store, and any number of failures, activities,         *)
(* expiries and flushes.                                                   *)
(*                                                                         *)
(* The invariant says of every copy of a record, in the ledger, in the     *)
(* manager's hand and in the list of an activity, what OutcomeIsEarned     *)
(* says of the ledger: a late save then cannot break it.                   *)
(***************************************************************************)
EXTENDS ArtifactForge, FiniteSetTheorems, TLAPS

Steps  == {"idle", "find", "caps", "admit", "create", "lookup", "associate",
           "evaluate", "evidence", "decide"}
Record == [decision : Decisions, run : BOOLEAN, outcome : Nat, failed : BOOLEAN] \cup {NoRecord}
Config == [backend |-> backend, reactorOf |-> reactorOf, maxActive |-> maxActive] \in Sessions
(* The history holds every Run that is complete.                           *)
Runs   ==
  /\ run \in [Keys -> Lifecycles] /\ stops \in [Keys -> Nat] /\ completed \subseteq Keys
  /\ \A k \in Keys : stops[k] <= events /\ (run[k] = "complete" => k \in completed)

Types ==
  /\ Config /\ Runs
  /\ ledger \in [Keys -> Record] /\ listed \in [Keys -> Record] /\ record \in Record
  /\ pc \in Steps /\ key \in Keys /\ createFailed \in BOOLEAN
  /\ results \in Seq([key : Keys, bound : BOOLEAN])
  /\ projected \in 0..Len(results) /\ twin \in 0..Len(results)
  /\ evidence \in [Keys -> [result : 0..Len(results), lineage : 0..Len(results)]]
  /\ events \in 0..MaxEvents /\ Len(results) <= events

(* The result i was ingested for the Run of request k.                     *)
ResultOf(i, k) == i \in 1..Len(results) /\ results[i].key = k
(* A copy of the record of k is consistent, and its outcome is earned.     *)
Sound(r, k) ==
  /\ r.decision = "outcome-applied" <=> r.outcome # 0
  /\ r.decision = "intent-rejected" => ~r.run
  /\ r.decision = "run-failed" => r.failed
  /\ r.outcome # 0 => k \in completed /\ ResultOf(r.outcome, k) /\ results[r.outcome].bound

(* What the manager has in hand at each step.                              *)
InHand ==
  /\ pc \in {"idle", "find"} => record = NoRecord
  /\ pc \notin {"idle", "find", "decide"} =>
       record # NoRecord /\ record.outcome = 0 /\ record.decision # "intent-rejected"
  /\ pc = "evidence" => key \in completed

SoundCopies ==
  /\ \A k \in Keys : Sound(ledger[k], k) /\ Sound(listed[k], k)
  /\ Sound(record, key)
LineageIsOwn == \A k \in Keys : evidence[k].lineage # 0 => ResultOf(evidence[k].lineage, k)

IInv == Types /\ SoundCopies /\ InHand /\ LineageIsOwn

USE DEF Steps

LEMMA ElementOf ==
  ASSUME NEW S, NEW s \in Seq(S), NEW i \in 1..Len(s)
  PROVE  s[i] \in S
OBVIOUS

(* A result, and the Run it is of.                                         *)
LEMMA ResultTypes ==
  ASSUME Types, NEW i \in 1..Len(results)
  PROVE  /\ results[i] \in [key : Keys, bound : BOOLEAN]
         /\ results[i].key \in Keys /\ results[i].bound \in BOOLEAN
<1>1. results \in Seq([key : Keys, bound : BOOLEAN])
  BY DEF Types
<1>2. results[i] \in [key : Keys, bound : BOOLEAN]
  BY <1>1, ElementOf
<1> QED
  BY <1>2

LEMMA RecordFacts ==
  /\ AnyKey \in Keys
  /\ NoRecord \in Record /\ Accepted \in Record /\ Rejected \in Record
  /\ NoList \in [Keys -> Record]
BY KeysAssumption DEF AnyKey, NoRecord, Accepted, Rejected, NoList, Record, Decisions

LEMMA SessionFacts ==
  ASSUME Config
  PROVE  backend \in {"memory", "postgres"} /\ reactorOf \in [Keys -> Reactors] /\ maxActive \in Nat
BY SessionsAssumption DEF Config

LEMMA InitHolds == Init => IInv
<1> SUFFICES ASSUME Init PROVE IInv
  OBVIOUS
<1>1. Types
  <2>1. results = <<>> /\ results \in Seq([key : Keys, bound : BOOLEAN]) /\ Len(results) = 0
    BY DEF Init
  <2>2. evidence \in [Keys -> [result : 0..0, lineage : 0..0]]
    BY DEF Init, NoEvidence
  <2>3. events = 0 /\ MaxEvents \in Nat
    BY BoundsAssumption DEF Init
  <2>4. ledger \in [Keys -> Record] /\ listed \in [Keys -> Record] /\ record \in Record /\ key \in Keys
    BY RecordFacts DEF Init
  <2>5. Runs
    BY DEF Init, Runs, Lifecycles
  <2>8. Config
    <3>1. PICK s \in Sessions : backend = s.backend /\ reactorOf = s.reactorOf /\ maxActive = s.maxActive
      BY DEF Init
    <3>2. s = [backend |-> s.backend, reactorOf |-> s.reactorOf, maxActive |-> s.maxActive]
      BY SessionsAssumption
    <3> QED
      BY <3>1, <3>2 DEF Config
  <2>6. projected \in 0..Len(results) /\ twin \in 0..Len(results) /\ events \in 0..MaxEvents /\ Len(results) <= events
    BY <2>1, <2>3 DEF Init
  <2>7. evidence \in [Keys -> [result : 0..Len(results), lineage : 0..Len(results)]]
    BY <2>1, <2>2
  <2> QED
    BY <2>1, <2>4, <2>5, <2>6, <2>7, <2>8 DEF Init, Types
<1>2. SoundCopies
  BY RecordFacts DEF Init, SoundCopies, Sound, NoList, NoRecord
<1>3. InHand /\ LineageIsOwn
  BY DEF Init, InHand, LineageIsOwn, NoEvidence
<1> QED
  BY <1>1, <1>2, <1>3 DEF IInv

-------------------------------------------------------------------------------
(* What was complete stays on record and results stay where they are.      *)
Grows ==
  /\ completed \subseteq completed'
  /\ \E f \in [key : Keys, bound : BOOLEAN] : results' \in {results, Append(results, f)}

LEMMA ResultsStay ==
  ASSUME Types, Grows
  PROVE  /\ results' \in Seq([key : Keys, bound : BOOLEAN])
         /\ Len(results) \in Nat /\ Len(results') \in Nat /\ Len(results') >= Len(results)
         /\ \A i \in 1..Len(results) : results'[i] = results[i]
<1>1. PICK f \in [key : Keys, bound : BOOLEAN] : results' \in {results, Append(results, f)}
  BY DEF Grows
<1>2. results \in Seq([key : Keys, bound : BOOLEAN])
  BY DEF Types
<1>3. CASE results' = results
  BY <1>2, <1>3
<1>4. CASE results' = Append(results, f)
  BY <1>2, <1>4
<1> QED
  BY <1>1, <1>3, <1>4

LEMMA NothingGrows ==
  ASSUME Types, UNCHANGED <<completed, results>>
  PROVE  Grows
<1>1. [key |-> AnyKey, bound |-> TRUE] \in [key : Keys, bound : BOOLEAN]
  BY RecordFacts
<1> QED
  BY <1>1 DEF Grows

LEMMA SoundStays ==
  ASSUME Types, Grows, NEW r \in Record, NEW k \in Keys, Sound(r, k)
  PROVE  Sound(r, k)'
<1>1. CASE r.outcome = 0
  BY <1>1 DEF Sound
<1>2. CASE r.outcome # 0
  <2>1. ResultOf(r.outcome, k) /\ results[r.outcome].bound /\ k \in completed'
    BY <1>2 DEF Sound, Grows
  <2>2. r.outcome \in 1..Len(results') /\ results'[r.outcome] = results[r.outcome]
    BY <2>1, ResultsStay DEF ResultOf
  <2> QED
    BY <1>2, <2>1, <2>2 DEF Sound, ResultOf
<1> QED
  BY <1>1, <1>2

LEMMA LineageStays ==
  ASSUME Types, Grows, LineageIsOwn, UNCHANGED evidence
  PROVE  LineageIsOwn'
<1> SUFFICES ASSUME NEW k \in Keys, evidence[k].lineage # 0
             PROVE  ResultOf(evidence[k].lineage, k)'
  BY DEF LineageIsOwn
<1>1. ResultOf(evidence[k].lineage, k)
  BY DEF LineageIsOwn
<1>2. evidence[k].lineage \in 1..Len(results')
  BY <1>1, ResultsStay DEF ResultOf
<1>3. results'[evidence[k].lineage] = results[evidence[k].lineage]
  BY <1>1, ResultsStay DEF ResultOf
<1> QED
  BY <1>1, <1>2, <1>3 DEF ResultOf

LEMMA NoRecordIsSound == \A k \in Keys : Sound(NoRecord, k)
BY DEF Sound, NoRecord

LEMMA SaveIsSound ==
  ASSUME IInv, NEW k \in Keys, NEW r \in Record, Sound(r, k), Saved(k, r)
  PROVE  /\ ledger' \in [Keys -> Record]
         /\ \A j \in Keys : Sound(ledger'[j], j)
BY DEF IInv, Types, SoundCopies, Saved

(* Nothing of SimOps moves.                                                *)
LEMMA SimopsStays ==
  ASSUME Types, UNCHANGED simops, events' \in 0..MaxEvents, events' >= events
  PROVE  Runs' /\ completed' = completed
<1>1. events \in Nat /\ events' \in Nat
  BY BoundsAssumption DEF Types
<1>2. ASSUME NEW k \in Keys PROVE stops[k] \in Nat /\ stops[k] <= events
  BY DEF Types, Runs
<1> QED
  BY <1>1, <1>2 DEF Types, Runs, simops

LEMMA OneMoreEvent ==
  ASSUME Types, Event \/ StoreFault \/ NoFault
  PROVE  events' \in 0..MaxEvents /\ events' >= events
BY BoundsAssumption DEF Types, Event, StoreFault, NoFault

LEMMA Quiet ==
  ASSUME Types, UNCHANGED <<simops, pipeline>>, Event \/ StoreFault \/ NoFault
  PROVE  Grows /\ Runs' /\ events' \in 0..MaxEvents /\ events' >= events
<1>1. events' \in 0..MaxEvents /\ events' >= events
  BY OneMoreEvent
<1>2. UNCHANGED <<completed, results>>
  BY DEF simops, pipeline
<1> QED
  BY <1>1, <1>2, NothingGrows, SimopsStays

LEMMA ReplyHolds ==
  ASSUME IInv, Reply, UNCHANGED <<config, simops, pipeline, listed>>,
         events' \in 0..MaxEvents, events' >= events,
         ledger' \in [Keys -> Record], \A j \in Keys : Sound(ledger'[j], j)
  PROVE  IInv'
<1> USE DEF IInv, Reply, Goto, config, simops, pipeline
<1>1. Types'
  <2>1. events \in Nat /\ events' \in Nat /\ Len(results) \in Nat /\ Len(results) <= events'
    BY BoundsAssumption DEF Types
  <2>2. Runs'
    BY SimopsStays
  <2> QED
    BY <2>1, <2>2, RecordFacts DEF Types, Config
<1>2. SoundCopies'
  BY RecordFacts, NoRecordIsSound DEF SoundCopies, Sound, ResultOf
<1>3. InHand' /\ LineageIsOwn'
  BY DEF InHand, LineageIsOwn, ResultOf
<1> QED
  BY <1>1, <1>2, <1>3

LEMMA HandHolds ==
  ASSUME IInv, Grows,
         UNCHANGED <<config, ledger, listed, pipeline>>,
         Runs',
         events' \in 0..MaxEvents, events' >= events,
         pc' \in Steps, key' \in Keys, createFailed' \in BOOLEAN,
         record' \in Record, Sound(record, key)', InHand'
  PROVE  IInv'
<1>1. Types'
  <2>1. Len(results') <= events'
    BY BoundsAssumption DEF IInv, Types, pipeline
  <2> QED
    BY <2>1 DEF IInv, Types, Config, config, pipeline
<1>2. SoundCopies'
  <2>1. ASSUME NEW k \in Keys PROVE Sound(ledger[k], k)' /\ Sound(listed[k], k)'
    <3>1. /\ ledger[k] \in Record /\ listed[k] \in Record
          /\ Sound(ledger[k], k) /\ Sound(listed[k], k) /\ Types
      BY DEF IInv, Types, SoundCopies
    <3>2. ASSUME NEW r \in Record, Sound(r, k) PROVE Sound(r, k)'
      BY <3>1, <3>2, SoundStays
    <3>3. ledger'[k] = ledger[k] /\ listed'[k] = listed[k]
      OBVIOUS
    <3> QED
      BY <3>1, <3>2, <3>3 DEF Sound, ResultOf
  <2> QED
    BY <2>1 DEF SoundCopies
<1>3. LineageIsOwn'
  BY LineageStays DEF IInv, pipeline
<1> QED
  BY <1>1, <1>2, <1>3 DEF IInv

(* The steps of the manager that save nothing.                             *)
LEMMA RequestHolds == ASSUME IInv, NEW k \in Keys, Request(k) PROVE IInv'
<1> USE DEF Request, Goto
<1>1. Types /\ Grows /\ Runs' /\ events' \in 0..MaxEvents /\ events' >= events
  BY Quiet DEF IInv, NoFault
<1>2. record = NoRecord
  BY DEF IInv, InHand
<1>3. Sound(record, key)' /\ InHand'
  BY <1>2, NoRecordIsSound DEF Sound, NoRecord, InHand, ResultOf
<1> QED
  BY <1>1, <1>3, HandHolds DEF Types

LEMMA FindHolds == ASSUME IInv, Find PROVE IInv'
<1> USE DEF Find, Goto
<1>1. Types /\ Grows /\ Runs' /\ events' \in 0..MaxEvents /\ events' >= events
      /\ UNCHANGED <<config, ledger, listed, simops, pipeline>>
  BY Quiet DEF IInv, NoFault
<1>2. ledger[key] \in Record /\ Sound(ledger[key], key) /\ key \in Keys
  BY DEF IInv, Types, SoundCopies
<1>3. CASE Reply
  BY <1>1, <1>2, <1>3, ReplyHolds DEF IInv, Types, SoundCopies
<1>4. CASE /\ record' = ledger[key] /\ record' # NoRecord /\ record'.outcome = 0
           /\ record'.decision # "intent-rejected"
           /\ pc' \in {"evaluate", "create"} /\ UNCHANGED <<key, createFailed>>
  <2>1. Sound(record, key)'
    BY <1>1, <1>2, <1>4 DEF Sound, ResultOf
  <2>2. InHand'
    BY <1>4 DEF InHand
  <2>3. record' \in Record /\ key' \in Keys /\ pc' \in Steps
    BY <1>2, <1>4
  <2>4. createFailed' \in BOOLEAN
    BY <1>1, <1>4 DEF Types
  <2> QED
    BY <1>1, <2>1, <2>2, <2>3, <2>4, HandHolds
<1>5. CASE /\ \/ record' = Accepted /\ pc' = "caps"
              \/ record' = Rejected /\ pc' = "decide"
           /\ UNCHANGED <<key, createFailed>>
  <2>1. Sound(record, key)'
    BY <1>5 DEF Sound, Accepted, Rejected, NoRecord
  <2>2. InHand'
    BY <1>5 DEF InHand, Accepted, Rejected, NoRecord
  <2> QED
    BY <1>1, <1>2, <1>5, <2>1, <2>2, RecordFacts, HandHolds DEF Types
<1> QED
  BY <1>3, <1>4, <1>5 DEF Resume

(* Copies are saved, listed or dropped; the manager holds what it held.    *)
LEMMA CopiesHold ==
  ASSUME IInv, UNCHANGED <<config, simops, pipeline, key, record, createFailed>>,
         pc' \in Steps, InHand', events' \in 0..MaxEvents, events' >= events,
         ledger' \in [Keys -> Record], \A j \in Keys : Sound(ledger'[j], j),
         listed' \in [Keys -> Record], \A j \in Keys : Sound(listed'[j], j)
  PROVE  IInv'
<1> USE DEF IInv
<1>1. Types'
  <2>1. Runs'
    BY SimopsStays
  <2> QED
    BY <2>1, BoundsAssumption DEF Types, Config, config, pipeline
<1>2. SoundCopies' /\ LineageIsOwn'
  BY DEF SoundCopies, Sound, ResultOf, LineageIsOwn, simops, pipeline
<1> QED
  BY <1>1, <1>2

(* A save of the manager, followed by a reply or by its next step.         *)
LEMMA SaveThenHolds ==
  ASSUME IInv, NEW ACTION next, next => Reply \/ (Keep /\ pc' \in Steps /\ InHand'),
         SaveThen(next), UNCHANGED <<config, listed, simops, pipeline>>
  PROVE  IInv'
<1>1. /\ key \in Keys /\ record \in Record /\ Sound(record, key)
      /\ ledger \in [Keys -> Record] /\ \A j \in Keys : Sound(ledger[j], j)
      /\ listed \in [Keys -> Record] /\ \A j \in Keys : Sound(listed[j], j)
  BY DEF IInv, Types, SoundCopies
<1>2. events' \in 0..MaxEvents /\ events' >= events
  <2>1. Event \/ StoreFault \/ NoFault
    BY DEF SaveThen, NoFault
  <2> QED
    BY <2>1, OneMoreEvent DEF IInv
<1>3. ledger' \in [Keys -> Record] /\ \A j \in Keys : Sound(ledger'[j], j)
  <2>1. CASE Saved(key, record)
    BY <1>1, <2>1, SaveIsSound
  <2>2. CASE UNCHANGED ledger
    BY <1>1, <2>2
  <2> QED
    BY <2>1, <2>2 DEF SaveThen
<1>4. CASE Reply
  BY <1>2, <1>3, <1>4, ReplyHolds
<1>5. CASE Keep /\ pc' \in Steps /\ InHand'
  <2>1. listed' = listed
    OBVIOUS
  <2> QED
    BY <1>1, <1>2, <1>3, <1>5, <2>1, CopiesHold DEF Keep
<1> QED
  BY <1>4, <1>5 DEF SaveThen

LEMMA AdmitHolds == ASSUME IInv, Admit PROVE IInv'
<1>1. ASSUME Goto("create"), Keep PROVE pc' \in Steps /\ InHand'
  BY <1>1 DEF Goto, Keep, InHand, IInv, Admit
<1> QED
  BY <1>1, SaveThenHolds DEF Admit

LEMMA AssociateHolds == ASSUME IInv, Associate PROVE IInv'
<1> DEFINE next == IF createFailed THEN Goto("evaluate") /\ Keep ELSE Reply
<1>1. ASSUME next PROVE Reply \/ (Keep /\ pc' \in Steps /\ InHand')
  BY <1>1 DEF Goto, Keep, InHand, IInv, Associate
<1>2. SaveThen(next) /\ UNCHANGED <<config, listed, simops, pipeline>>
  BY DEF Associate
<1> HIDE DEF next
<1> QED
  BY <1>1, <1>2, SaveThenHolds

LEMMA DecideHolds == ASSUME IInv, Decide PROVE IInv'
BY SaveThenHolds DEF Decide

LEMMA EnforceCapsHolds == ASSUME IInv, EnforceCaps PROVE IInv'
<1> USE DEF EnforceCaps, Goto
<1>1. Types /\ Grows /\ Runs' /\ events' \in 0..MaxEvents /\ events' >= events
  BY Quiet DEF IInv, NoFault
<1>2. CASE Reply
  <2>1. UNCHANGED <<config, simops, pipeline, listed, ledger>>
    OBVIOUS
  <2>3. ledger' \in [Keys -> Record] /\ \A j \in Keys : Sound(ledger'[j], j)
    BY <1>1, <2>1 DEF IInv, Types, SoundCopies
  <2> QED
    BY <1>1, <1>2, <2>1, <2>3, ReplyHolds
<1>3. CASE pc' = "admit" /\ Keep
  <2>1. Sound(record, key)' /\ InHand'
    BY <1>3 DEF IInv, SoundCopies, Sound, ResultOf, InHand, Keep, simops, pipeline
  <2> QED
    BY <1>1, <1>3, <2>1, HandHolds DEF Types, Keep
<1> QED
  BY <1>2, <1>3

LEMMA DecidedRecord ==
  ASSUME NEW r \in Record, r # NoRecord, NEW d \in Decisions,
         NEW t, t \in {[r EXCEPT !.decision = d], [r EXCEPT !.run = TRUE, !.decision = d],
                         [r EXCEPT !.decision = d, !.failed = TRUE]}
  PROVE  /\ t \in Record /\ t # NoRecord /\ t.outcome = r.outcome /\ t.decision = d
         /\ t.failed \in {r.failed, TRUE}
<1>1. r \in [decision : Decisions, run : BOOLEAN, outcome : Nat, failed : BOOLEAN]
  BY DEF Record
<1>2. t \in [decision : Decisions, run : BOOLEAN, outcome : Nat, failed : BOOLEAN] /\ t.outcome = r.outcome /\ t.decision = d
      /\ t.failed \in {r.failed, TRUE}
  BY <1>1
<1>3. t.decision # "none"
  BY <1>2 DEF Decisions
<1>4. t \in Record /\ t # NoRecord
  BY <1>2, <1>3 DEF Record, NoRecord
<1> QED
  BY <1>2, <1>4

LEMMA CreateRunHolds == ASSUME IInv, CreateRun PROVE IInv'
<1> USE DEF CreateRun, Goto
<1>1. Types /\ key \in Keys /\ record \in Record /\ record # NoRecord /\ record.outcome = 0
      /\ record.decision \notin {"intent-rejected", "outcome-applied"}
      /\ (record.decision = "run-failed" => record.failed)
  BY DEF IInv, InHand, Types, SoundCopies, Sound
<1>3. Grows
  BY <1>1, NothingGrows DEF pipeline
<1>4. events' \in 0..MaxEvents /\ events' >= events
  BY <1>1, OneMoreEvent DEF NoFault
<1>2. Runs'
  <2>1. \/ UNCHANGED run
        \/ \E end \in {"active", "failed"} : run' = [run EXCEPT ![key] = end]
    BY <1>1 DEF Types, Runs, Launched, LaunchFailed, Lifecycles
  <2>2. run' \in [Keys -> Lifecycles] /\ \A k \in Keys : run'[k] = "complete" => run[k] = "complete"
    BY <1>1, <2>1 DEF Types, Runs, Lifecycles
  <2>3. \A k \in Keys : stops[k] \in Nat /\ stops[k] <= events'
    BY <1>1, <1>4, BoundsAssumption DEF Types, Runs
  <2> QED
    BY <1>1, <2>2, <2>3 DEF Types, Runs
<1>5. record' \in Record /\ record' # NoRecord /\ record'.outcome = 0
      /\ record'.decision \notin {"intent-rejected", "outcome-applied"}
      /\ (record'.decision = "run-failed" => record'.failed)
  <2>1. CASE record' = record
    BY <1>1, <2>1
  <2>2. CASE record' = [record EXCEPT !.run = TRUE, !.decision = "awaiting-run"]
    <3>1. "awaiting-run" \in Decisions
      BY DEF Decisions
    <3> QED
      BY <1>1, <2>2, <3>1, DecidedRecord
  <2> QED
    BY <2>1, <2>2
<1>6. Sound(record, key)'
  BY <1>5 DEF Sound
<1>7. InHand' /\ pc' \in Steps
  BY <1>5 DEF InHand
<1> QED
  BY <1>1, <1>2, <1>3, <1>4, <1>5, <1>6, <1>7, HandHolds DEF Types

LEMMA LookupHolds == ASSUME IInv, Lookup PROVE IInv'
<1> USE DEF Lookup, Goto
<1>1. Types /\ key \in Keys /\ record \in Record /\ record # NoRecord /\ record.outcome = 0
      /\ createFailed \in BOOLEAN
  BY DEF IInv, InHand, Types
<1>2. Grows /\ Runs' /\ events' \in 0..MaxEvents /\ events' >= events
      /\ UNCHANGED <<config, ledger, listed, pipeline>>
  BY <1>1, Quiet
<1>4. record' \in Record /\ record' # NoRecord /\ record'.outcome = 0
      /\ record'.decision \in {"awaiting-run", "run-launch-retryable"}
  <2>1. {"awaiting-run", "run-launch-retryable"} \subseteq Decisions
    BY DEF Decisions
  <2>2. CASE record' = [record EXCEPT !.run = TRUE, !.decision = "awaiting-run"]
    BY <1>1, <2>1, <2>2, DecidedRecord
  <2>3. CASE record' = [record EXCEPT !.decision = "run-launch-retryable"]
    BY <1>1, <2>1, <2>3, DecidedRecord
  <2> QED
    BY <2>2, <2>3
<1>5. Sound(record, key)' /\ InHand' /\ pc' \in Steps
  BY <1>4 DEF Sound, InHand
<1> QED
  BY <1>1, <1>2, <1>4, <1>5, HandHolds

LEMMA EvaluateHolds == ASSUME IInv, Evaluate PROVE IInv'
<1> USE DEF Evaluate, Goto
<1>1. Types /\ key \in Keys /\ record \in Record /\ record # NoRecord /\ record.outcome = 0
      /\ createFailed \in BOOLEAN /\ record.decision \notin {"intent-rejected", "outcome-applied"}
      /\ (record.decision = "run-failed" => record.failed)
  BY DEF IInv, InHand, Types, SoundCopies, Sound
<1>2. Grows /\ Runs' /\ events' \in 0..MaxEvents /\ events' >= events
      /\ UNCHANGED <<config, ledger, listed, simops, pipeline>>
  BY <1>1, Quiet DEF NoFault
<1>3. record' \in Record /\ record' # NoRecord /\ record'.outcome = 0
      /\ record'.decision \notin {"intent-rejected", "outcome-applied"}
      /\ (record'.decision = "run-failed" => record'.failed)
  <2>1. {"run-failed", "awaiting-run"} \subseteq Decisions
    BY DEF Decisions
  <2>2. CASE record' = record
    BY <1>1, <2>2
  <2>3. CASE record' = [record EXCEPT !.decision = "run-failed", !.failed = TRUE]
    <3>1. record'.failed
      BY <1>1, <2>3 DEF Record
    <3> QED
      BY <1>1, <2>1, <2>3, <3>1, DecidedRecord
  <2>4. CASE record' = [record EXCEPT !.decision = "awaiting-run"]
    BY <1>1, <2>1, <2>4, DecidedRecord
  <2> QED
    BY <2>2, <2>3, <2>4
<1>4. Sound(record, key)' /\ InHand' /\ pc' \in Steps
  BY <1>1, <1>2, <1>3 DEF Sound, InHand, Types, Runs, simops
<1> QED
  BY <1>1, <1>2, <1>3, <1>4, HandHolds

(* The one step that applies an outcome: the Run has completed, and the    *)
(* Lineage of its evidence is of a result that was ingested for it.        *)
LEMMA ReadEvidenceHolds == ASSUME IInv, ReadEvidence PROVE IInv'
<1> USE DEF ReadEvidence, Goto
<1> DEFINE e == evidence[key]
<1>1. Types /\ key \in Keys /\ record \in Record /\ record # NoRecord /\ record.outcome = 0
      /\ createFailed \in BOOLEAN /\ key \in completed
      /\ e.result \in Nat /\ e.lineage \in Nat
      /\ (e.lineage # 0 => ResultOf(e.lineage, key))
  BY DEF IInv, InHand, Types, LineageIsOwn
<1>2. Grows /\ Runs' /\ events' \in 0..MaxEvents /\ events' >= events
      /\ UNCHANGED <<config, ledger, listed, simops, pipeline>>
  BY <1>1, Quiet DEF NoFault
<1>3. DecisionOn(e) \in Decisions /\ DecisionOn(e) \notin {"intent-rejected", "run-failed"}
      /\ (DecisionOn(e) = "outcome-applied" => e.lineage # 0 /\ LineageEligible(e.lineage))
  BY <1>1 DEF DecisionOn, Decisions
<1>4. /\ record' \in Record /\ record'.decision = DecisionOn(e) /\ record'.run = record.run
      /\ record'.outcome = IF DecisionOn(e) = "outcome-applied" THEN e.lineage ELSE 0
  BY <1>1, <1>3 DEF Record, NoRecord, Decisions
<1>5. Sound(record, key)'
  BY <1>1, <1>2, <1>3, <1>4 DEF Sound, ResultOf, LineageEligible, simops, pipeline
<1>6. InHand' /\ pc' \in Steps
  BY DEF InHand
<1> QED
  BY <1>1, <1>2, <1>4, <1>5, <1>6, HandHolds

-------------------------------------------------------------------------------
(* What runs beside the manager.                                           *)
LEMMA CrashHolds == ASSUME IInv, Crash PROVE IInv'
<1> USE DEF IInv, Crash, Reply, Goto, config, pipeline
<1>1. Types'
  <2>1. events' \in 0..MaxEvents /\ events' >= events
    BY OneMoreEvent
  <2>2. events \in Nat /\ Len(results) \in Nat /\ Len(results) <= events'
    BY <2>1, BoundsAssumption DEF Types
  <2>3. Runs'
    BY <2>1, BoundsAssumption DEF Types, Runs
  <2> QED
    BY <2>1, <2>2, <2>3, RecordFacts DEF Types, Config
<1>2. SoundCopies'
  BY RecordFacts, NoRecordIsSound DEF SoundCopies, Sound, ResultOf, NoList
<1>3. InHand' /\ LineageIsOwn'
  BY DEF InHand, LineageIsOwn, ResultOf
<1> QED
  BY <1>1, <1>2, <1>3

(* Every copy an activity lists or saves is one the ledger held, every     *)
(* expiry empties the ledger.                                              *)
LEMMA CopiesOfLedgerHold ==
  ASSUME IInv, UNCHANGED <<config, manager, simops, pipeline>>,
         RecordActivity \/ (\E k \in Keys : SaveListed(k)) \/ PruneExpired
  PROVE  IInv'
<1>1. Types /\ UNCHANGED <<config, simops, pipeline, key, record, createFailed, pc>>
  BY DEF IInv, manager
<1>2. InHand' /\ pc' \in Steps
  BY <1>1 DEF IInv, Types, InHand, simops
<1>3. /\ ledger \in [Keys -> Record] /\ \A j \in Keys : Sound(ledger[j], j)
      /\ listed \in [Keys -> Record] /\ \A j \in Keys : Sound(listed[j], j)
      /\ NoList \in [Keys -> Record] /\ \A j \in Keys : Sound(NoList[j], j)
  BY RecordFacts, NoRecordIsSound DEF IInv, Types, SoundCopies, NoList
<1>4. CASE RecordActivity
  <2>1. events' \in 0..MaxEvents /\ events' >= events
    BY <1>1, <1>4, OneMoreEvent DEF RecordActivity
  <2> QED
    BY <1>1, <1>2, <1>3, <1>4, <2>1, CopiesHold DEF RecordActivity
<1>5. ASSUME NEW k \in Keys, SaveListed(k) PROVE IInv'
  <2>1. events' \in 0..MaxEvents /\ events' >= events
    BY <1>1, <1>5, BoundsAssumption DEF SaveListed, Types
  <2>2. ledger' \in [Keys -> Record] /\ \A j \in Keys : Sound(ledger'[j], j)
    <3>1. listed[k] \in Record /\ Sound(listed[k], k)
      BY <1>3
    <3>2. CASE Saved(k, listed[k])
      BY <3>1, <3>2, SaveIsSound
    <3>3. CASE UNCHANGED ledger
      BY <1>3, <3>3
    <3> QED
      BY <1>5, <3>2, <3>3 DEF SaveListed
  <2>3. listed' \in [Keys -> Record] /\ \A j \in Keys : Sound(listed'[j], j)
    BY <1>3, <1>5, RecordFacts, NoRecordIsSound DEF SaveListed
  <2> QED
    BY <1>1, <1>2, <2>1, <2>2, <2>3, CopiesHold
<1>6. CASE PruneExpired
  <2>1. events' \in 0..MaxEvents /\ events' >= events
    BY <1>1, <1>6, OneMoreEvent DEF PruneExpired
  <2> QED
    BY <1>1, <1>2, <1>3, <1>6, <2>1, CopiesHold DEF PruneExpired
<1> QED
  BY <1>4, <1>5, <1>6

(* SimOps writes the lifecycle of a Run.                                   *)
LEMMA SimopsHolds ==
  ASSUME IInv, Beside, Runs', completed \subseteq completed',
         events' \in 0..MaxEvents, events' >= events
  PROVE  IInv'
<1>1. Types /\ record \in Record /\ key \in Keys /\ Sound(record, key)
  BY DEF IInv, Types, SoundCopies
<1>2. UNCHANGED <<config, ledger, listed, pipeline, results>>
  BY DEF Beside, pipeline
<1>3. Grows
  <2>1. [key |-> AnyKey, bound |-> TRUE] \in [key : Keys, bound : BOOLEAN]
    BY RecordFacts
  <2> QED
    BY <1>2, <2>1 DEF Grows
<1>4. record' = record /\ key' = key /\ pc' = pc /\ createFailed' = createFailed
  BY DEF Beside, manager
<1>5. Sound(record, key)'
  <2>1. ASSUME NEW r \in Record, NEW j \in Keys, Sound(r, j) PROVE Sound(r, j)'
    BY <1>1, <1>3, <2>1, SoundStays
  <2> QED
    BY <1>1, <1>4, <2>1 DEF Sound, ResultOf
<1>6. InHand' /\ pc' \in Steps
  BY <1>1, <1>4 DEF IInv, Types, InHand
<1>7. createFailed' \in BOOLEAN /\ record' \in Record /\ key' \in Keys
  BY <1>1, <1>4 DEF Types
<1> QED
  BY <1>2, <1>3, <1>5, <1>6, <1>7, HandHolds

LEMMA StopRunHolds == ASSUME IInv, NEW k \in Keys, StopRun(k) PROVE IInv'
<1>1. Types /\ UNCHANGED <<run, completed>> /\ stops' = [stops EXCEPT ![k] = @ + 1]
  BY DEF IInv, StopRun
<1>2. events \in Nat /\ events' = events + 1 /\ events' \in 0..MaxEvents
  BY <1>1, BoundsAssumption DEF Types, StopRun, Event
<1>3. Runs'
  BY <1>1, <1>2 DEF Types, Runs
<1> QED
  BY <1>1, <1>2, <1>3, SimopsHolds DEF StopRun

LEMMA SaveStopHolds == ASSUME IInv, NEW k \in Keys, SaveStop(k) PROVE IInv'
<1>1. Types /\ UNCHANGED <<completed, events>>
  BY DEF IInv, SaveStop
<1>2. events \in Nat /\ events' \in 0..MaxEvents /\ events' >= events
  BY <1>1, BoundsAssumption DEF Types
<1>3. run' \in [Keys -> Lifecycles] /\ \A j \in Keys : run'[j] = "complete" => run[j] = "complete"
  <2>1. PICK end \in {"active", "stopped", "failed"} : run' = [run EXCEPT ![k] = end]
    BY DEF SaveStop
  <2> QED
    BY <1>1, <2>1 DEF Types, Runs, Lifecycles
<1>4. stops' \in [Keys -> Nat] /\ \A j \in Keys : stops'[j] <= stops[j]
  <2>1. stops[k] > 0 /\ (stops' = stops \/ stops' = [stops EXCEPT ![k] = @ - 1])
    BY DEF SaveStop
  <2>2. stops \in [Keys -> Nat]
    BY <1>1 DEF Types, Runs
  <2>3. CASE stops' = stops
    BY <2>2, <2>3
  <2>4. CASE stops' = [stops EXCEPT ![k] = @ - 1]
    <3>1. stops[k] - 1 \in Nat /\ stops[k] - 1 <= stops[k]
      BY <2>1, <2>2
    <3> QED
      BY <2>2, <2>4, <3>1
  <2> QED
    BY <2>1, <2>3, <2>4
<1>5. Runs'
  <2>1. ASSUME NEW j \in Keys PROVE stops'[j] <= events'
    <3>1. stops'[j] \in Nat /\ stops[j] \in Nat /\ stops'[j] <= stops[j] /\ stops[j] <= events
      BY <1>1, <1>4 DEF Types, Runs
    <3> QED
      BY <1>1, <1>2, <3>1
  <2> QED
    BY <1>1, <1>3, <1>4, <2>1 DEF Types, Runs
<1> QED
  BY <1>1, <1>2, <1>5, SimopsHolds DEF SaveStop

LEMMA RunCompletesHolds == ASSUME IInv, NEW k \in Keys, RunCompletes(k) PROVE IInv'
<1>1. /\ Types /\ UNCHANGED <<stops, events>> /\ completed' = completed \union {k}
      /\ run' = [run EXCEPT ![k] = "complete"]
  BY DEF IInv, RunCompletes
<1>2. events \in Nat /\ events' \in 0..MaxEvents /\ events' >= events
  BY <1>1, BoundsAssumption DEF Types
<1>3. Runs'
  BY <1>1 DEF Types, Runs, Lifecycles
<1> QED
  BY <1>1, <1>2, <1>3, SimopsHolds DEF RunCompletes

(* The pipeline: results are ingested, projected and given their Lineage.  *)
LEMMA PipelineHolds ==
  ASSUME IInv, Grows, UNCHANGED <<config, ledger, manager, listed, simops>>,
         events' \in 0..MaxEvents, events' >= events, Len(results') <= events',
         projected' \in 0..Len(results'), twin' \in 0..Len(results'),
         evidence' \in [Keys -> [result : 0..Len(results'), lineage : 0..Len(results')]],
         LineageIsOwn'
  PROVE  IInv'
<1>1. Types'
  <2>1. Runs'
    BY SimopsStays DEF IInv
  <2> QED
    BY <2>1, ResultsStay DEF IInv, Types, Config, config, manager
<1>2. SoundCopies'
  <2>1. ASSUME NEW r \in Record, NEW k \in Keys, Sound(r, k) PROVE Sound(r, k)'
    BY <2>1, SoundStays DEF IInv
  <2>2. UNCHANGED <<ledger, listed, record, key>>
    BY DEF manager
  <2>3. ASSUME NEW k \in Keys PROVE Sound(ledger[k], k)' /\ Sound(listed[k], k)'
    <3>1. ledger[k] \in Record /\ listed[k] \in Record /\ Sound(ledger[k], k) /\ Sound(listed[k], k)
      BY DEF IInv, Types, SoundCopies
    <3> QED
      BY <2>1, <2>2, <3>1 DEF Sound, ResultOf
  <2>4. Sound(record, key)'
    <3>1. record \in Record /\ key \in Keys /\ Sound(record, key)
      BY DEF IInv, Types, SoundCopies
    <3> QED
      BY <2>1, <2>2, <3>1 DEF Sound, ResultOf
  <2> QED
    BY <2>3, <2>4 DEF SoundCopies
<1>3. InHand'
  BY DEF IInv, InHand, manager, simops
<1> QED
  BY <1>1, <1>2, <1>3 DEF IInv

LEMMA IngestResultHolds == ASSUME IInv, NEW k \in Keys, IngestResult(k) PROVE IInv'
<1> DEFINE f == [key |-> k, bound |-> HasContext(k)]
<1>1. Types
  BY DEF IInv
<1>2. HasContext(k) \in BOOLEAN
  BY <1>1 DEF Types, HasContext, Record, NoRecord
<1>3. Grows
  BY <1>2 DEF Grows, IngestResult, simops
<1>4. results \in Seq([key : Keys, bound : BOOLEAN]) /\ results' = Append(results, f)
      /\ f \in [key : Keys, bound : BOOLEAN]
  BY <1>1, <1>2 DEF Types, IngestResult
<1>5. Len(results) \in Nat /\ Len(results') = Len(results) + 1
  BY <1>4
<1>6. events' \in 0..MaxEvents /\ events' >= events /\ Len(results') <= events'
  BY <1>1, <1>5, BoundsAssumption DEF Types, IngestResult, Event
<1>7. projected' \in 0..Len(results') /\ twin' \in 0..Len(results')
  BY <1>1, <1>5 DEF Types, IngestResult
<1>8. evidence' \in [Keys -> [result : 0..Len(results'), lineage : 0..Len(results')]]
  <2>1. ASSUME NEW j \in Keys
        PROVE  evidence[j] \in [result : 0..Len(results'), lineage : 0..Len(results')]
    BY <1>1, <1>5 DEF Types
  <2> QED
    BY <1>1, <2>1 DEF Types, IngestResult
<1>9. LineageIsOwn'
  BY <1>1, <1>3, LineageStays DEF IInv, IngestResult
<1> QED
  BY <1>3, <1>6, <1>7, <1>8, <1>9, PipelineHolds DEF IngestResult

LEMMA ProjectResultHolds == ASSUME IInv, ProjectResult PROVE IInv'
<1>1. Types /\ Grows
  BY NothingGrows DEF IInv, ProjectResult, simops
<1>2. results \in Seq([key : Keys, bound : BOOLEAN]) /\ Len(results) \in Nat
      /\ projected' \in 1..Len(results)
  BY <1>1 DEF Types, ProjectResult
<1>3. results[projected'].key \in Keys
  BY <1>1, <1>2, ResultTypes
<1>4. evidence' \in [Keys -> [result : 0..Len(results), lineage : 0..Len(results)]]
  BY <1>1, <1>2, <1>3 DEF Types, ProjectResult
<1>5. LineageIsOwn'
  BY <1>1, <1>2, <1>3 DEF IInv, Types, LineageIsOwn, ResultOf, ProjectResult
<1> QED
  BY <1>1, <1>2, <1>4, <1>5, PipelineHolds, BoundsAssumption DEF Types, ProjectResult

LEMMA PublishTwinHolds == ASSUME IInv, PublishTwin PROVE IInv'
<1>1. Types /\ Grows
  BY NothingGrows DEF IInv, PublishTwin, simops
<1>2. results \in Seq([key : Keys, bound : BOOLEAN]) /\ Len(results) \in Nat
      /\ twin' \in 1..Len(results)
  BY <1>1 DEF Types, PublishTwin
<1>3. results[twin'].key \in Keys
  BY <1>1, <1>2, ResultTypes
<1>4. evidence' \in [Keys -> [result : 0..Len(results), lineage : 0..Len(results)]]
  <2> DEFINE E == [result : 0..Len(results), lineage : 0..Len(results)]
             j == results[twin'].key
  <2>1. evidence \in [Keys -> E] /\ j \in Keys /\ twin' \in 0..Len(results)
    BY <1>1, <1>2, <1>3 DEF Types
  <2>2. evidence' = [evidence EXCEPT ![j].lineage = IF evidence[j].result # 0 THEN twin' ELSE @]
    BY DEF PublishTwin, Attached
  <2>3. [evidence[j] EXCEPT !.lineage = IF evidence[j].result # 0 THEN twin' ELSE @] \in E
    BY <2>1
  <2> QED
    BY <2>1, <2>2, <2>3
<1>5. LineageIsOwn'
  BY <1>1, <1>2, <1>3 DEF IInv, Types, LineageIsOwn, ResultOf, PublishTwin, Attached
<1> QED
  BY <1>1, <1>2, <1>4, <1>5, PipelineHolds, BoundsAssumption DEF Types, PublishTwin

LEMMA FlushHolds == ASSUME IInv, Flush PROVE IInv'
<1>1. Types /\ UNCHANGED <<config, manager, listed, simops, results, projected, twin>>
  BY DEF IInv, Flush
<1>2. events' \in 0..MaxEvents /\ events' >= events
  BY <1>1, OneMoreEvent DEF Flush
<1>3. Len(results) \in Nat /\ Len(results) <= events' /\ events \in Nat
  BY <1>1, <1>2, BoundsAssumption DEF Types
<1>4. evidence' \in [Keys -> [result : 0..Len(results), lineage : 0..Len(results)]]
  BY <1>3 DEF Flush, NoEvidence
<1>5. Types'
  <2>1. Runs'
    BY <1>1, <1>2, SimopsStays
  <2> QED
    BY <1>1, <1>2, <1>3, <1>4, <2>1, RecordFacts DEF Types, Config, config, manager, Flush
<1>6. SoundCopies'
  BY <1>1, NoRecordIsSound DEF IInv, SoundCopies, Sound, ResultOf, Flush, manager, NoList, simops
<1>7. InHand' /\ LineageIsOwn'
  BY <1>1 DEF IInv, InHand, LineageIsOwn, Flush, manager, NoEvidence, simops
<1> QED
  BY <1>5, <1>6, <1>7 DEF IInv

LEMMA NextHolds == IInv /\ [Next]_vars => IInv'
<1> SUFFICES ASSUME IInv, [Next]_vars PROVE IInv'
  OBVIOUS
<1>1. CASE RequestStep
  BY <1>1, FindHolds, EnforceCapsHolds, AdmitHolds, CreateRunHolds, LookupHolds,
     AssociateHolds, EvaluateHolds, ReadEvidenceHolds, DecideHolds DEF RequestStep
<1>2. ASSUME NEW k \in Keys, Request(k) \/ IngestResult(k) \/ StopRun(k) \/ SaveStop(k) \/ RunCompletes(k)
      PROVE  IInv'
  BY <1>2, RequestHolds, IngestResultHolds, StopRunHolds, SaveStopHolds, RunCompletesHolds
<1>3. CASE RecordActivity \/ (\E k \in Keys : SaveListed(k)) \/ PruneExpired
  <2>1. UNCHANGED <<config, manager, simops, pipeline>>
    BY <1>3 DEF RecordActivity, SaveListed, PruneExpired
  <2> QED
    BY <1>3, <2>1, CopiesOfLedgerHold
<1>4. CASE Crash \/ ProjectResult \/ PublishTwin \/ Flush
  BY <1>4, CrashHolds, ProjectResultHolds, PublishTwinHolds, FlushHolds
<1>5. CASE UNCHANGED vars
  BY <1>5 DEF vars, config, manager, simops, pipeline, IInv, Types, Config, Runs, SoundCopies, Sound,
              ResultOf, InHand, LineageIsOwn
<1> QED
  BY <1>1, <1>2, <1>3, <1>4, <1>5 DEF Next

LEMMA InvariantHolds == Spec => []IInv
BY InitHolds, NextHolds, PTL DEF Spec

-------------------------------------------------------------------------------
(* Every record that is saved is consistent: it says its outcome was       *)
(* applied exactly when it holds one, and a rejected request has no Run.   *)
THEOREM TypeCorrect == Spec => []TypeOK
<1>1. IInv => TypeOK
  <2> SUFFICES ASSUME IInv PROVE TypeOK
    OBVIOUS
  <2>1. Types /\ SoundCopies
    BY DEF IInv
  <2>2. MaxEvents \in Nat /\ Len(results) \in Nat /\ Len(results) <= MaxEvents
    BY <2>1, BoundsAssumption DEF Types
  <2>3. ASSUME NEW r \in Record, NEW k \in Keys, Sound(r, k) PROVE r \in Records
    <3>1. r.outcome \in 0..MaxEvents
      BY <2>2, <2>3 DEF Sound, ResultOf, Record, NoRecord
    <3> QED
      BY <3>1 DEF Record, Records
  <2>4. ledger \in [Keys -> Records] /\ listed \in [Keys -> Records] /\ record \in Records
    BY <2>1, <2>3 DEF Types, SoundCopies
  <2>5. \A k \in Keys : /\ ledger[k].decision = "outcome-applied" <=> ledger[k].outcome # 0
                        /\ ledger[k].decision = "intent-rejected" => ~ledger[k].run
    BY <2>1 DEF SoundCopies, Sound
  <2>6. \A i \in 1..Len(results) : results[i].key \in Keys /\ results[i].bound \in BOOLEAN
    BY <2>1, ResultTypes
  <2>7. stops \in [Keys -> 0..MaxEvents]
    BY <2>1, <2>2 DEF Types, Runs
  <2> QED
    BY <2>1, <2>4, <2>5, <2>6, <2>7 DEF TypeOK, Types, Runs, Config
<1> QED
  BY <1>1, InvariantHolds, PTL

(* An outcome is applied only to the request whose own Run completed, from *)
(* a result ingested while the ledger bound that Run to it (evaluate).     *)
THEOREM OutcomesAreEarned == Spec => []OutcomeIsEarned
<1>1. IInv => OutcomeIsEarned
  <2> SUFFICES ASSUME IInv, NEW k \in Keys, ledger[k].outcome # 0
               PROVE  k \in completed /\ results[ledger[k].outcome] = [key |-> k, bound |-> TRUE]
    BY DEF OutcomeIsEarned
  <2> DEFINE i == ledger[k].outcome
  <2>1. k \in completed /\ i \in 1..Len(results) /\ results[i].key = k /\ results[i].bound
    BY DEF IInv, SoundCopies, Sound, ResultOf
  <2>2. Types
    BY DEF IInv
  <2>3. results[i] \in [key : Keys, bound : BOOLEAN]
    BY <2>1, <2>2, ResultTypes
  <2> QED
    BY <2>1, <2>3
<1> QED
  BY <1>1, InvariantHolds, PTL

(* No save, however late or of whichever copy, removes or replaces an      *)
(* applied outcome; only an expiry or a flush of the ledger does.          *)
THEOREM OutcomesAreFinal == Spec => OutcomeIsForGood
<1> DEFINE Final == \A k \in Keys : ledger[k].outcome # 0 =>
                      ledger'[k].outcome = ledger[k].outcome \/ ledger' = NoList
<1>1. ASSUME IInv, [Next]_vars PROVE Final
  <2>1. ledger \in [Keys -> Record]
    BY <1>1 DEF IInv, Types
  <2>2. ASSUME NEW k \in Keys, NEW r, MaySave(k, r), Saved(k, r) PROVE Final
    BY <2>1, <2>2 DEF MaySave, Saved
  <2>3. CASE UNCHANGED ledger \/ ledger' = NoList
    BY <2>3
  <2>4. ASSUME NEW ACTION next, SaveThen(next) PROVE Final
    BY <1>1, <2>2, <2>3, <2>4 DEF SaveThen, IInv, Types
  <2>5. CASE Admit \/ Associate \/ Decide
    BY <2>4, <2>5 DEF Admit, Associate, Decide
  <2>6. ASSUME NEW k \in Keys, SaveListed(k) PROVE Final
    BY <2>2, <2>3, <2>6 DEF SaveListed
  <2>7. CASE RequestStep
    BY <2>3, <2>5, <2>7 DEF RequestStep, Find, EnforceCaps, CreateRun, Lookup, Evaluate, ReadEvidence
  <2> QED
    BY <1>1, <2>3, <2>6, <2>7 DEF Next, Request, IngestResult, StopRun, SaveStop, RunCompletes, Beside,
       Crash, RecordActivity, ProjectResult, PublishTwin, PruneExpired, Flush, vars
<1> QED
  BY <1>1, InvariantHolds, PTL DEF Spec, OutcomeIsForGood

-------------------------------------------------------------------------------
(* The caps, in the store in memory, of the requests of which no failure   *)
(* was recorded.  Such a request is counted from its admission on, and a   *)
(* decision that ends it records its failure; the mutex keeps every other  *)
(* admission out between the check, which counts the reopened requests     *)
(* too, and the save.                                                      *)

Counts(k) == Active(k) /\ ~ledger[k].failed

(* The request in hand is about to be admitted, or counted, or has failed. *)
Counted ==
  /\ pc \in {"caps", "admit"} => record = Accepted
  /\ pc = "admit" => WithinCaps
  /\ pc \in {"create", "lookup", "associate", "evaluate", "evidence", "decide"} =>
       Counts(key) \/ record.failed \/ record.decision = "intent-rejected"

Capped == IsFiniteSet(ActiveKeys) /\ CapsOf(Unfailed)

MemoryInv == backend = "memory" => listed = NoList /\ Counted /\ Capped

LEMMA UnfailedFinite ==
  ASSUME IsFiniteSet(ActiveKeys)
  PROVE  /\ IsFiniteSet(Unfailed) /\ Cardinality(Unfailed) \in Nat /\ Cardinality(ActiveKeys) \in Nat
         /\ Cardinality(Unfailed) <= Cardinality(ActiveKeys)
BY FS_Subset, FS_CardinalityType DEF Unfailed

LEMMA SubsetCapped ==
  ASSUME Capped, maxActive \in Nat, UNCHANGED <<reactorOf, maxActive>>,
         IsFiniteSet(ActiveKeys'), Unfailed' \subseteq Unfailed
  PROVE  Capped'
<1>1. IsFiniteSet(Unfailed) /\ Cardinality(Unfailed) \in Nat /\ Cardinality(Unfailed) <= maxActive
  BY UnfailedFinite DEF Capped, CapsOf
<1>2. IsFiniteSet(Unfailed') /\ Cardinality(Unfailed') <= Cardinality(Unfailed) /\ Cardinality(Unfailed') \in Nat
  BY <1>1, FS_Subset, FS_CardinalityType
<1>3. Cardinality(Unfailed') <= maxActive
  BY <1>1, <1>2
<1> QED
  BY <1>2, <1>3 DEF Capped, CapsOf

LEMMA SameCapped ==
  ASSUME Capped, maxActive \in Nat, UNCHANGED <<reactorOf, maxActive, ledger>>
  PROVE  Capped' /\ ActiveKeys' = ActiveKeys /\ \A k : Counts(k)' <=> Counts(k)
<1>1. \A k : (Active(k)' <=> Active(k)) /\ (Counts(k)' <=> Counts(k))
  BY DEF Active, Counts
<1>2. ActiveKeys' = ActiveKeys /\ Unfailed' = Unfailed
  BY <1>1 DEF ActiveKeys, Unfailed
<1> QED
  BY <1>1, <1>2, SubsetCapped DEF Capped

(* What one save makes active, and what of it counts.                      *)
LEMMA SavedActive ==
  ASSUME Types, NEW k \in Keys, NEW r \in Record, Saved(k, r)
  PROVE  /\ ActiveKeys' \subseteq ActiveKeys \union {k}
         /\ Unfailed' \subseteq Unfailed \union {k}
         /\ \A j \in Keys \ {k} : Counts(j)' <=> Counts(j)
         /\ k \in Unfailed' <=> Counts(k)'
         /\ Counts(k)' <=> r # NoRecord /\ r.outcome = 0 /\ r.decision \notin Ended /\ ~r.failed
<1>1. ledger'[k] = r /\ \A j \in Keys \ {k} : ledger'[j] = ledger[j]
  BY DEF Types, Saved
<1> QED
  BY <1>1 DEF ActiveKeys, Active, Unfailed, Counts

(* An admission within the caps keeps them.                                *)
LEMMA AdmissionCapped ==
  ASSUME Capped, maxActive \in Nat, WithinCaps, UNCHANGED <<reactorOf, maxActive>>,
         IsFiniteSet(ActiveKeys'), Unfailed' \subseteq Unfailed \union {key}
  PROVE  Capped'
<1> DEFINE S == Unfailed \union {key}
<1>1. IsFiniteSet(Unfailed) /\ Cardinality(Unfailed) \in Nat /\ Cardinality(Unfailed) < maxActive
  BY UnfailedFinite DEF Capped, WithinCaps
<1>2. IsFiniteSet(S) /\ Cardinality(S) \in Nat /\ Cardinality(S) <= Cardinality(Unfailed) + 1
  <2>1. IsFiniteSet(S) /\ Cardinality(S) \in {Cardinality(Unfailed), Cardinality(Unfailed) + 1}
    BY <1>1, FS_AddElement
  <2> QED
    BY <1>1, <2>1
<1>3. Cardinality(Unfailed') \in Nat /\ Cardinality(Unfailed') <= Cardinality(S)
  BY <1>2, FS_Subset, FS_CardinalityType
<1>4. Cardinality(Unfailed') <= maxActive
  BY <1>1, <1>2, <1>3
<1>5. ASSUME NEW j \in Unfailed', NEW k \in Unfailed', reactorOf[j] = reactorOf[k]
      PROVE  j = k
  BY <1>5 DEF Capped, CapsOf, WithinCaps, Unfailed
<1> QED
  BY <1>4, <1>5 DEF Capped, CapsOf

(* The steps of the manager that save nothing.                             *)
LEMMA HandCounted ==
  ASSUME IInv, Counted, Capped,
         Find \/ EnforceCaps \/ CreateRun \/ Lookup \/ Evaluate \/ ReadEvidence
         \/ \E k \in Keys : Request(k)
  PROVE  Counted'
<1> USE DEF Goto
<1>1. Types /\ InHand /\ key \in Keys /\ record \in Record /\ maxActive \in Nat
  BY SessionFacts DEF IInv, Types
<1>2. UNCHANGED <<ledger, reactorOf, maxActive>>
  BY DEF Find, EnforceCaps, CreateRun, Lookup, Evaluate, ReadEvidence, Request, config
<1>3. ActiveKeys' = ActiveKeys /\ \A k : Counts(k)' <=> Counts(k)
  BY <1>1, <1>2, SameCapped
<1>4. CASE Reply
  BY <1>4 DEF Reply, Counted
<1>5. CASE \E k \in Keys : Request(k)
  BY <1>5 DEF Request, Counted
<1>6. CASE Find
  <2>1. CASE /\ record' = ledger[key] /\ ledger[key] # NoRecord /\ ledger[key].outcome = 0
             /\ ledger[key].decision # "intent-rejected"
             /\ pc' \in {"evaluate", "create"} /\ UNCHANGED key
    <3>1. Sound(ledger[key], key)
      BY <1>1 DEF IInv, SoundCopies
    <3>2. Counts(key) \/ ledger[key].failed
      BY <2>1, <3>1 DEF Counts, Active, Ended, Sound
    <3> QED
      BY <1>3, <2>1, <3>2 DEF Counted
  <2>2. CASE record' = Accepted /\ pc' = "caps"
    BY <2>2 DEF Counted
  <2>3. CASE record' = Rejected /\ pc' = "decide"
    BY <2>3 DEF Counted, Rejected, Accepted, NoRecord
  <2> QED
    BY <1>4, <1>6, <2>1, <2>2, <2>3 DEF Find, Resume
<1>7. CASE EnforceCaps
  <2>1. CASE WithinCaps /\ pc' = "admit" /\ Keep
    <3>1. WithinCaps'
      BY <1>2, <1>3, <2>1 DEF WithinCaps, Keep
    <3> QED
      BY <1>7, <2>1, <3>1 DEF EnforceCaps, Keep, Counted
  <2> QED
    BY <1>4, <1>7, <2>1 DEF EnforceCaps
<1>8. CASE CreateRun \/ Lookup \/ Evaluate \/ ReadEvidence
  <2>1. /\ record # NoRecord /\ record.decision # "intent-rejected"
        /\ Counts(key) \/ record.failed
    BY <1>1, <1>8 DEF CreateRun, Lookup, Evaluate, ReadEvidence, Counted, InHand
  <2>2. record \in [decision : Decisions, run : BOOLEAN, outcome : Nat, failed : BOOLEAN]
    BY <1>1, <2>1 DEF Record
  <2>3. record.failed => record'.failed
    BY <1>8, <2>2 DEF CreateRun, Lookup, Evaluate, ReadEvidence
  <2>4. key' = key /\ pc' \in {"lookup", "associate", "evidence", "decide"}
    BY <1>8 DEF CreateRun, Lookup, Evaluate, ReadEvidence
  <2> QED
    BY <1>3, <2>1, <2>3, <2>4 DEF Counted
<1> QED
  BY <1>5, <1>6, <1>7, <1>8

(* The saves of the manager.                                               *)
LEMMA SavesCounted ==
  ASSUME IInv, backend = "memory", Counted, Capped, Admit \/ Associate \/ Decide
  PROVE  Counted' /\ Capped'
<1> USE DEF Goto
<1>1. Types /\ InHand /\ key \in Keys /\ record \in Record /\ Sound(record, key) /\ maxActive \in Nat
  BY SessionFacts DEF IInv, Types, SoundCopies
<1>5. PICK q \in Keys : q = key
  BY <1>1
<1>2. UNCHANGED <<reactorOf, maxActive>> /\ ~StoreFault
  BY DEF Admit, Associate, Decide, config, StoreFault
<1>3. CASE Reply /\ UNCHANGED ledger
  BY <1>1, <1>2, <1>3, SameCapped DEF Reply, Counted
<1>4. CASE /\ Saved(q, record) /\ pc \in {"admit", "associate", "decide"}
           /\ \/ Reply
              \/ pc' = "create" /\ Keep /\ pc = "admit"
              \/ pc' = "evaluate" /\ Keep /\ pc = "associate"
  <2>1. IsFiniteSet(ActiveKeys')
    <3>1. IsFiniteSet(ActiveKeys \union {q})
      BY FS_AddElement DEF Capped
    <3> QED
      BY <1>1, <1>4, <3>1, SavedActive, FS_Subset
  <2>2. CASE pc = "admit"
    <3>1. record = Accepted /\ WithinCaps
      BY <2>2 DEF Counted
    <3>2. Unfailed' \subseteq Unfailed \union {q} /\ Counts(q)'
      <4>1. Accepted # NoRecord /\ Accepted.outcome = 0 /\ Accepted.decision \notin Ended /\ ~Accepted.failed
        BY DEF Accepted, NoRecord, Ended
      <4> QED
        BY <1>1, <1>4, <3>1, <4>1, SavedActive
    <3>3. Capped'
      BY <1>1, <1>2, <1>5, <2>1, <3>1, <3>2, AdmissionCapped
    <3>4. CASE Reply
      BY <3>3, <3>4 DEF Reply, Counted
    <3>5. CASE pc' = "create" /\ Keep
      <4>1. key' = q
        BY <1>5, <3>5 DEF Keep
      <4> QED
        BY <3>2, <3>3, <3>5, <4>1 DEF Counted, Counts, Active
    <3> QED
      BY <1>4, <2>2, <3>4, <3>5
  <2>3. CASE pc \in {"associate", "decide"}
    <3>1. Counts(q) \/ record.failed \/ record.decision = "intent-rejected"
      BY <1>5, <2>3 DEF Counted
    <3>2. Counts(q)' => Counts(q)
      BY <1>1, <1>4, <3>1, SavedActive DEF Ended
    <3>3. Unfailed' \subseteq Unfailed
      BY <1>1, <1>4, <3>2, SavedActive DEF Unfailed, ActiveKeys, Counts
    <3>4. Capped'
      BY <1>1, <1>2, <2>1, <3>3, SubsetCapped
    <3>5. CASE Reply
      BY <3>4, <3>5 DEF Reply, Counted
    <3>6. CASE pc' = "evaluate" /\ Keep /\ pc = "associate"
      <4>1. record # NoRecord /\ record.outcome = 0 /\ record.decision # "intent-rejected"
        BY <1>1, <3>6 DEF InHand
      <4>2. Counts(q)' \/ record.failed
        BY <1>1, <1>4, <4>1, SavedActive DEF Ended, Sound
      <4>3. key' = q /\ record' = record
        BY <1>5, <3>6 DEF Keep
      <4> QED
        BY <3>4, <3>6, <4>2, <4>3 DEF Counted, Counts, Active
    <3> QED
      BY <1>4, <2>3, <3>5, <3>6
  <2> QED
    BY <1>4, <2>2, <2>3
<1> QED
  BY <1>2, <1>3, <1>4, <1>5 DEF Admit, Associate, Decide, SaveThen

LEMMA MemoryInvKept == IInv /\ MemoryInv /\ [Next]_vars => MemoryInv'
<1> SUFFICES ASSUME IInv, MemoryInv, [Next]_vars, backend' = "memory"
             PROVE  listed' = NoList /\ Counted' /\ Capped'
  BY DEF MemoryInv
<1>1. backend = "memory" /\ UNCHANGED <<reactorOf, maxActive>> /\ maxActive \in Nat
  <2>1. UNCHANGED config
    BY DEF Next, vars, Request, IngestResult, StopRun, SaveStop, RunCompletes, Beside, SaveListed,
       RequestStep, Find, EnforceCaps, Admit, CreateRun, Lookup, Associate, Evaluate, ReadEvidence,
       Decide, Crash, RecordActivity, ProjectResult, PublishTwin, PruneExpired, Flush
  <2> QED
    BY <2>1, SessionFacts DEF IInv, Types, config
<1>2. listed = NoList /\ Counted /\ Capped
  BY <1>1 DEF MemoryInv
<1>3. CASE Admit \/ Associate \/ Decide
  BY <1>1, <1>2, <1>3, SavesCounted DEF Admit, Associate, Decide
<1>4. CASE Find \/ EnforceCaps \/ CreateRun \/ Lookup \/ Evaluate \/ ReadEvidence
           \/ \E k \in Keys : Request(k)
  <2>1. UNCHANGED <<ledger, listed>>
    BY <1>4 DEF Find, EnforceCaps, CreateRun, Lookup, Evaluate, ReadEvidence, Request
  <2> QED
    BY <1>1, <1>2, <1>4, <2>1, HandCounted, SameCapped
<1>5. CASE \/ \E k \in Keys : IngestResult(k) \/ StopRun(k) \/ SaveStop(k) \/ RunCompletes(k)
           \/ ProjectResult \/ PublishTwin \/ UNCHANGED vars
  <2>1. UNCHANGED <<ledger, listed, pc, key, record>>
    BY <1>5 DEF IngestResult, StopRun, SaveStop, RunCompletes, Beside, ProjectResult, PublishTwin,
       vars, manager
  <2>2. Capped' /\ ActiveKeys' = ActiveKeys /\ \A k : Counts(k)' <=> Counts(k)
    BY <1>1, <1>2, <2>1, SameCapped
  <2>3. WithinCaps' <=> WithinCaps
    BY <1>1, <2>1, <2>2 DEF WithinCaps
  <2> QED
    BY <1>2, <2>1, <2>2, <2>3 DEF Counted
<1>6. CASE PruneExpired
  <2>1. ledger' = NoList /\ UNCHANGED <<listed, pc>> /\ pc = "idle"
    BY <1>6 DEF PruneExpired, manager
  <2>2. ActiveKeys' = {} /\ Unfailed' = {}
    BY <2>1 DEF ActiveKeys, Active, Unfailed, NoList
  <2>3. IsFiniteSet(ActiveKeys')
    BY <2>2, FS_EmptySet
  <2>4. Capped'
    BY <1>1, <1>2, <2>2, <2>3, SubsetCapped
  <2> QED
    BY <1>2, <2>1, <2>4 DEF Counted
<1>7. CASE Crash \/ RecordActivity \/ Flush \/ \E k \in Keys : SaveListed(k)
  BY <1>1, <1>2, <1>7 DEF Crash, RecordActivity, Flush, SaveListed, NoList
<1> QED
  BY <1>3, <1>4, <1>5, <1>6, <1>7 DEF Next, RequestStep

(* In the store in memory the manager's mutex makes the check of the caps  *)
(* and the admission one step.  Of the requests of which no failure was    *)
(* recorded, a reactor then has at most one active and the session at most *)
(* maxActive, whatever stops and retries reopen (enforceCaps, resume).     *)
THEOREM CapsHoldInMemory == Spec => []MemoryCapsUnlessReopened
<1>1. Init => MemoryInv
  <2> SUFFICES ASSUME Init PROVE listed = NoList /\ Counted /\ Capped
    BY DEF MemoryInv
  <2>1. ActiveKeys = {} /\ Unfailed = {}
    BY DEF Init, ActiveKeys, Active, Unfailed, NoList
  <2>2. maxActive \in Nat
    BY SessionsAssumption DEF Init
  <2>3. Capped
    BY <2>1, <2>2, FS_EmptySet DEF Capped, CapsOf
  <2> QED
    BY <2>3 DEF Init, Counted
<1>2. MemoryInv => MemoryCapsUnlessReopened
  BY DEF MemoryInv, Capped, MemoryCapsUnlessReopened
<1> QED
  BY <1>1, <1>2, MemoryInvKept, InvariantHolds, PTL DEF Spec
===============================================================================
