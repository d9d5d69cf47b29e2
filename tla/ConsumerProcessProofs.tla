------------------------- MODULE ConsumerProcessProofs -------------------------
(***************************************************************************)
(* How a consumer process ends, and what it says of itself when a stream   *)
(* has failed: for every choice of the repository's programs.              *)
(***************************************************************************)
EXTENDS ConsumerProcess, TLAPS

Nested == program.nested

Types ==
  /\ program \in Programs
  /\ DOMAIN pc = Members /\ DOMAIN cause = Members
  /\ received \subseteq Members

(* What was received has returned; a nested group starts its streams       *)
(* together and returns after them.                                        *)
Groups ==
  /\ \A m \in received : pc[m] = "returned"
  /\ Nested /\ pc["projector"] = "idle" => \A s \in Streams : pc[s] = "idle"
  /\ Nested /\ pc["projector"] = "returned" =>
       \A s \in Streams : pc[s] \in {"idle", "returned"}

(* The process leaves Run's select for a reason, and reports all but one.  *)
Stopping ==
  /\ proc = "running" => received \cap Top = {}
  /\ proc # "running" => signalled \/ (failure /\ (Nested => lastError))
  /\ proc = "exited" /\ ~failure => Drained

(* Outside the Twin projector a failure is counted when it happens.        *)
Counted ==
  ~Nested => \A s \in Streams : cause[s] = "error" \/ pc[s] = "skip" => failedWrites

IInv == Types /\ Groups /\ Stopping /\ Counted

LEMMA ProgramFacts ==
  ASSUME Types
  PROVE  /\ "projector" \notin Streams
         /\ Nested => program.loop = "twin" /\ ~program.skips
         /\ ~Nested => program.loop \in {"ingestion", "timescale"}
         /\ Top \subseteq Members /\ Streams \subseteq Members
         /\ Members = Streams \cup Top
         /\ Top = IF Nested THEN {"projector"} ELSE Streams
<1>1. program \in {ProjectionWriter, WorkbenchIcebergWriter, SimopsIcebergWriter,
                   TimescaleWriter, TwinProjector}
  BY ProgramsAssumption DEF Types
<1>2. /\ "projector" \notin program.streams
      /\ program.nested => program.loop = "twin" /\ ~program.skips
      /\ ~program.nested => program.loop \in {"ingestion", "timescale"}
  BY <1>1 DEF ProjectionWriter, WorkbenchIcebergWriter, SimopsIcebergWriter,
     TimescaleWriter, TwinProjector
<1> QED
  BY <1>2 DEF Nested, Streams, Members, Top

LEMMA InitHolds == Init => IInv
<1> SUFFICES ASSUME Init PROVE IInv
  OBVIOUS
<1>1. Types
  BY DEF Init, Types
<1>2. Groups
  BY <1>1, ProgramFacts DEF Init, Groups, Nested
<1>3. Stopping
  BY DEF Init, Stopping, Nested
<1>4. Counted
  BY <1>1, ProgramFacts DEF Init, Counted, Nested
<1> QED
  BY <1>1, <1>2, <1>3, <1>4 DEF IInv

-------------------------------------------------------------------------------
(* The actions, one by one.                                                *)
USE DEF Nested, consumers, process, metrics

(* What a step of a stream leaves of the rest, and how it accounts for a   *)
(* failure of its own.                                                     *)
Moves(s) ==
  /\ pc[s] \notin {"idle", "returned"}
  /\ \E stage \in Stage \ {"idle"} : pc' = [pc EXCEPT ![s] = stage]
  /\ \E why : cause' \in {cause, [cause EXCEPT ![s] = why]}
  /\ program.loop = "twin" /\ ~program.skips => lastError' = lastError
  /\ failedWrites => failedWrites'

Accounts(s) ==
  program.loop # "twin" =>
    /\ pc'[s] = "skip" => failedWrites' \/ pc[s] = "skip"
    /\ (cause'[s] = "error" /\ cause[s] # "error") => failedWrites' \/ pc[s] = "skip"

LEMMA StreamStep ==
  ASSUME Types, NEW s \in Streams,
         \/ FetchMessage(s) \/ FetchCancelled(s) \/ FetchFails(s)
         \/ Project(s) \/ CommitSkipped(s) \/ Persist(s) \/ CommitMessages(s),
         program.loop \in {"ingestion", "timescale", "twin"}
  PROVE  Moves(s) /\ Accounts(s)
<1> USE DEF Types, Members, Moves, Accounts, Stage, Goto, Return, CountUnlessTwin,
        CountFailure
<1>1. CASE FetchMessage(s)
  BY <1>1 DEF FetchMessage
<1>2. CASE FetchCancelled(s)
  BY <1>2 DEF FetchCancelled
<1>3. CASE FetchFails(s)
  BY <1>3 DEF FetchFails
<1>4. CASE Project(s)
  BY <1>4 DEF Project, StopAt
<1>5. CASE CommitSkipped(s)
  BY <1>5 DEF CommitSkipped
<1>6. CASE Persist(s)
  BY <1>6 DEF Persist
<1>7. CASE CommitMessages(s)
  BY <1>7 DEF CommitMessages, StopAt
<1> QED
  BY <1>1, <1>2, <1>3, <1>4, <1>5, <1>6, <1>7

LEMMA ConsumeHolds ==
  ASSUME IInv, NEW s \in Streams, Consume(s)
  PROVE  IInv'
<1>1. Types /\ Groups /\ Stopping /\ Counted
  BY DEF IInv
<1>2. Moves(s) /\ Accounts(s) /\ proc # "exited"
      /\ UNCHANGED <<program, received, group, proc, failure, server, signalled>>
  BY <1>1, ProgramFacts, StreamStep DEF Consume, Running, process
<1>3. Types' /\ Members' = Members /\ Streams' = Streams /\ Top' = Top
  BY <1>1, <1>2 DEF Types, Moves, Members, Streams, Top
<1>4. \A m \in Members \ {s} : pc'[m] = pc[m] /\ cause'[m] = cause[m]
  BY <1>1, <1>2 DEF Types, Moves
<1>5. Groups'
  BY <1>1, <1>2, <1>3, <1>4, ProgramFacts DEF Types, Groups, Moves
<1>6. Stopping'
  BY <1>1, <1>2, <1>3, ProgramFacts DEF Stopping, Moves
<1>7. Counted'
  BY <1>1, <1>2, <1>3, <1>4, ProgramFacts DEF Counted, Moves, Accounts
<1> QED
  BY <1>3, <1>5, <1>6, <1>7 DEF IInv

LEMMA InnerReceiveHolds ==
  ASSUME IInv, NEW s \in Streams, InnerReceive(s)
  PROVE  IInv'
<1>1. Types /\ Groups /\ Stopping /\ Counted
  BY DEF IInv
<1>2. Types' /\ Members' = Members /\ Streams' = Streams /\ Top' = Top
  BY <1>1, ProgramFacts DEF Types, Members, Streams, Top, InnerReceive, Running
<1>3. Groups'
  BY <1>1, <1>2, ProgramFacts DEF Types, Groups, InnerReceive, Running
<1>4. Stopping'
  BY <1>1, <1>2, ProgramFacts DEF Types, Stopping, Drained, InnerReceive, Running
<1>5. Counted'
  BY <1>1, <1>2, ProgramFacts DEF Types, Counted, InnerReceive, Running
<1> QED
  BY <1>2, <1>3, <1>4, <1>5 DEF IInv

LEMMA HydrateHolds ==
  ASSUME IInv, Hydrate
  PROVE  IInv'
<1>1. Types /\ Groups /\ Stopping /\ Counted
  BY DEF IInv
<1>2. Types' /\ Members' = Members /\ Streams' = Streams /\ Top' = Top
  BY <1>1, ProgramFacts DEF Types, Members, Streams, Top, Hydrate, Return
<1>3. Groups'
  BY <1>1, <1>2, ProgramFacts DEF Types, Groups, Hydrate, Return
<1>4. Stopping'
  BY <1>1, <1>2, ProgramFacts DEF Types, Stopping, Drained, Hydrate, Return
<1>5. Counted'
  BY <1>1, <1>2, ProgramFacts DEF Types, Counted, Hydrate, Return
<1> QED
  BY <1>2, <1>3, <1>4, <1>5 DEF IInv

LEMMA InnerReturnHolds ==
  ASSUME IInv, InnerReturn
  PROVE  IInv'
<1>1. Types /\ Groups /\ Stopping /\ Counted
  BY DEF IInv
<1>2. Types' /\ Members' = Members /\ Streams' = Streams /\ Top' = Top
  BY <1>1, ProgramFacts DEF Types, Members, Streams, Top, InnerReturn, Return
<1>3. Groups'
  BY <1>1, <1>2, ProgramFacts DEF Types, Groups, InnerReturn, Return
<1>4. Stopping'
  BY <1>1, <1>2, ProgramFacts DEF Types, Stopping, Drained, InnerReturn, Return
<1>5. Counted'
  BY <1>1, <1>2, ProgramFacts DEF Types, Counted, InnerReturn, Return
<1> QED
  BY <1>2, <1>3, <1>4, <1>5 DEF IInv

LEMMA ConsumerEndsHolds ==
  ASSUME IInv, NEW m \in Top, ConsumerEnds(m)
  PROVE  IInv'
<1>1. Types /\ Groups /\ Stopping /\ Counted
  BY DEF IInv
<1>2. Types' /\ Members' = Members /\ Streams' = Streams /\ Top' = Top
  BY <1>1, ProgramFacts DEF Types, Members, Streams, Top, ConsumerEnds, BeginShutdown,
     Waiting, RecordFailure
<1>3. Groups'
  BY <1>1, <1>2, ProgramFacts DEF Types, Groups, ConsumerEnds, BeginShutdown, Waiting,
     RecordFailure
<1>4. Stopping'
  BY <1>1, <1>2, ProgramFacts DEF Types, Stopping, Drained, ConsumerEnds,
     BeginShutdown, Waiting, RecordFailure
<1>5. Counted'
  BY <1>1, <1>2, ProgramFacts DEF Types, Counted, ConsumerEnds, BeginShutdown, Waiting,
     RecordFailure
<1> QED
  BY <1>2, <1>3, <1>4, <1>5 DEF IInv

LEMMA ReceiveHolds ==
  ASSUME IInv, NEW m \in Top, Receive(m)
  PROVE  IInv'
<1>1. Types /\ Groups /\ Stopping /\ Counted
  BY DEF IInv
<1>2. Types' /\ Members' = Members /\ Streams' = Streams /\ Top' = Top
  BY <1>1, ProgramFacts DEF Types, Members, Streams, Top, Receive, Waiting
<1>3. Groups'
  BY <1>1, <1>2, ProgramFacts DEF Types, Groups, Receive, Waiting
<1>4. Stopping'
  BY <1>1, <1>2, ProgramFacts DEF Types, Stopping, Drained, Receive, Waiting
<1>5. Counted'
  BY <1>1, <1>2, ProgramFacts DEF Types, Counted, Receive, Waiting
<1> QED
  BY <1>2, <1>3, <1>4, <1>5 DEF IInv

LEMMA ServerEndsHolds ==
  ASSUME IInv, ServerEnds
  PROVE  IInv'
<1>1. Types /\ Groups /\ Stopping /\ Counted
  BY DEF IInv
<1>2. Types' /\ Members' = Members /\ Streams' = Streams /\ Top' = Top
  BY <1>1, ProgramFacts DEF Types, Members, Streams, Top, ServerEnds, BeginShutdown,
     RecordFailure
<1>3. Groups'
  BY <1>1, <1>2, ProgramFacts DEF Types, Groups, ServerEnds, BeginShutdown,
     RecordFailure
<1>4. Stopping'
  BY <1>1, <1>2, ProgramFacts DEF Types, Stopping, Drained, ServerEnds, BeginShutdown,
     RecordFailure
<1>5. Counted'
  BY <1>1, <1>2, ProgramFacts DEF Types, Counted, ServerEnds, BeginShutdown,
     RecordFailure
<1> QED
  BY <1>2, <1>3, <1>4, <1>5 DEF IInv

LEMMA SignalSeenHolds ==
  ASSUME IInv, SignalSeen
  PROVE  IInv'
<1>1. Types /\ Groups /\ Stopping /\ Counted
  BY DEF IInv
<1>2. Types' /\ Members' = Members /\ Streams' = Streams /\ Top' = Top
  BY <1>1, ProgramFacts DEF Types, Members, Streams, Top, SignalSeen, BeginShutdown
<1>3. Groups'
  BY <1>1, <1>2, ProgramFacts DEF Types, Groups, SignalSeen, BeginShutdown
<1>4. Stopping'
  BY <1>1, <1>2, ProgramFacts DEF Types, Stopping, Drained, SignalSeen, BeginShutdown
<1>5. Counted'
  BY <1>1, <1>2, ProgramFacts DEF Types, Counted, SignalSeen, BeginShutdown
<1> QED
  BY <1>2, <1>3, <1>4, <1>5 DEF IInv

LEMMA ServerDrainedHolds ==
  ASSUME IInv, ServerDrained
  PROVE  IInv'
<1>1. Types /\ Groups /\ Stopping /\ Counted
  BY DEF IInv
<1>2. Types' /\ Members' = Members /\ Streams' = Streams /\ Top' = Top
  BY <1>1, ProgramFacts DEF Types, Members, Streams, Top, ServerDrained
<1>3. Groups'
  BY <1>1, <1>2, ProgramFacts DEF Types, Groups, ServerDrained
<1>4. Stopping'
  BY <1>1, <1>2, ProgramFacts DEF Types, Stopping, Drained, ServerDrained
<1>5. Counted'
  BY <1>1, <1>2, ProgramFacts DEF Types, Counted, ServerDrained
<1> QED
  BY <1>2, <1>3, <1>4, <1>5 DEF IInv

LEMMA DrainFailsHolds ==
  ASSUME IInv, DrainFails
  PROVE  IInv'
<1>1. Types /\ Groups /\ Stopping /\ Counted
  BY DEF IInv
<1>2. Types' /\ Members' = Members /\ Streams' = Streams /\ Top' = Top
  BY <1>1, ProgramFacts DEF Types, Members, Streams, Top, DrainFails
<1>3. Groups'
  BY <1>1, <1>2, ProgramFacts DEF Types, Groups, DrainFails
<1>4. Stopping'
  BY <1>1, <1>2, ProgramFacts DEF Types, Stopping, Drained, DrainFails
<1>5. Counted'
  BY <1>1, <1>2, ProgramFacts DEF Types, Counted, DrainFails
<1> QED
  BY <1>2, <1>3, <1>4, <1>5 DEF IInv

LEMMA ForceCloseHolds ==
  ASSUME IInv, ForceClose
  PROVE  IInv'
<1>1. Types /\ Groups /\ Stopping /\ Counted
  BY DEF IInv
<1>2. Types' /\ Members' = Members /\ Streams' = Streams /\ Top' = Top
  BY <1>1, ProgramFacts DEF Types, Members, Streams, Top, ForceClose, RecordFailure
<1>3. Groups'
  BY <1>1, <1>2, ProgramFacts DEF Types, Groups, ForceClose, RecordFailure
<1>4. Stopping'
  BY <1>1, <1>2, ProgramFacts DEF Types, Stopping, Drained, ForceClose, RecordFailure
<1>5. Counted'
  BY <1>1, <1>2, ProgramFacts DEF Types, Counted, ForceClose, RecordFailure
<1> QED
  BY <1>2, <1>3, <1>4, <1>5 DEF IInv

LEMMA ExitHolds ==
  ASSUME IInv, Exit
  PROVE  IInv'
<1>1. Types /\ Groups /\ Stopping /\ Counted
  BY DEF IInv
<1>2. Types' /\ Members' = Members /\ Streams' = Streams /\ Top' = Top
  BY <1>1, ProgramFacts DEF Types, Members, Streams, Top, Exit
<1>3. Groups'
  BY <1>1, <1>2, ProgramFacts DEF Types, Groups, Exit
<1>4. Stopping'
  BY <1>1, <1>2, ProgramFacts DEF Types, Stopping, Drained, Exit
<1>5. Counted'
  BY <1>1, <1>2, ProgramFacts DEF Types, Counted, Exit
<1> QED
  BY <1>2, <1>3, <1>4, <1>5 DEF IInv

LEMMA SignalHolds ==
  ASSUME IInv, Signal
  PROVE  IInv'
<1>1. Types /\ Groups /\ Stopping /\ Counted
  BY DEF IInv
<1>2. Types' /\ Members' = Members /\ Streams' = Streams /\ Top' = Top
  BY <1>1, ProgramFacts DEF Types, Members, Streams, Top, Signal
<1>3. Groups'
  BY <1>1, <1>2, ProgramFacts DEF Types, Groups, Signal
<1>4. Stopping'
  BY <1>1, <1>2, ProgramFacts DEF Types, Stopping, Drained, Signal
<1>5. Counted'
  BY <1>1, <1>2, ProgramFacts DEF Types, Counted, Signal
<1> QED
  BY <1>2, <1>3, <1>4, <1>5 DEF IInv

LEMMA ServeFailsHolds ==
  ASSUME IInv, ServeFails
  PROVE  IInv'
<1>1. Types /\ Groups /\ Stopping /\ Counted
  BY DEF IInv
<1>2. Types' /\ Members' = Members /\ Streams' = Streams /\ Top' = Top
  BY <1>1, ProgramFacts DEF Types, Members, Streams, Top, ServeFails
<1>3. Groups'
  BY <1>1, <1>2, ProgramFacts DEF Types, Groups, ServeFails
<1>4. Stopping'
  BY <1>1, <1>2, ProgramFacts DEF Types, Stopping, Drained, ServeFails
<1>5. Counted'
  BY <1>1, <1>2, ProgramFacts DEF Types, Counted, ServeFails
<1> QED
  BY <1>2, <1>3, <1>4, <1>5 DEF IInv

LEMMA NextHolds == IInv /\ [Next]_vars => IInv'
<1>1. ASSUME IInv, UNCHANGED vars PROVE IInv'
  BY <1>1 DEF vars, IInv, Types, Groups, Stopping, Counted, Drained, Streams, Members,
     Top
<1>2. ASSUME IInv, NEW s \in Streams, Consume(s) \/ InnerReceive(s) PROVE IInv'
  BY <1>2, ConsumeHolds, InnerReceiveHolds
<1>3. ASSUME IInv, NEW m \in Top, ConsumerEnds(m) \/ Receive(m) PROVE IInv'
  BY <1>3, ConsumerEndsHolds, ReceiveHolds
<1> QED
  BY <1>1, <1>2, <1>3, HydrateHolds, InnerReturnHolds, ServerEndsHolds, SignalSeenHolds,
     ServerDrainedHolds, DrainFailsHolds, ForceCloseHolds, ExitHolds, SignalHolds,
     ServeFailsHolds DEF Next

LEMMA InvariantHolds == Spec => []IInv
BY InitHolds, NextHolds, PTL DEF Spec

-------------------------------------------------------------------------------
(* A process whose Run returns no error was told to stop, has seen all its *)
(* consumers end, those of a nested group too, and has closed its server.  *)
THEOREM CleanExitsAreDrained == Spec => []CleanExitIsDrained
<1>1. IInv => CleanExitIsDrained
  <2> SUFFICES ASSUME IInv, proc = "exited", ~failure
               PROVE  /\ signalled /\ server = "closed"
                      /\ \A m \in Members : pc[m] \in {"idle", "returned"}
    BY DEF CleanExitIsDrained
  <2>1. Types /\ Groups /\ Drained /\ signalled
    BY DEF IInv, Stopping
  <2>2. \A m \in Top : pc[m] = "returned"
    BY <2>1 DEF Groups, Drained
  <2>3. \A m \in Streams : pc[m] \in {"idle", "returned"}
    BY <2>1, <2>2, ProgramFacts DEF Groups
  <2> QED
    BY <2>1, <2>2, <2>3, ProgramFacts DEF Drained
<1> QED
  BY <1>1, InvariantHolds, PTL

(* A stream that failed keeps the process from being ready (Ready of the   *)
(* consumer metrics), whatever its siblings go on to report.               *)
THEOREM FailuresAreShown == Spec => []FailureIsShown
<1>1. IInv => FailureIsShown
  <2> SUFFICES ASSUME IInv, NEW s \in Streams, cause[s] = "error",
                      program.nested => "projector" \in received /\ ~signalled
               PROVE  failedWrites \/ lastError
    BY DEF FailureIsShown, Ready
  <2>1. CASE ~Nested
    BY <2>1 DEF IInv, Counted
  <2>2. CASE Nested
    <3>1. Types /\ Stopping
      BY DEF IInv
    <3>2. "projector" \in received \cap Top /\ ~signalled
      BY <2>2, <3>1, ProgramFacts
    <3> QED
      BY <2>2, <3>1, <3>2 DEF Stopping
  <2> QED
    BY <2>1, <2>2
<1> QED
  BY <1>1, InvariantHolds, PTL

-------------------------------------------------------------------------------
(* The types of the rest of the process.                                   *)

Calls ==
  /\ pc \in [Members -> Stage] /\ cause \in [Members -> {"none", "cancelled", "error"}]
  /\ \A m \in Members : pc[m] = "returned" <=> cause[m] # "none"
Process ==
  /\ inner \in {"open", "cancelled"} /\ group \in {"open", "cancelled"}
  /\ proc \in {"running", "stopping", "exited"}
  /\ server \in {"serving", "failed", "draining", "closed"}
  /\ failure \in BOOLEAN /\ signalled \in BOOLEAN
  /\ proc = "running" => group = "open" /\ ~failure
Metrics ==
  /\ conn \in [Streams -> BOOLEAN]
  /\ failedWrites \in BOOLEAN /\ lastError \in BOOLEAN

(* One goroutine goes on, or returns with its cause.                       *)
Advances(m) ==
  /\ pc[m] # "returned"
  /\ \/ \E stage \in Stage \ {"returned"} : Goto(m, stage)
     \/ \E why \in {"cancelled", "error"} : Return(m, why)

LEMMA AdvancesHolds ==
  ASSUME Calls, Types, NEW m \in Members, Advances(m), UNCHANGED program
  PROVE  Calls'
<1>1. Members' = Members /\ DOMAIN pc = Members /\ DOMAIN cause = Members
  BY DEF Types, Members, Top, Streams
<1>2. CASE \E stage \in Stage \ {"returned"} : Goto(m, stage)
  BY <1>1, <1>2 DEF Calls, Advances, Goto
<1>3. CASE \E why \in {"cancelled", "error"} : Return(m, why)
  BY <1>1, <1>3 DEF Calls, Return, Stage
<1> QED
  BY <1>2, <1>3 DEF Advances

LEMMA MetricsStep ==
  ASSUME Metrics, NEW s \in Streams, UNCHANGED program,
         \/ UNCHANGED conn
         \/ \E up \in BOOLEAN : MarkConnection(s, up) \/ MarkBrokerConnected(up),
         failedWrites' \in {failedWrites, TRUE}, lastError' \in {lastError, TRUE, FALSE}
  PROVE  Metrics'
<1>1. Streams' = Streams
  BY DEF Streams
<1>2. conn' \in [Streams -> BOOLEAN]
  BY DEF Metrics, MarkConnection, MarkBrokerConnected
<1> QED
  BY <1>1, <1>2 DEF Metrics

(* A stream's step advances it and marks the metrics.                      *)
LEMMA ConsumeStep ==
  ASSUME NEW s \in Streams, Consume(s)
  PROVE  /\ Advances(s)
         /\ \/ UNCHANGED conn
            \/ \E up \in BOOLEAN : MarkConnection(s, up) \/ MarkBrokerConnected(up)
         /\ failedWrites' \in {failedWrites, TRUE} /\ lastError' \in {lastError, TRUE, FALSE}
<1> USE DEF Advances, Stage, Why, CountUnlessTwin, CountFailure
<1>1. CASE FetchMessage(s) \/ FetchCancelled(s) \/ FetchFails(s)
  BY <1>1 DEF FetchMessage, FetchCancelled, FetchFails
<1>2. CASE Project(s)
  BY <1>2 DEF Project, StopAt
<1>3. CASE CommitSkipped(s)
  BY <1>3 DEF CommitSkipped
<1>4. CASE Persist(s)
  BY <1>4 DEF Persist
<1>5. CASE CommitMessages(s)
  BY <1>5 DEF CommitMessages, StopAt
<1> QED
  BY <1>1, <1>2, <1>3, <1>4, <1>5 DEF Consume

LEMMA CallsKept ==
  ASSUME IInv, Calls, [Next]_vars
  PROVE  Calls'
<1>1. Types /\ Groups
  BY DEF IInv
<1>2. ASSUME NEW s \in Streams, Consume(s) PROVE Calls'
  BY <1>1, <1>2, ConsumeStep, AdvancesHolds, ProgramFacts DEF Consume
<1>3. CASE Hydrate
  <2>1. CASE Return("projector", "error")
    <3>1. Advances("projector") /\ "projector" \in Members
      BY <1>1, <1>3, <2>1, ProgramFacts DEF Advances, Hydrate
    <3> QED
      BY <1>1, <1>3, <3>1, AdvancesHolds DEF Hydrate
  <2>2. CASE pc' = [m \in Members |-> "fetch"] /\ UNCHANGED cause
    <3>1. \A m \in Members : pc[m] = "idle"
      BY <1>1, <1>3, ProgramFacts DEF Groups, Hydrate
    <3>2. Members' = Members
      BY <1>3 DEF Hydrate, Members, Top, Streams
    <3> QED
      BY <2>2, <3>1, <3>2 DEF Calls, Stage
  <2> QED
    BY <1>3, <2>1, <2>2 DEF Hydrate
<1>4. CASE InnerReturn
  <2>1. Advances("projector") /\ "projector" \in Members
    BY <1>1, <1>4, ProgramFacts DEF Advances, InnerReturn
  <2> QED
    BY <1>1, <1>4, <2>1, AdvancesHolds DEF InnerReturn
<1>5. CASE UNCHANGED <<program, pc, cause>>
  BY <1>5 DEF Calls, Members, Top, Streams
<1>6. ASSUME \/ \E s \in Streams : InnerReceive(s)
             \/ \E m \in Top : ConsumerEnds(m) \/ Receive(m)
             \/ ServerEnds \/ SignalSeen \/ ServerDrained \/ DrainFails \/ ForceClose
             \/ Exit \/ Signal \/ ServeFails \/ UNCHANGED vars
      PROVE  UNCHANGED <<program, pc, cause>>
  BY <1>6 DEF InnerReceive, ConsumerEnds, Receive, ServerEnds, SignalSeen, ServerDrained,
     DrainFails, ForceClose, Exit, Signal, ServeFails, vars
<1> QED
  BY <1>2, <1>3, <1>4, <1>5, <1>6 DEF Next

LEMMA ProcessKept ==
  ASSUME Process, [Next]_vars
  PROVE  Process'
<1>1. CASE \/ \E s \in Streams : Consume(s)
           \/ Hydrate \/ InnerReturn \/ UNCHANGED vars
  BY <1>1 DEF Process, Consume, Hydrate, InnerReturn, vars
<1>2. CASE \E s \in Streams : InnerReceive(s)
  BY <1>2 DEF Process, InnerReceive
<1>3. CASE \E m \in Top : ConsumerEnds(m)
  BY <1>3 DEF Process, ConsumerEnds, BeginShutdown
<1>4. CASE \E m \in Top : Receive(m)
  BY <1>4 DEF Process, Receive
<1>5. CASE ServerEnds \/ SignalSeen
  BY <1>5 DEF Process, ServerEnds, SignalSeen, BeginShutdown
<1>6. CASE ServerDrained \/ DrainFails \/ ForceClose \/ Exit
  BY <1>6 DEF Process, ServerDrained, DrainFails, ForceClose, Exit
<1>7. CASE Signal
  <2>1. UNCHANGED <<inner, group, proc, failure, server>> /\ signalled' \in BOOLEAN
    BY <1>7 DEF Signal, consumers
  <2> QED
    BY <2>1 DEF Process
<1>8. CASE ServeFails
  <2>1. UNCHANGED <<inner, group, proc, failure, signalled>> /\ server' = "failed"
    BY <1>8 DEF ServeFails, consumers
  <2> QED
    BY <2>1 DEF Process
<1> QED
  BY <1>1, <1>2, <1>3, <1>4, <1>5, <1>6, <1>7, <1>8 DEF Next

LEMMA MetricsKept ==
  ASSUME Metrics, [Next]_vars
  PROVE  Metrics'
<1>1. ASSUME NEW s \in Streams, Consume(s) PROVE Metrics'
  BY <1>1, ConsumeStep, MetricsStep DEF Consume
<1>2. ASSUME UNCHANGED <<program, metrics>> PROVE Metrics'
  BY <1>2 DEF Metrics, Streams
<1>3. ASSUME UNCHANGED program, RecordFailure PROVE Metrics'
  BY <1>3 DEF RecordFailure, MarkBrokerConnected, Metrics, Streams
<1>4. CASE \/ Hydrate \/ InnerReturn \/ UNCHANGED vars
           \/ \E s \in Streams : InnerReceive(s)
           \/ \E m \in Top : Receive(m)
           \/ SignalSeen \/ ServerDrained \/ DrainFails \/ Exit \/ Signal \/ ServeFails
  BY <1>2, <1>4 DEF Hydrate, InnerReturn, InnerReceive, Receive, SignalSeen, ServerDrained,
     DrainFails, Exit, Signal, ServeFails, vars
<1>5. CASE ServerEnds \/ ForceClose \/ \E m \in Top : ConsumerEnds(m)
  BY <1>2, <1>3, <1>5 DEF ServerEnds, ForceClose, ConsumerEnds
<1> QED
  BY <1>1, <1>4, <1>5 DEF Next

(* A goroutine has returned exactly when its error group has a cause for   *)
(* it, and the process runs on only while nothing has failed (Run, the     *)
(* errgroup of the projector).                                             *)
THEOREM TypeCorrect == Spec => []TypeOK
<1>1. Init => Calls /\ Process /\ Metrics
  BY DEF Init, Calls, Process, Metrics, Stage
<1>2. IInv /\ Calls /\ Process /\ Metrics /\ [Next]_vars => Calls' /\ Process' /\ Metrics'
  BY CallsKept, ProcessKept, MetricsKept
<1>3. IInv /\ Calls /\ Process /\ Metrics => TypeOK
  BY DEF IInv, Types, Groups, Calls, Process, Metrics, TypeOK
<1> QED
  BY <1>1, <1>2, <1>3, InvariantHolds, PTL DEF Spec
===============================================================================
