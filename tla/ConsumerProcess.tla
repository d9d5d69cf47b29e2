--------------------------- MODULE ConsumerProcess ---------------------------
(***************************************************************************)
(* The process every broker consumer of the repository runs in             *)
(* (background_consumer_process.go): a group of consumers, an HTTP server  *)
(* that answers /healthz and /readyz from the metrics the consumers share, *)
(* and a shutdown that is bounded by a deadline.  The Twin projector runs  *)
(* its two streams in a second group, nested in the only consumer of its   *)
(* process, and that group waits for its streams without a bound.          *)
(*                                                                         *)
(* A consumer is followed from message to message; what it writes is the   *)
(* business of SimopsDelivery and TwinPipeline.  Of the metrics the model  *)
(* keeps what Ready() and /healthz read.                                   *)
(***************************************************************************)
EXTENDS FiniteSets, Naturals

CONSTANT Programs  \* the programs a behaviour may be of, among those below

\* The repository's consumer processes: their streams, the loop that reads
\* them, whether a message that does not decode is skipped, and whether the
\* streams run in a group of their own.
ProjectionWriter ==
  [streams |-> {"measured-state", "simulated-result-state", "twin-state-and-lineage"},
   loop |-> "ingestion", skips |-> FALSE, nested |-> FALSE]

WorkbenchIcebergWriter ==
  [streams |-> {"measured-state", "simulated-result-state", "twin-state-and-lineage"},
   loop |-> "ingestion", skips |-> FALSE, nested |-> FALSE]

SimopsIcebergWriter ==
  [streams |-> {"simops-telemetry"}, loop |-> "ingestion", skips |-> TRUE, nested |-> FALSE]

TimescaleWriter ==
  [streams |-> {"simops-telemetry"}, loop |-> "timescale", skips |-> TRUE, nested |-> FALSE]

TwinProjector ==
  [streams |-> {"measured-state-input", "simulated-result-state-input"},
   loop |-> "twin", skips |-> FALSE, nested |-> TRUE]

ASSUME ProgramsAssumption ==
  Programs \subseteq {ProjectionWriter, WorkbenchIcebergWriter, SimopsIcebergWriter,
                      TimescaleWriter, TwinProjector}

VARIABLES
  program,      \* the program this is a process of
  pc,           \* where each consumer is
  cause,        \* why a consumer returned
  received,     \* the consumers whose result their group has taken
  inner,        \* the context of the nested group
  group,        \* the context of the process's group: "open" or "cancelled"
  proc,         \* Run: "running", "stopping", "exited"
  failure,      \* Run is to return an error
  server,       \* the HTTP server: "serving", "failed", "draining", "closed"
  signalled,    \* SIGTERM was received
  conn,         \* brokerConnections, of the streams
  failedWrites, \* writeFailures is not zero
  lastError     \* lastError is not empty

metrics == <<conn, failedWrites, lastError>>
consumers == <<pc, cause, received, inner>>
process == <<group, proc, failure, server, signalled>>
vars == <<program, pc, cause, received, inner, group, proc, failure, server,
          signalled, conn, failedWrites, lastError>>

Stage == {"idle", "fetch", "project", "skip", "persist", "commit", "returned"}

Streams == program.streams

\* The consumers of the process's own group.
Top == IF program.nested THEN {"projector"} ELSE Streams

Members == Top \union Streams

TypeOK ==
  /\ program \in Programs
  /\ pc \in [Members -> Stage]
  /\ cause \in [Members -> {"none", "cancelled", "error"}]
  /\ received \subseteq Members
  /\ {inner, group} \subseteq {"open", "cancelled"}
  /\ proc \in {"running", "stopping", "exited"}
  /\ server \in {"serving", "failed", "draining", "closed"}
  /\ conn \in [Streams -> BOOLEAN]
  /\ {failure, signalled, failedWrites, lastError} \subseteq BOOLEAN
  /\ \A m \in Members : pc[m] = "returned" <=> cause[m] # "none"
  /\ \A m \in received : pc[m] = "returned"
  /\ proc = "running" => group = "open" /\ ~failure

Init ==
  /\ program \in Programs
  /\ pc = [m \in Members |-> IF program.nested THEN "idle" ELSE "fetch"]
  /\ cause = [m \in Members |-> "none"]
  /\ received = {}
  /\ inner = "open"
  /\ group = "open"
  /\ proc = "running"
  /\ server = "serving"
  /\ conn = [s \in Streams |-> FALSE]
  /\ failure = FALSE /\ signalled = FALSE
  /\ failedWrites = FALSE /\ lastError = FALSE

-----------------------------------------------------------------------------
(* The metrics.                                                            *)

\* A group requires the connections of its consumers when it starts, except
\* of those that skip readiness: the projector's nested group adds its own.
Required == {s \in Streams : pc[s] # "idle"}

Sole == Cardinality(Required) = 1

\* Before the nested group starts nothing is required and no message was seen.
Connected == Required # {} /\ \A s \in Required : conn[s]

Ready == Connected /\ ~failedWrites /\ ~lastError

MarkConnection(s, up) == conn' = [conn EXCEPT ![s] = up]

\* Without a stream's name, only a sole required connection is marked.
MarkBrokerConnected(up) ==
  conn' = IF Sole THEN [s \in Streams |-> up] ELSE conn

CountFailure == failedWrites' = TRUE /\ lastError' = TRUE

\* Mutant: the process marks the broker and forgets the error.
RecordDisconnected ==
  /\ MarkBrokerConnected(FALSE)
  /\ UNCHANGED <<failedWrites, lastError>>

RecordFailure ==
  /\ MarkBrokerConnected(FALSE)
  /\ lastError' = TRUE
  /\ UNCHANGED failedWrites

-----------------------------------------------------------------------------
(* The loops of the consumers.                                             *)

Running(s) ==
  /\ proc # "exited"
  /\ s \in Streams

\* The process's group is not derived from the signal's context: a signal
\* cancels it only when Run gets to it.
Cancelled == group = "cancelled" \/ inner = "cancelled"

Goto(s, stage) == pc' = [pc EXCEPT ![s] = stage] /\ UNCHANGED cause

\* Mutant: the consumer's goroutine ends and its error is dropped.
ReturnWithoutCause(m, why) ==
  /\ pc' = [pc EXCEPT ![m] = "returned"]
  /\ UNCHANGED cause

Return(m, why) ==
  /\ pc' = [pc EXCEPT ![m] = "returned"]
  /\ cause' = [cause EXCEPT ![m] = why]

\* What a call that failed is taken for: a cancelled one may have failed of it.
Why == IF Cancelled THEN {"cancelled", "error"} ELSE {"error"}

\* The Twin projector's streams leave the counting to the process.
CountUnlessTwin ==
  IF program.loop = "twin" THEN UNCHANGED <<failedWrites, lastError>> ELSE CountFailure

FetchMessage(s) ==
  /\ pc[s] = "fetch"
  /\ Goto(s, "project")
  /\ MarkConnection(s, TRUE)
  /\ UNCHANGED <<failedWrites, lastError>>

FetchCancelled(s) ==
  /\ pc[s] = "fetch"
  /\ Cancelled
  /\ Return(s, "cancelled")
  /\ UNCHANGED metrics

FetchFails(s) ==
  /\ pc[s] = "fetch"
  /\ ~Cancelled
  /\ Return(s, "error")
  /\ MarkConnection(s, FALSE)
  /\ CountUnlessTwin

\* The ingestion loop looks at its context between its calls, the others do not.
SeesCancelled == program.loop = "ingestion" /\ Cancelled

StopAt(s, stage) ==
  /\ pc[s] = stage
  /\ SeesCancelled
  /\ Return(s, "cancelled")
  /\ UNCHANGED metrics

Project(s) ==
  \/ StopAt(s, "project")
  \/ /\ pc[s] = "project"
     /\ ~SeesCancelled
     /\ \/ Goto(s, "persist") /\ UNCHANGED metrics
        \/ /\ IF program.skips THEN Goto(s, "skip") ELSE Return(s, "error")
           /\ CountUnlessTwin
           /\ UNCHANGED conn

\* A message that does not decode is committed and passed over.
CommitSkipped(s) ==
  /\ pc[s] = "skip"
  /\ \/ /\ Goto(s, "fetch")
        /\ IF program.loop = "ingestion" THEN MarkBrokerConnected(TRUE) ELSE UNCHANGED conn
        /\ UNCHANGED <<failedWrites, lastError>>
     \/ /\ \E why \in Why : Return(s, why)
        /\ IF program.loop = "ingestion" THEN CountFailure ELSE UNCHANGED <<failedWrites, lastError>>
        /\ UNCHANGED conn

Persist(s) ==
  /\ pc[s] = "persist"
  /\ \/ Goto(s, "commit") /\ UNCHANGED metrics
     \/ /\ \E why \in Why : Return(s, why)
        /\ CountUnlessTwin
        /\ UNCHANGED conn

CommitMessages(s) ==
  \/ StopAt(s, "commit")
  \/ /\ pc[s] = "commit"
     /\ Goto(s, "fetch")
     /\ IF program.loop = "timescale"
          THEN lastError' = FALSE /\ UNCHANGED conn
          ELSE MarkBrokerConnected(TRUE) /\ UNCHANGED lastError
     /\ UNCHANGED failedWrites
  \/ /\ pc[s] = "commit"
     /\ ~SeesCancelled
     /\ \E why \in Why : Return(s, why)
     /\ CountUnlessTwin
     /\ UNCHANGED conn

Consume(s) ==
  /\ Running(s)
  /\ \/ FetchMessage(s) \/ FetchCancelled(s) \/ FetchFails(s)
     \/ Project(s) \/ CommitSkipped(s) \/ Persist(s) \/ CommitMessages(s)
  /\ UNCHANGED <<program, received, inner, process>>

-----------------------------------------------------------------------------
(* The Twin projector's nested group.                                      *)

Hydrate ==
  /\ program.nested /\ proc # "exited"
  /\ pc["projector"] = "idle"
  /\ \/ pc' = [m \in Members |-> "fetch"] /\ UNCHANGED cause
     \/ Return("projector", "error")
  /\ UNCHANGED <<program, received, inner, process, metrics>>

\* Mutant: the siblings of a stream that failed are not cancelled.
InnerReceiveOnly(s) ==
  /\ program.nested /\ Running(s)
  /\ pc[s] = "returned" /\ s \notin received
  /\ received' = received \union {s}
  /\ UNCHANGED <<program, pc, cause, inner, process, metrics>>

\* The first failure cancels the siblings, unless the process stops already.
InnerReceive(s) ==
  /\ program.nested /\ Running(s)
  /\ pc[s] = "returned" /\ s \notin received
  /\ received' = received \union {s}
  /\ inner' = IF group = "open" /\ cause[s] = "error" THEN "cancelled" ELSE inner
  /\ UNCHANGED <<program, pc, cause, process, metrics>>

\* The group returns when every stream of it has, however long that takes.
InnerReturn ==
  /\ program.nested /\ proc # "exited"
  /\ pc["projector"] = "fetch"
  /\ Streams \subseteq received
  /\ Return("projector", IF inner = "cancelled" THEN "error" ELSE "cancelled")
  /\ UNCHANGED <<program, received, inner, process, metrics>>

-----------------------------------------------------------------------------
(* Run and shutdown.                                                       *)

Waiting(m) == m \in Top /\ pc[m] = "returned" /\ m \notin received

BeginShutdown ==
  /\ proc = "running"
  /\ proc' = "stopping"
  /\ group' = "cancelled"
  /\ server' = "draining"

\* A consumer's end after a signal is the shutdown it asks for; before, a
\* failure of the process.
ConsumerEnds(m) ==
  /\ BeginShutdown
  /\ Waiting(m)
  /\ received' = received \union {m}
  /\ failure' = ~signalled
  /\ IF signalled THEN UNCHANGED metrics ELSE RecordFailure
  /\ UNCHANGED <<program, pc, cause, inner, signalled>>

ServerEnds ==
  /\ server = "failed"
  /\ BeginShutdown
  /\ failure' = TRUE
  /\ RecordFailure
  /\ UNCHANGED <<program, consumers, signalled>>

SignalSeen ==
  /\ signalled
  /\ BeginShutdown
  /\ UNCHANGED <<program, consumers, failure, signalled, metrics>>

Receive(m) ==
  /\ proc = "stopping"
  /\ Waiting(m)
  /\ received' = received \union {m}
  /\ failure' = (failure \/ cause[m] = "error")
  /\ UNCHANGED <<program, pc, cause, inner, group, proc, server, signalled, metrics>>

ServerDrained ==
  /\ proc = "stopping" /\ server = "draining"
  /\ server' = "closed"
  /\ UNCHANGED <<program, consumers, group, proc, failure, signalled, metrics>>

\* Shutdown returned another error than its deadline: Run does not wait further.
DrainFails ==
  /\ proc = "stopping" /\ server = "draining"
  /\ proc' = "exited" /\ failure' = TRUE
  /\ UNCHANGED <<program, consumers, group, server, signalled, metrics>>

\* Mutant: the shutdown waits for the HTTP server and for no consumer.
DrainedServer == server = "closed"

Drained == Top \subseteq received /\ server = "closed"

\* The deadline passes while a consumer or a handler still runs.
ForceClose ==
  /\ proc = "stopping" /\ ~Drained
  /\ server' = "closed"
  /\ proc' = "exited" /\ failure' = TRUE
  /\ RecordFailure
  /\ UNCHANGED <<program, consumers, group, signalled>>

Exit ==
  /\ proc = "stopping"
  /\ Drained
  /\ proc' = "exited"
  /\ UNCHANGED <<program, consumers, group, failure, server, signalled, metrics>>

-----------------------------------------------------------------------------
(* The environment: a signal, and a listener that breaks.                  *)

Signal ==
  /\ proc = "running" /\ ~signalled
  /\ signalled' = TRUE
  /\ UNCHANGED <<program, consumers, group, proc, failure, server, metrics>>

ServeFails ==
  /\ proc = "running" /\ server = "serving"
  /\ server' = "failed"
  /\ UNCHANGED <<program, consumers, group, proc, failure, signalled, metrics>>

Next ==
  \/ \E s \in Streams : Consume(s) \/ InnerReceive(s)
  \/ Hydrate \/ InnerReturn
  \/ \E m \in Top : ConsumerEnds(m) \/ Receive(m)
  \/ ServerEnds \/ SignalSeen
  \/ ServerDrained \/ DrainFails \/ ForceClose \/ Exit
  \/ Signal \/ ServeFails

\* Run's select and its deadline are the process's own.  Nothing is assumed of
\* a consumer of the process's group: its store call may never return.  In the
\* nested group nothing bounds the wait, and its streams are assumed to finish
\* what they do and to see, in the end, that their fetch was cancelled.
NestedStep(s) ==
  program.nested /\ pc[s] # "fetch" /\ Consume(s)

NestedCancel(s) ==
  /\ program.nested /\ Running(s)
  /\ FetchCancelled(s)
  /\ UNCHANGED <<program, received, inner, process>>

AllStreams == UNION {p.streams : p \in Programs}

Fairness ==
  /\ WF_vars(\E m \in Top : ConsumerEnds(m))
  /\ WF_vars(ServerEnds) /\ WF_vars(SignalSeen)
  /\ WF_vars(ForceClose) /\ WF_vars(Exit)
  /\ WF_vars(InnerReturn)
  /\ \A s \in AllStreams :
       /\ WF_vars(s \in Streams /\ InnerReceive(s))
       /\ WF_vars(s \in Streams /\ NestedStep(s))
       /\ SF_vars(s \in Streams /\ NestedCancel(s))

Spec == Init /\ [][Next]_vars /\ Fairness

-----------------------------------------------------------------------------
(* Properties.                                                             *)

\* A process that ends without an error was told to stop, and left neither a
\* consumer running, of either group, nor a request unanswered.
CleanExitIsDrained ==
  proc = "exited" /\ ~failure =>
    /\ signalled
    /\ \A m \in Members : pc[m] \in {"idle", "returned"}
    /\ server = "closed"

\* A stream that failed keeps the process from being ready, whatever the other
\* streams, which share its metrics, go on to report; the streams of a nested
\* group from when the process has taken the group's result.
FailureIsShown ==
  \A s \in Streams :
    cause[s] = "error" /\ (program.nested => "projector" \in received /\ ~signalled)
      => ~Ready

\* A signal ends the process, and so does a consumer that failed, even when
\* another consumer never returns from its store.
StopsWhenTold ==
  (signalled \/ \E m \in Members : cause[m] = "error") ~> (proc = "exited")
=============================================================================
