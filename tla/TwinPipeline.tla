----------------------------- MODULE TwinPipeline -----------------------------
(***************************************************************************)
(* The Digital Twin pipeline of the Simulator Workbench on Postgres and    *)
(* Redpanda.  The Twin projector consumes measured frames and simulated    *)
(* results, one message at a time under its transition mutex: it saves a   *)
(* Twin State publication, delivers what was saved to the Twin topic,      *)
(* acknowledges it and commits the source message.  Projection consumers   *)
(* store the frames, the results and the Twin topic; a lake consumer       *)
(* appends the Twin topic to Iceberg.  Any call may fail, with or without  *)
(* effect; a consumer that fails ends its process, which starts again at   *)
(* the committed offsets.  Meanwhile retention prunes frames and an        *)
(* operator may flush the configured data.                                 *)
(*                                                                         *)
(* A frame or a result is the offset it has on its topic, one partition    *)
(* each.  Values, units and the layout of rows are left out; a Twin State, *)
(* with the Lineage stored beside it, is what it was built from.           *)
(***************************************************************************)
EXTENDS Naturals, Sequences, FiniteSets

CONSTANTS
  Tags,          \* tags of the resident sources
  Measured,      \* the measured frames: [tag, at, dynamic] records
  Results,       \* the simulated results: [at, decodes] records
  MaxFlushes,    \* bound on the Configured Data Flushes of a behaviour
  MaxFaults      \* bound on its failed calls and crashes

Sources == {"scada", "result"}
Log      == [scada |-> Measured, result |-> Results]
Messages == {<<"scada", o>> : o \in 1..Len(Measured)} \cup {<<"result", o>> : o \in 1..Len(Results)}

ASSUME LogAssumption ==
  /\ Measured \in Seq([tag : Tags, at : Nat, dynamic : BOOLEAN])
  /\ Results \in Seq([at : Nat, decodes : BOOLEAN])
ASSUME BoundsAssumption == MaxFlushes \in Nat /\ MaxFaults \in Nat

VARIABLES
  (* Redpanda *)
  committed,     \* offset committed by each consumer group
  topic,         \* the Twin topic: [id, state] events
  (* Postgres *)
  rows,          \* rows that hold the frame or the result of a message
  processed,     \* keys of the processed messages
  publication,   \* Twin publication of each source message
  canonical,     \* the Twin State saved with it
  twin,          \* the current Twin State, and its Lineage
  generation,    \* snapshot generation
  (* Iceberg *)
  lake,          \* snapshots appended for each publication
  (* the Twin projector *)
  pc, source,    \* its step, and the topic of the message it is at
  measured,      \* its memory: the last frame of each tag
  result,        \*             the last result
  built,         \* the Twin State it is about to save or deliver
  stopped,       \* sources whose consumer returned an error
  flushes, faults

postgres  == <<rows, processed, publication, canonical, twin, generation>>
projector == <<pc, source, measured, result, built, stopped>>
bounds    == <<flushes, faults>>
vars      == <<committed, topic, postgres, lake, projector, bounds>>

(* The consumer groups: the two of the projector, the projections, the lake.*)
GroupOf(s) == IF s = "scada" THEN "projector-scada" ELSE "projector-result"
Consumers  == {"scada", "result", "twin", "lake"}
Groups     == {GroupOf(s) : s \in Sources} \cup Consumers

None    == 0
NoFrame == [t \in Tags |-> None]
(* BuildTwinStateFromData: a Twin State and its Lineage are a function of  *)
(* the last frame of each tag and the last result.                         *)
TwinState(frames, r) == [measured |-> frames, result |-> r]
NoTwin  == TwinState(NoFrame, None)
TwinKey(m) == <<"twin-publication", m>>

(* LatestMeasuredFrames and LatestResultFrames: by time, then by offset.   *)
Newer(log, p, o) == log[o].at > log[p].at \/ (log[o].at = log[p].at /\ o >= p)
Latest(log, stored) ==
  IF stored = {} THEN None ELSE CHOOSE o \in stored : \A p \in stored : Newer(log, p, o)
StoredFrames(t) == {o \in 1..Len(Measured) : rows[<<"scada", o>>] > 0 /\ Measured[o].tag = t}
StoredResults   == {o \in 1..Len(Results) : rows[<<"result", o>>] > 0}
(* What a Workbench Snapshot shows, read in one transaction.               *)
Shown == [measured |-> [t \in Tags |-> Latest(Measured, StoredFrames(t))],
          result |-> Latest(Results, StoredResults), twin |-> twin]

Init ==
  /\ committed = [g \in Groups |-> 0]
  /\ topic = <<>>
  /\ rows = [m \in Messages |-> 0]
  /\ processed = {}
  /\ publication = [m \in Messages |-> "none"]
  /\ canonical = [m \in Messages |-> NoTwin]
  /\ twin = NoTwin
  /\ generation = 0
  /\ lake = [m \in Messages |-> 0]
  /\ pc = "idle" /\ source = "scada"
  /\ measured = NoFrame /\ result = None
  /\ built = NoTwin
  /\ stopped = {}
  /\ flushes = 0 /\ faults = 0

Fault == faults < MaxFaults /\ faults' = faults + 1
NoFault == UNCHANGED faults

-------------------------------------------------------------------------------
(* Transactions of the Workbench store                                     *)

AdvanceGeneration == generation' = generation + 1

(* Mutant of SaveFrame: the processed key is not looked at.                *)
SaveFrameTwice(m) ==
  /\ rows' = [rows EXCEPT ![m] = @ + 1]
  /\ processed' = processed \cup {m}
  /\ AdvanceGeneration
  /\ UNCHANGED <<publication, canonical, twin>>
(* SaveScadaProjection and SaveResultProjection: the processed key, the    *)
(* rows and the generation in one transaction.                             *)
SaveFrame(m) ==
  IF m \in processed THEN UNCHANGED postgres
  ELSE /\ rows' = [rows EXCEPT ![m] = @ + 1]
       /\ processed' = processed \cup {m}
       /\ AdvanceGeneration
       /\ UNCHANGED <<publication, canonical, twin>>

(* SaveTwinStateProjection: one Twin State, once per publication id.       *)
SaveTwin(m, state) ==
  /\ twin' = state
  /\ processed' = processed \cup {TwinKey(m)}
  /\ AdvanceGeneration

(* Mutant of SaveTwinStatePublication: the generation does not move.       *)
SavePublicationSilently(m, state) ==
  IF TwinKey(m) \in processed THEN UNCHANGED postgres
  ELSE /\ twin' = state
       /\ processed' = processed \cup {TwinKey(m)}
       /\ publication' = [publication EXCEPT ![m] = "pending"]
       /\ canonical' = [canonical EXCEPT ![m] = state]
       /\ UNCHANGED <<rows, generation>>
(* Mutant of SaveTwinStatePublication: the row is asked, not the key.      *)
SavePublicationWithoutRow(m, state) ==
  IF publication[m] # "none" THEN UNCHANGED postgres
  ELSE /\ SaveTwin(m, state)
       /\ publication' = [publication EXCEPT ![m] = "pending"]
       /\ canonical' = [canonical EXCEPT ![m] = state]
       /\ UNCHANGED rows
(* The projector saves the canonical publication with it.                  *)
SaveTwinStatePublication(m, state) ==
  IF TwinKey(m) \in processed THEN UNCHANGED postgres
  ELSE /\ SaveTwin(m, state)
       /\ publication' = [publication EXCEPT ![m] = "pending"]
       /\ canonical' = [canonical EXCEPT ![m] = state]
       /\ UNCHANGED rows

(* The projection consumer of the Twin topic saves the state alone.        *)
SaveTwinStateProjection(m, state) ==
  IF TwinKey(m) \in processed THEN UNCHANGED postgres
  ELSE SaveTwin(m, state) /\ UNCHANGED <<rows, publication, canonical>>

(* Mutant of AcknowledgePublication: the tombstone keeps the Twin State.   *)
AcknowledgeKeepingState(m) ==
  /\ publication' = IF publication[m] = "none" THEN publication
                    ELSE [publication EXCEPT ![m] = "acknowledged"]
  /\ UNCHANGED <<canonical, rows, processed, twin, generation>>
(* The tombstone of an acknowledged publication carries no state.          *)
AcknowledgePublication(m) ==
  /\ publication' = IF publication[m] = "none" THEN publication
                    ELSE [publication EXCEPT ![m] = "acknowledged"]
  /\ canonical' = [canonical EXCEPT ![m] = NoTwin]
  /\ UNCHANGED <<rows, processed, twin, generation>>

(* Mutant of Flush: the processed keys are taken for projection rows.      *)
FlushProcessed ==
  /\ flushes < MaxFlushes /\ flushes' = flushes + 1
  /\ rows' = [m \in Messages |-> 0]
  /\ processed' = {}
  /\ publication' = [m \in Messages |-> "none"]
  /\ canonical' = [m \in Messages |-> NoTwin]
  /\ twin' = NoTwin
  /\ AdvanceGeneration
  /\ UNCHANGED <<committed, topic, lake, projector, faults>>
(* Configured Data Flush, of a reviewed plan no transaction has made stale.*)
(* The processed keys and the offsets are protected.                       *)
Flush ==
  /\ flushes < MaxFlushes /\ flushes' = flushes + 1
  /\ rows' = [m \in Messages |-> 0]
  /\ publication' = [m \in Messages |-> "none"]
  /\ canonical' = [m \in Messages |-> NoTwin]
  /\ twin' = NoTwin
  /\ AdvanceGeneration
  /\ UNCHANGED <<processed, committed, topic, lake, projector, faults>>

(* PruneDynamicMeasured deletes the frames of dynamic reactors ingested    *)
(* before some instant; without any the generation stays.                  *)
PruneDynamicMeasured ==
  /\ \E last \in 1..Len(Measured) :
       LET expired == {<<"scada", o>> : o \in {p \in 1..last : Measured[p].dynamic}}
       IN  /\ \E m \in expired : rows[m] > 0
           /\ rows' = [m \in Messages |-> IF m \in expired THEN 0 ELSE rows[m]]
  /\ AdvanceGeneration
  /\ UNCHANGED <<processed, publication, canonical, twin, committed, topic, lake,
                 projector, bounds>>

-------------------------------------------------------------------------------
(* The projection consumers and the lake consumer                          *)

NextOf(c) == committed[c] + 1
Waiting(c) == NextOf(c) <= IF c \in Sources THEN Len(Log[c]) ELSE Len(topic)
Event(c) == topic[NextOf(c)]

(* A result that does not decode stops its consumer and is not committed.  *)
Garbled(s, o) == s = "result" /\ ~Results[o].decodes

(* AppendTwin looks for a snapshot with the publication's id.              *)
AppendTwin(m) == lake' = IF lake[m] > 0 THEN lake ELSE [lake EXCEPT ![m] = @ + 1]

Store(c) ==
  CASE c \in Sources -> ~Garbled(c, NextOf(c)) /\ SaveFrame(<<c, NextOf(c)>>) /\ UNCHANGED lake
    [] c = "twin"    -> /\ SaveTwinStateProjection(Event(c).id, Event(c).state)
                        /\ UNCHANGED lake
    [] c = "lake"    -> AppendTwin(Event(c).id) /\ UNCHANGED postgres

(* Persist, then commit the offset, which only this consumer reads: one    *)
(* step, unless a call fails or the process ends after the store has done  *)
(* its part; the message is then delivered again.                          *)
Consume(c) ==
  /\ Waiting(c)
  /\ Store(c)
  /\ \/ NoFault /\ committed' = [committed EXCEPT ![c] = @ + 1]
     \/ Fault /\ UNCHANGED committed
  /\ UNCHANGED <<topic, projector, flushes>>

-------------------------------------------------------------------------------
(* The Twin projector                                                      *)

message == <<source, committed[GroupOf(source)] + 1>>

Goto(step) == pc' = step
(* An error ends the consumer of the source, and cancels the other.        *)
Fail == Goto("idle") /\ stopped' = stopped \cup {source} /\ UNCHANGED <<source, measured, result, built>>

Begin(s) ==
  /\ pc = "idle" /\ s \notin stopped
  /\ committed[GroupOf(s)] < Len(Log[s])
  /\ source' = s /\ Goto("resume")
  /\ UNCHANGED <<committed, topic, postgres, lake, measured, result, built, stopped, bounds>>

(* What follows from a publication read from the store.                    *)
Follow ==
  /\ Goto(IF publication[message] = "acknowledged" THEN "acknowledge" ELSE "deliver")
  /\ built' = canonical[message]
  /\ UNCHANGED <<source, measured, result, stopped>>

(* Resume: a publication found for the message is finished, not rebuilt.   *)
Resume ==
  /\ pc = "resume"
  /\ \/ /\ NoFault
        /\ IF publication[message] # "none" THEN Follow
           ELSE Goto("project") /\ UNCHANGED <<source, measured, result, built, stopped>>
     \/ Fault /\ Fail
  /\ UNCHANGED <<committed, topic, postgres, lake, flushes>>

(* processScada and processResult: decode, apply to memory and, once there *)
(* are a measurement and a result, build the Twin State.                   *)
Project ==
  /\ pc = "project"
  /\ LET o == message[2]
     IN  IF Garbled(source, o) THEN Fail
         ELSE /\ measured' = IF source = "scada" THEN [measured EXCEPT ![Measured[o].tag] = o] ELSE measured
              /\ result' = IF source = "result" THEN o ELSE result
              /\ IF measured' # NoFrame /\ result' # None
                 THEN built' = TwinState(measured', result') /\ Goto("save")
                 ELSE Goto("commit") /\ UNCHANGED built
              /\ UNCHANGED <<source, stopped>>
  /\ UNCHANGED <<committed, topic, postgres, lake, bounds>>

Save ==
  /\ pc = "save"
  /\ \/ /\ NoFault /\ SaveTwinStatePublication(message, built)
        /\ Goto("canonical") /\ UNCHANGED <<source, measured, result, built, stopped>>
     \/ Fault /\ Fail /\ (SaveTwinStatePublication(message, built) \/ UNCHANGED postgres)
  /\ UNCHANGED <<committed, topic, lake, flushes>>

(* Publish delivers the publication the store has, not the one it built.   *)
ReadCanonical ==
  /\ pc = "canonical"
  /\ \/ NoFault /\ IF publication[message] # "none" THEN Follow ELSE Fail
     \/ Fault /\ Fail
  /\ UNCHANGED <<committed, topic, postgres, lake, flushes>>

Deliver ==
  /\ pc = "deliver"
  /\ LET event == [id |-> message, state |-> built]
     IN  \/ /\ NoFault /\ topic' = Append(topic, event)
            /\ Goto("acknowledge") /\ UNCHANGED <<source, measured, result, built, stopped>>
         \/ Fault /\ Fail /\ topic' \in {topic, Append(topic, event)}
  /\ UNCHANGED <<committed, postgres, lake, flushes>>

(* Mutant of Acknowledge: the offset is committed whatever became of it.   *)
AcknowledgeOnError ==
  /\ pc \in {"deliver", "acknowledge"}
  /\ NoFault /\ AcknowledgePublication(message)
  /\ Goto("commit") /\ UNCHANGED <<source, measured, result, built, stopped>>
  /\ UNCHANGED <<committed, topic, lake, flushes>>
(* finishSourceMessage: acknowledge, then commit the offset.               *)
Acknowledge ==
  /\ pc = "acknowledge"
  /\ \/ /\ NoFault /\ AcknowledgePublication(message)
        /\ Goto("commit") /\ UNCHANGED <<source, measured, result, built, stopped>>
     \/ Fault /\ Fail /\ (AcknowledgePublication(message) \/ UNCHANGED postgres)
  /\ UNCHANGED <<committed, topic, lake, flushes>>

CommitSource ==
  /\ pc = "commit"
  /\ \/ /\ NoFault /\ committed' = [committed EXCEPT ![GroupOf(source)] = @ + 1]
        /\ Goto("idle") /\ built' = NoTwin
        /\ UNCHANGED <<source, measured, result, stopped>>
     \/ Fault /\ Fail /\ committed' \in {committed, [committed EXCEPT ![GroupOf(source)] = @ + 1]}
  /\ UNCHANGED <<topic, postgres, lake, flushes>>

Down ==
  /\ Goto("down") /\ source' = "scada" /\ stopped' = {}
  /\ measured' = NoFrame /\ result' = None /\ built' = NoTwin
  /\ UNCHANGED <<committed, topic, postgres, lake, flushes>>
(* Mutant of Exit: a consumer that returns an error leaves the other on.   *)
ExitWhenAllStopped == pc = "idle" /\ stopped = Sources /\ NoFault /\ Down
(* RunTwinProjector returns when both consumers have: the first error      *)
(* cancels the other's context.                                            *)
Exit  == pc = "idle" /\ stopped # {} /\ NoFault /\ Down
Crash == pc # "down" /\ Fault /\ Down

(* NewTwinProjector hydrates the memory from the projections.              *)
Restart ==
  /\ pc = "down"
  /\ measured' = Shown.measured /\ result' = Shown.result
  /\ Goto("idle")
  /\ UNCHANGED <<committed, topic, postgres, lake, source, built, stopped, bounds>>

ProjectorStep == Resume \/ Project \/ Save \/ ReadCanonical \/ Deliver \/ Acknowledge \/ CommitSource

Next ==
  \/ \E c \in Consumers : Consume(c)
  \/ \E s \in Sources : Begin(s)
  \/ ProjectorStep \/ Exit \/ Crash \/ Restart
  \/ Flush \/ PruneDynamicMeasured

(* A consumer runs on, and Compose starts again what has ended.            *)
Fairness ==
  /\ \A c \in Consumers : WF_vars(Consume(c))
  /\ \A s \in Sources : WF_vars(Begin(s))
  /\ WF_vars(ProjectorStep) /\ WF_vars(Exit) /\ WF_vars(Restart)
Spec == Init /\ [][Next]_vars /\ Fairness

-------------------------------------------------------------------------------
(* Properties                                                              *)

States == [measured : [Tags -> 0..Len(Measured)], result : 0..Len(Results)]
(* Every variable has its type; a pending publication has its Twin State,  *)
(* an acknowledged one has none (AcknowledgeTwinStatePublication).         *)
TypeOK ==
  /\ \A g \in Groups : committed[g] \in Nat
  /\ \A i \in 1..Len(topic) : topic[i].id \in Messages /\ topic[i].state \in States
  /\ rows \in [Messages -> Nat] /\ lake \in [Messages -> {0, 1}]
  /\ processed \subseteq Messages \cup {TwinKey(m) : m \in Messages}
  /\ publication \in [Messages -> {"none", "pending", "acknowledged"}]
  /\ canonical \in [Messages -> States]
  /\ \A m \in Messages : publication[m] = "pending" <=> canonical[m] # NoTwin
  /\ twin \in States /\ built \in States
  /\ generation \in Nat
  /\ pc \in {"idle", "resume", "project", "save", "canonical", "deliver", "acknowledge", "commit", "down"}
  /\ source \in Sources /\ stopped \subseteq Sources
  /\ measured \in [Tags -> 0..Len(Measured)] /\ result \in 0..Len(Results)
  /\ flushes \in 0..MaxFlushes /\ faults \in 0..MaxFaults

(* However often a message is delivered again, over failed calls, crashes  *)
(* and flushes, its rows are inserted at most once, and rows that were     *)
(* pruned or flushed do not come back (insertWorkbenchProcessed).          *)
ProjectedOnce ==
  [][\A m \in Messages : rows'[m] > rows[m] => rows[m] = 0 /\ m \notin processed]_vars

(* Every delivery of a publication carries the same Twin State, though the *)
(* projector was restarted with other measurements in its memory between   *)
(* two of them (Resume, Publish).                                          *)
DeliveredIsCanonical ==
  \A i, j \in 1..Len(topic) : topic[i].id = topic[j].id => topic[i].state = topic[j].state

(* A message is committed, and its publication acknowledged, only when the *)
(* Twin State saved for it is on the Twin topic; a flush that takes a      *)
(* publication ends the obligation (finishSourceMessage).                  *)
CommittedIsDelivered ==
  \A m \in Messages :
    /\ publication[m] = "acknowledged" \/ (publication[m] = "pending" /\ m[2] <= committed[GroupOf(m[1])])
    => \E i \in 1..Len(topic) : topic[i].id = m

(* Whatever a Workbench Snapshot shows changes under a new generation:     *)
(* two snapshots of one generation are the same.                           *)
GenerationMoves ==
  [][Shown' # Shown => generation' > generation]_vars

(* Once made, a publication has the Twin State that is saved, delivered,   *)
(* or in the projector's hand; a flush takes the row and leaves the key.   *)
Phase(m) ==
  IF publication[m] # "none" THEN publication[m]
  ELSE IF TwinKey(m) \in processed THEN "withdrawn" ELSE "none"
StatesDelivered(m) == {topic[i].state : i \in {j \in 1..Len(topic) : topic[j].id = m}}
Content(m) ==
  IF publication[m] = "pending" THEN canonical[m]
  ELSE IF StatesDelivered(m) # {} THEN CHOOSE state \in StatesDelivered(m) : TRUE
  ELSE IF pc = "deliver" /\ m = message THEN built ELSE NoTwin

(* The projector, its restarts, the projections of its topic and a flush   *)
(* keep together what TwinPublications promises: a publication is made     *)
(* once, whatever becomes of its row (SaveTwinStatePublication), delivered *)
(* with the one Twin State it was given and acknowledged after that.       *)
Publications == INSTANCE TwinPublications WITH
                  Publications <- Messages, Contents <- States, NoContent <- NoTwin,
                  phase <- [m \in Messages |-> Phase(m)],
                  content <- [m \in Messages |-> Content(m)]
ImplementsPublications == Publications!Spec

(* A publication that was saved and flushed before it was acknowledged:    *)
(* its message can be neither published again nor resumed.                 *)
Wedged(s) ==
  LET m == <<s, committed[GroupOf(s)] + 1>>
  IN  m \in Messages /\ TwinKey(m) \in processed /\ publication[m] = "none"
Poisoned(s) ==
  LET o == committed[GroupOf(s)] + 1 IN o <= Len(Log[s]) /\ Garbled(s, o)
Consumed(s) == committed[GroupOf(s)] = Len(Log[s])

(* The projector consumes all of its sources in the end, over failures and *)
(* restarts, unless a message does not decode or a flush took its saved    *)
(* publication (RunTwinProjector).                                         *)
SourcesAreConsumed ==
  <>((\A s \in Sources : Consumed(s)) \/ \E s \in Sources : Wedged(s) \/ Poisoned(s))
===============================================================================
