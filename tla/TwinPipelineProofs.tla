-------------------------- MODULE TwinPipelineProofs --------------------------
(***************************************************************************)
(* What the Digital Twin pipeline delivers, commits and projects, for any  *)
(* tags, any logs of frames and results, and any number of flushes and     *)
(* faults.                                                                 *)
(***************************************************************************)
EXTENDS TwinPipeline, WellFoundedInduction, TLAPS

Pcs == {"idle", "resume", "project", "save", "canonical", "deliver",
        "acknowledge", "commit", "down"}
Events == [id : Messages, state : States]
Delivered(m) == \E i \in 1..Len(topic) : topic[i].id = m

(* What the tables and the topics hold.                                    *)
Stored ==
  /\ committed \in [Groups -> Nat]
  /\ topic \in Seq(Events)
  /\ rows \in [Messages -> Nat]
  /\ processed \subseteq Messages \cup {TwinKey(m) : m \in Messages}
  /\ publication \in [Messages -> {"none", "pending", "acknowledged"}]
  /\ canonical \in [Messages -> States]
  /\ twin \in States /\ generation \in Nat
  /\ lake \in [Messages -> {0, 1}]
(* What the projector holds.                                               *)
Memory ==
  /\ pc \in Pcs /\ source \in Sources /\ stopped \subseteq Sources
  /\ measured \in [Tags -> 0..Len(Measured)] /\ result \in 0..Len(Results)
  /\ built \in States
  /\ flushes \in 0..MaxFlushes /\ faults \in 0..MaxFaults
Types == Stored /\ Memory

(* The projector is at a message until it is committed.                    *)
AtMessage == pc \notin {"idle", "down"} => committed[GroupOf(source)] < Len(Log[source])

(* Nothing has a row, a publication or an event without a processed key,   *)
(* which outlives them.                                                    *)
Keys ==
  \A m \in Messages :
    /\ rows[m] > 0 => m \in processed
    /\ publication[m] # "none" => TwinKey(m) \in processed
    /\ Delivered(m) => TwinKey(m) \in processed

(* The events of a publication carry the Twin State that is saved for it.  *)
Canonical ==
  /\ \A i \in 1..Len(topic) :
       publication[topic[i].id] = "pending" => topic[i].state = canonical[topic[i].id]
  /\ DeliveredIsCanonical
  /\ \A m \in Messages : publication[m] = "pending" <=> canonical[m] # NoTwin

(* What the projector knows of its message between two calls.  A flush     *)
(* takes the publication at any moment; the key and the events it leaves.  *)
Unpublished == publication[message] = "none"
InHand ==
  /\ pc \in {"project", "save"} => Unpublished
  /\ pc \in {"save", "deliver"} => built # NoTwin
  /\ pc = "deliver" =>
       /\ TwinKey(message) \in processed
       /\ publication[message] = "pending" => built = canonical[message]
       /\ publication[message] # "acknowledged"
       /\ \A i \in 1..Len(topic) : topic[i].id = message => topic[i].state = built
  /\ pc = "acknowledge" => Delivered(message)
  /\ pc = "commit" => Unpublished \/ Delivered(message)

Settled == CommittedIsDelivered

IInv == Types /\ AtMessage /\ Keys /\ Canonical /\ InHand /\ Settled

-------------------------------------------------------------------------------
(* Messages, keys and consumer groups.                                     *)

LEMMA LogFacts ==
  /\ Len(Measured) \in Nat /\ Len(Results) \in Nat
  /\ \A s \in Sources : Len(Log[s]) \in Nat
  /\ \A o \in 1..Len(Measured) : Measured[o].tag \in Tags /\ Measured[o].at \in Nat
  /\ \A o \in 1..Len(Results) : Results[o].at \in Nat
  /\ Log["scada"] = Measured /\ Log["result"] = Results
<1>1. Log["scada"] = Measured /\ Log["result"] = Results
  BY DEF Log
<1>2. \A M, R : Measured \in Seq(M) /\ Results \in Seq(R) =>
        /\ Len(Measured) \in Nat /\ Len(Results) \in Nat
        /\ \A o \in 1..Len(Measured) : Measured[o] \in M
        /\ \A o \in 1..Len(Results) : Results[o] \in R
  OBVIOUS
<1>3. /\ Len(Measured) \in Nat /\ Len(Results) \in Nat
      /\ \A o \in 1..Len(Measured) : Measured[o] \in [tag : Tags, at : Nat, dynamic : BOOLEAN]
      /\ \A o \in 1..Len(Results) : Results[o] \in [at : Nat, decodes : BOOLEAN]
  BY <1>2, LogAssumption
<1> QED
  BY <1>1, <1>3 DEF Sources

LEMMA MessageFacts ==
  /\ \A s \in Sources : \A o \in 1..Len(Log[s]) : <<s, o>> \in Messages
  /\ \A m \in Messages : /\ m = <<m[1], m[2]>> /\ m[1] \in Sources
                         /\ m[2] \in 1..Len(Log[m[1]]) /\ m[2] \in Nat
                         /\ m[1] = "scada" => m[2] \in 1..Len(Measured)
                         /\ m[1] = "result" => m[2] \in 1..Len(Results)
  /\ \A o \in 1..Len(Measured) : <<"scada", o>> \in Messages
  /\ \A o \in 1..Len(Results) : <<"result", o>> \in Messages
BY LogFacts DEF Messages, Sources

LEMMA KeyFacts ==
  /\ \A m, n \in Messages : TwinKey(m) = TwinKey(n) => m = n
  /\ \A m, n \in Messages : TwinKey(m) # n
BY DEF Messages, TwinKey

LEMMA GroupFacts ==
  /\ \A s \in Sources : GroupOf(s) \in Groups /\ GroupOf(s) \notin Consumers
  /\ \A s, t \in Sources : GroupOf(s) = GroupOf(t) => s = t
  /\ Consumers \subseteq Groups
BY DEF Groups, GroupOf, Sources, Consumers

(* The projector is at a message of a log.                                 *)
LEMMA AtAMessage ==
  ASSUME Types, AtMessage, pc \notin {"idle", "down"}
  PROVE  /\ message \in Messages
         /\ message[1] = source /\ message[2] = committed[GroupOf(source)] + 1
         /\ committed[GroupOf(source)] \in Nat
<1>1. /\ source \in Sources /\ committed[GroupOf(source)] \in Nat
      /\ committed[GroupOf(source)] < Len(Log[source])
  BY GroupFacts DEF Types, Stored, Memory, AtMessage
<1>2. committed[GroupOf(source)] + 1 \in 1..Len(Log[source])
  BY <1>1, LogFacts
<1> QED
  BY <1>1, <1>2, MessageFacts DEF message

LEMMA NoTwinType == NoTwin \in States /\ NoFrame \in [Tags -> 0..Len(Measured)]
BY LogFacts DEF NoTwin, TwinState, NoFrame, None, States

LEMMA TopicFacts ==
  ASSUME Types
  PROVE  /\ Len(topic) \in Nat
         /\ \A i \in 1..Len(topic) : /\ topic[i] \in Events
                                     /\ topic[i].id \in Messages /\ topic[i].state \in States
<1>1. \A E : topic \in Seq(E) => Len(topic) \in Nat /\ \A i \in 1..Len(topic) : topic[i] \in E
  OBVIOUS
<1>2. Len(topic) \in Nat /\ \A i \in 1..Len(topic) : topic[i] \in Events
  BY <1>1 DEF Types, Stored
<1> QED
  BY <1>2 DEF Events

(* The newest of some messages of a log is one of them: by the least n     *)
(* such that some of the first n messages have no newest among them.       *)
LEMMA LatestType ==
  ASSUME NEW log, NEW n \in Nat, \A o \in 1..n : log[o].at \in Nat,
         NEW stored \in SUBSET (1..n)
  PROVE  Latest(log, stored) \in 0..n
<1> DEFINE Newest(p, S) == p \in S /\ \A q \in S : Newer(log, q, p)
           Bad == {k \in 0..n : \E S \in SUBSET (1..k) : S # {} /\ ~\E p \in S : Newest(p, S)}
<1>1. \A p, q, r \in 1..n :
        /\ Newer(log, p, q) /\ Newer(log, q, r) => Newer(log, p, r)
        /\ Newer(log, p, q) \/ Newer(log, q, p)
        /\ Newer(log, p, p)
  BY DEF Newer
<1> HIDE DEF Newest
<1>2. Bad = {}
  <2> SUFFICES ASSUME Bad # {} PROVE FALSE
    OBVIOUS
  <2>0. Bad \subseteq Nat
    OBVIOUS
  <2>1. PICK k \in Bad : \A j \in Bad : ~(<<j, k>> \in OpToRel(<, Nat))
    <3> HIDE DEF Bad
    <3> QED
      BY <2>0, NatLessThanWellFounded, WFMin
  <2>2. \A j \in Bad : ~(j < k)
    BY <2>0, <2>1 DEF OpToRel
  <2>3. PICK S \in SUBSET (1..k) : S # {} /\ ~\E p \in S : Newest(p, S)
    BY <2>1
  <2>4. k \in 1..n
    <3>1. k \in 0..n
      BY <2>1
    <3>2. \E x \in S : x \in 1..k
      BY <2>3
    <3> QED
      BY <3>1, <3>2
  <2>5. S \ {k} \in SUBSET (1..(k - 1)) /\ k - 1 \in 0..n /\ k - 1 < k
    BY <2>4, <2>3
  <2>6. S \ {k} = {} \/ \E p \in S \ {k} : Newest(p, S \ {k})
    BY <2>2, <2>5
  <2>7. k \in S
    BY <2>3, <2>6
  <2>8. CASE S \ {k} = {}
    BY <2>8, <2>7, <2>3, <2>4, <1>1 DEF Newest
  <2>9. CASE \E p \in S \ {k} : Newest(p, S \ {k})
    <3>1. PICK p \in S \ {k} : Newest(p, S \ {k})
      BY <2>9
    <3>2. S \subseteq 1..n /\ p \in 1..n
      BY <2>4, <3>1
    <3>3. CASE Newer(log, p, k)
      BY <3>1, <3>2, <3>3, <2>3, <2>4, <2>7, <1>1 DEF Newest
    <3>4. CASE Newer(log, k, p)
      BY <3>1, <3>2, <3>4, <2>3, <2>4, <2>7, <1>1 DEF Newest
    <3> QED
      BY <3>3, <3>4, <3>2, <2>4, <1>1
  <2> QED
    BY <2>6, <2>8, <2>9
<1>3. stored # {} => \E p \in stored : \A q \in stored : Newer(log, q, p)
  <2>1. n \in 0..n /\ n \notin Bad
    BY <1>2
  <2>2. stored # {} => \E p \in stored : Newest(p, stored)
    BY <2>1
  <2> QED
    BY <2>2 DEF Newest
<1> HIDE DEF Bad
<1>4. CASE stored = {}
  BY <1>4 DEF Latest, None
<1>5. CASE stored # {}
  <2>1. Latest(log, stored) \in stored
    BY <1>3, <1>5 DEF Latest
  <2>2. stored \subseteq 0..n
    OBVIOUS
  <2> QED
    BY <2>1, <2>2
<1> QED
  BY <1>4, <1>5

LEMMA ShownType ==
  ASSUME Types
  PROVE  Shown.measured \in [Tags -> 0..Len(Measured)] /\ Shown.result \in 0..Len(Results)
<1>1. \A t \in Tags : StoredFrames(t) \in SUBSET (1..Len(Measured))
  BY DEF StoredFrames
<1>2. \A t \in Tags : Latest(Measured, StoredFrames(t)) \in 0..Len(Measured)
  BY <1>1, LatestType, LogFacts
<1>3. StoredResults \in SUBSET (1..Len(Results))
  BY DEF StoredResults
<1>4. Latest(Results, StoredResults) \in 0..Len(Results)
  BY <1>3, LatestType, LogFacts
<1> QED
  BY <1>2, <1>4 DEF Shown

LEMMA InitHolds == Init => IInv
<1> SUFFICES ASSUME Init PROVE IInv
  OBVIOUS
<1>1. Types
  BY NoTwinType, BoundsAssumption, MessageFacts
  DEF Init, Types, Stored, Memory, Pcs, Sources, None, NoTwin
<1>2. AtMessage /\ Keys /\ Canonical /\ InHand /\ Settled
  BY <1>1 DEF Init, AtMessage, Keys, Canonical, InHand, Settled, DeliveredIsCanonical,
     CommittedIsDelivered, Delivered
<1> QED
  BY <1>1, <1>2 DEF IInv

-------------------------------------------------------------------------------
(* What the transactions of the store keep.                                *)

LEMMA SaveFrameHolds ==
  ASSUME Stored, Keys, NEW m \in Messages, SaveFrame(m)
  PROVE  /\ UNCHANGED <<publication, canonical, twin>>
         /\ rows' \in [Messages -> Nat] /\ generation' \in Nat
         /\ processed \subseteq processed'
         /\ processed' \subseteq Messages \cup {TwinKey(k) : k \in Messages}
         /\ \A k \in Messages : rows'[k] > 0 => k \in processed'
<1>1. CASE m \in processed
  BY <1>1 DEF Stored, Keys, SaveFrame, postgres
<1>2. CASE m \notin processed
  <2>1. /\ rows' = [rows EXCEPT ![m] = @ + 1] /\ generation' = generation + 1
        /\ processed' = processed \cup {m} /\ UNCHANGED <<publication, canonical, twin>>
    BY <1>2 DEF SaveFrame, AdvanceGeneration
  <2> QED
    BY <2>1 DEF Stored, Keys
<1> QED
  BY <1>1, <1>2

LEMMA SaveProjectionHolds ==
  ASSUME Stored, NEW m \in Messages, NEW state \in States, SaveTwinStateProjection(m, state)
  PROVE  /\ UNCHANGED <<rows, publication, canonical>>
         /\ twin' \in States /\ generation' \in Nat
         /\ processed \subseteq processed'
         /\ processed' \subseteq Messages \cup {TwinKey(k) : k \in Messages}
<1>1. CASE TwinKey(m) \in processed
  BY <1>1 DEF Stored, SaveTwinStateProjection, postgres
<1>2. CASE TwinKey(m) \notin processed
  BY <1>2 DEF Stored, SaveTwinStateProjection, SaveTwin, AdvanceGeneration
<1> QED
  BY <1>1, <1>2

LEMMA SavePublicationHolds ==
  ASSUME Stored, NEW m \in Messages, NEW state \in States, SaveTwinStatePublication(m, state)
  PROVE  /\ UNCHANGED rows
         /\ twin' \in States /\ generation' \in Nat
         /\ processed \subseteq processed'
         /\ processed' \subseteq Messages \cup {TwinKey(k) : k \in Messages}
         /\ TwinKey(m) \in processed'
         /\ publication' \in [Messages -> {"none", "pending", "acknowledged"}]
         /\ canonical' \in [Messages -> States]
         /\ \A k \in Messages :
              \/ publication'[k] = publication[k] /\ canonical'[k] = canonical[k]
              \/ /\ k = m /\ TwinKey(m) \notin processed
                 /\ publication'[k] = "pending" /\ canonical'[k] = state
<1>1. CASE TwinKey(m) \in processed
  BY <1>1 DEF Stored, SaveTwinStatePublication, postgres
<1>2. CASE TwinKey(m) \notin processed
  <2>1. /\ UNCHANGED rows /\ twin' = state /\ generation' = generation + 1
        /\ processed' = processed \cup {TwinKey(m)}
        /\ publication' = [publication EXCEPT ![m] = "pending"]
        /\ canonical' = [canonical EXCEPT ![m] = state]
    BY <1>2 DEF SaveTwinStatePublication, SaveTwin, AdvanceGeneration
  <2>2. /\ publication \in [Messages -> {"none", "pending", "acknowledged"}]
        /\ canonical \in [Messages -> States] /\ generation \in Nat
        /\ processed \subseteq Messages \cup {TwinKey(k) : k \in Messages}
    BY DEF Stored
  <2>3. processed' \subseteq Messages \cup {TwinKey(k) : k \in Messages}
    BY <2>1, <2>2
  <2>4. /\ publication' \in [Messages -> {"none", "pending", "acknowledged"}]
        /\ canonical' \in [Messages -> States]
        /\ \A k \in Messages :
             \/ publication'[k] = publication[k] /\ canonical'[k] = canonical[k]
             \/ k = m /\ publication'[k] = "pending" /\ canonical'[k] = state
    BY <2>1, <2>2
  <2> QED
    BY <1>2, <2>1, <2>2, <2>3, <2>4
<1> QED
  BY <1>1, <1>2

LEMMA AcknowledgeHolds ==
  ASSUME Stored, NEW m \in Messages, AcknowledgePublication(m)
  PROVE  /\ UNCHANGED <<rows, processed, twin, generation>>
         /\ publication' \in [Messages -> {"none", "pending", "acknowledged"}]
         /\ canonical' \in [Messages -> States]
         /\ \A k \in Messages : k # m => publication'[k] = publication[k] /\ canonical'[k] = canonical[k]
         /\ publication'[m] = IF publication[m] = "none" THEN "none" ELSE "acknowledged"
         /\ canonical'[m] = NoTwin
<1> HIDE DEF NoTwin
<1> QED
  BY NoTwinType DEF Stored, AcknowledgePublication

(* The projector's own offsets, which no projection and no lake moves.     *)
OwnOffsets == \A s \in Sources : committed'[GroupOf(s)] = committed[GroupOf(s)]

(* Canonical and Settled read the topic, the publications, the saved       *)
(* states and the projector's offsets only.                                *)
LEMMA Untouched ==
  ASSUME IInv, UNCHANGED <<topic, publication, canonical>>, OwnOffsets,
         processed \subseteq processed',
         \A m \in Messages : rows'[m] > 0 => m \in processed'
  PROVE  Keys' /\ Canonical' /\ Settled'
<1>1. Keys'
  BY DEF IInv, Keys, Delivered
<1>2. Canonical'
  BY DEF IInv, Canonical, DeliveredIsCanonical
<1>3. Settled'
  BY MessageFacts DEF IInv, Settled, CommittedIsDelivered, OwnOffsets
<1> QED
  BY <1>1, <1>2, <1>3

(* What others do of the projector's message leaves what it knows true.    *)
LEMMA OthersLeaveInHand ==
  ASSUME IInv, UNCHANGED <<projector, topic>>, OwnOffsets,
         processed \subseteq processed',
         \A m \in Messages : \/ publication'[m] = publication[m] /\ canonical'[m] = canonical[m]
                             \/ publication'[m] = "none"
  PROVE  AtMessage' /\ InHand'
<1>1. /\ pc' = pc /\ built' = built /\ source' = source /\ source \in Sources
      /\ message' = message
  BY DEF projector, message, IInv, Types, Memory, OwnOffsets
<1>2. AtMessage'
  BY <1>1 DEF IInv, AtMessage, OwnOffsets
<1>3. InHand'
  <2>1. pc \notin {"idle", "down"} => message \in Messages
    BY AtAMessage DEF IInv
  <2> QED
    BY <1>1, <2>1 DEF IInv, InHand, Unpublished, Delivered
<1> QED
  BY <1>2, <1>3

-------------------------------------------------------------------------------
(* The actions, one by one.                                                *)

LEMMA ConsumeHolds ==
  ASSUME IInv, NEW c \in Consumers, Consume(c)
  PROVE  IInv'
<1>1. /\ Waiting(c) /\ Store(c) /\ UNCHANGED <<topic, projector, flushes>>
      /\ \/ UNCHANGED faults /\ committed' = [committed EXCEPT ![c] = @ + 1]
         \/ faults < MaxFaults /\ faults' = faults + 1 /\ UNCHANGED committed
  BY DEF Consume, Fault, NoFault
<1>2. c \in Groups /\ committed[c] \in Nat /\ Types
  BY GroupFacts DEF IInv, Types, Stored
<1>3. committed' \in [Groups -> Nat] /\ OwnOffsets
  BY <1>1, <1>2, GroupFacts DEF Types, Stored, OwnOffsets
<1>4. Memory'
  BY <1>1, <1>2, BoundsAssumption DEF Types, Memory, projector
<1>5. c \in Sources => NextOf(c) \in 1..Len(Log[c]) /\ <<c, NextOf(c)>> \in Messages
  BY <1>1, <1>2, LogFacts, MessageFacts DEF Waiting, NextOf
<1>6. c \notin Sources => Event(c).id \in Messages /\ Event(c).state \in States
  <2>1. c \notin Sources => NextOf(c) \in 1..Len(topic)
    BY <1>1, <1>2, TopicFacts DEF Waiting, NextOf
  <2> QED
    BY <2>1, <1>2, TopicFacts DEF Event
<1>7. /\ UNCHANGED <<publication, canonical>> /\ processed \subseteq processed'
      /\ processed' \subseteq Messages \cup {TwinKey(k) : k \in Messages}
      /\ rows' \in [Messages -> Nat] /\ twin' \in States /\ generation' \in Nat
      /\ lake' \in [Messages -> {0, 1}]
      /\ \A k \in Messages : rows'[k] > 0 => k \in processed'
  <2>1. CASE c \in Sources
    <3>1. SaveFrame(<<c, NextOf(c)>>) /\ UNCHANGED lake
      BY <1>1, <2>1 DEF Store, Sources
    <3> QED
      BY <3>1, <1>5, <2>1, SaveFrameHolds DEF IInv, Types, Stored
  <2>2. CASE c = "twin"
    <3>1. SaveTwinStateProjection(Event(c).id, Event(c).state) /\ UNCHANGED lake
      BY <1>1, <2>2 DEF Store, Sources
    <3>2. c \notin Sources
      BY <2>2 DEF Sources
    <3> QED
      BY <3>1, <3>2, <1>6, SaveProjectionHolds DEF IInv, Types, Stored, Keys
  <2>3. CASE c = "lake"
    <3>1. AppendTwin(Event(c).id) /\ UNCHANGED postgres
      BY <1>1, <2>3 DEF Store, Sources
    <3>2. c \notin Sources
      BY <2>3 DEF Sources
    <3>3. lake' \in [Messages -> {0, 1}]
      BY <3>1, <3>2, <1>6 DEF AppendTwin, IInv, Types, Stored
    <3> QED
      BY <3>1, <3>3 DEF postgres, IInv, Types, Stored, Keys
  <2> QED
    BY <2>1, <2>2, <2>3 DEF Consumers, Sources
<1>8. Types'
  BY <1>1, <1>2, <1>3, <1>4, <1>7 DEF Types, Stored
<1>9. Keys' /\ Canonical' /\ Settled'
  BY <1>1, <1>3, <1>7, Untouched
<1>10. AtMessage' /\ InHand'
  BY <1>1, <1>3, <1>7, OthersLeaveInHand
<1> QED
  BY <1>8, <1>9, <1>10 DEF IInv

LEMMA FlushHolds ==
  ASSUME IInv, Flush
  PROVE  IInv'
<1>1. /\ flushes < MaxFlushes /\ flushes' = flushes + 1
      /\ rows' = [m \in Messages |-> 0] /\ publication' = [m \in Messages |-> "none"]
      /\ canonical' = [m \in Messages |-> NoTwin] /\ twin' = NoTwin
      /\ generation' = generation + 1
      /\ UNCHANGED <<processed, committed, topic, lake, projector, faults>>
  BY DEF Flush, AdvanceGeneration
<1> HIDE DEF NoTwin
<1>2. Types'
  <2>1. Stored'
    BY <1>1, NoTwinType DEF IInv, Types, Stored
  <2>2. Memory'
    BY <1>1, BoundsAssumption DEF IInv, Types, Memory, projector
  <2> QED
    BY <2>1, <2>2 DEF Types
<1>3. OwnOffsets
  BY <1>1 DEF OwnOffsets
<1>4. AtMessage' /\ InHand'
  BY <1>1, <1>3, OthersLeaveInHand
<1>5. Keys'
  BY <1>1 DEF IInv, Keys, Delivered
<1>6. Canonical'
  <2>1. Types
    BY DEF IInv
  <2> QED
    BY <1>1, <2>1, TopicFacts DEF IInv, Canonical, DeliveredIsCanonical
<1>7. Settled'
  BY <1>1 DEF Settled, CommittedIsDelivered
<1> QED
  BY <1>2, <1>4, <1>5, <1>6, <1>7 DEF IInv

LEMMA PruneHolds ==
  ASSUME IInv, PruneDynamicMeasured
  PROVE  IInv'
<1>1. PICK expired :
        /\ rows' = [m \in Messages |-> IF m \in expired THEN 0 ELSE rows[m]]
        /\ generation' = generation + 1
        /\ UNCHANGED <<processed, publication, canonical, twin, committed, topic, lake,
                       projector, bounds>>
  BY DEF PruneDynamicMeasured, AdvanceGeneration
<1>2. Types'
  BY <1>1 DEF IInv, Types, Stored, Memory, projector, bounds
<1>3. OwnOffsets
  BY <1>1 DEF OwnOffsets
<1>4. \A m \in Messages : rows'[m] > 0 => m \in processed'
  BY <1>1 DEF IInv, Keys
<1>5. Keys' /\ Canonical' /\ Settled'
  BY <1>1, <1>3, <1>4, Untouched
<1>6. AtMessage' /\ InHand'
  BY <1>1, <1>3, OthersLeaveInHand
<1> QED
  BY <1>2, <1>5, <1>6 DEF IInv

(* The steps of the projector that only read the store: what the tables    *)
(* and the topics hold is as it was.                                       *)
LEMMA ReadingHolds ==
  ASSUME IInv, UNCHANGED <<committed, topic, postgres, lake>>
  PROVE  Stored' /\ Keys' /\ Canonical' /\ Settled'
<1>1. Stored'
  BY DEF IInv, Types, Stored, postgres
<1>2. OwnOffsets
  BY DEF OwnOffsets
<1>3. UNCHANGED <<processed, rows, publication, canonical>>
  BY DEF postgres
<1>4. \A m \in Messages : rows'[m] > 0 => m \in processed'
  BY <1>3 DEF IInv, Keys
<1> QED
  BY <1>1, <1>2, <1>3, <1>4, Untouched

(* A failed call: the consumer of the source has ended.                    *)
LEMMA FailHolds ==
  ASSUME IInv, Fail, UNCHANGED flushes, NoFault \/ Fault
  PROVE  Memory' /\ AtMessage' /\ InHand'
<1>1. Memory'
  BY BoundsAssumption DEF IInv, Types, Memory, Fail, Goto, Fault, NoFault, Pcs
<1> QED
  BY <1>1 DEF Fail, Goto, AtMessage, InHand

LEMMA BeginHolds ==
  ASSUME IInv, NEW s \in Sources, Begin(s)
  PROVE  IInv'
<1>1. /\ committed[GroupOf(s)] < Len(Log[s]) /\ source' = s /\ pc' = "resume"
      /\ UNCHANGED <<committed, topic, postgres, lake, measured, result, built, stopped, bounds>>
  BY DEF Begin, Goto
<1>2. Memory'
  BY <1>1 DEF IInv, Types, Memory, Pcs, bounds
<1>3. AtMessage' /\ InHand'
  BY <1>1 DEF AtMessage, InHand
<1> QED
  BY <1>1, <1>2, <1>3, ReadingHolds DEF IInv, Types

(* What follows from a publication that was found for the message.         *)
LEMMA FollowHolds ==
  ASSUME IInv, pc \in {"resume", "canonical"}, Follow, publication[message] # "none",
         UNCHANGED <<committed, topic, postgres, lake, flushes, faults>>
  PROVE  IInv'
<1>1. message \in Messages
  BY AtAMessage DEF IInv
<1>2. /\ pc' = IF publication[message] = "acknowledged" THEN "acknowledge" ELSE "deliver"
      /\ built' = canonical[message]
      /\ UNCHANGED <<source, measured, result, stopped>>
  BY DEF Follow, Goto
<1>3. Memory'
  BY <1>1, <1>2 DEF IInv, Types, Stored, Memory, Pcs
<1>4. AtMessage'
  BY <1>2 DEF IInv, AtMessage
<1>5. message' = message /\ UNCHANGED <<processed, publication, canonical>>
  BY <1>2 DEF message, postgres
<1>6. publication[message] = "acknowledged" => Delivered(message)
  BY <1>1 DEF IInv, Settled, CommittedIsDelivered, Delivered
<1>7. publication[message] # "acknowledged" =>
        publication[message] = "pending" /\ TwinKey(message) \in processed
        /\ canonical[message] # NoTwin
  BY <1>1 DEF IInv, Types, Stored, Keys, Canonical
<1>8. InHand'
  BY <1>2, <1>5, <1>6, <1>7 DEF IInv, Canonical, InHand, Delivered, NoTwin
<1> QED
  BY <1>3, <1>4, <1>8, ReadingHolds DEF IInv, Types

LEMMA ResumeHolds ==
  ASSUME IInv, Resume
  PROVE  IInv'
<1>1. pc = "resume" /\ UNCHANGED <<committed, topic, postgres, lake, flushes>>
  BY DEF Resume
<1>2. CASE NoFault /\ publication[message] # "none" /\ Follow
  BY <1>1, <1>2, FollowHolds DEF NoFault
<1>3. CASE /\ NoFault /\ publication[message] = "none"
           /\ Goto("project") /\ UNCHANGED <<source, measured, result, built, stopped>>
  <2>1. Memory' /\ AtMessage'
    BY <1>1, <1>3 DEF IInv, Types, Memory, AtMessage, Goto, Pcs, NoFault
  <2>2. InHand'
    BY <1>1, <1>3 DEF InHand, Goto, Unpublished, message, postgres
  <2> QED
    BY <1>1, <2>1, <2>2, ReadingHolds DEF IInv, Types
<1>4. CASE Fault /\ Fail
  BY <1>1, <1>4, FailHolds, ReadingHolds DEF IInv, Types
<1> QED
  BY <1>2, <1>3, <1>4 DEF Resume

LEMMA ReadCanonicalHolds ==
  ASSUME IInv, ReadCanonical
  PROVE  IInv'
<1>1. pc = "canonical" /\ UNCHANGED <<committed, topic, postgres, lake, flushes>>
  BY DEF ReadCanonical
<1>2. CASE NoFault /\ publication[message] # "none" /\ Follow
  BY <1>1, <1>2, FollowHolds DEF NoFault
<1>3. CASE (NoFault \/ Fault) /\ Fail
  BY <1>1, <1>3, FailHolds, ReadingHolds DEF IInv, Types
<1> QED
  BY <1>2, <1>3 DEF ReadCanonical

(* A Twin State is built once there are a measurement and a result.        *)
LEMMA ProjectHolds ==
  ASSUME IInv, Project
  PROVE  IInv'
<1> DEFINE o == message[2]
<1>1. pc = "project" /\ UNCHANGED <<committed, topic, postgres, lake, bounds>>
  BY DEF Project
<1>2. CASE Garbled(source, o) /\ Fail
  BY <1>1, <1>2, FailHolds, ReadingHolds DEF IInv, Types, bounds, NoFault
<1>3. CASE /\ measured' = IF source = "scada" THEN [measured EXCEPT ![Measured[o].tag] = o] ELSE measured
           /\ result' = IF source = "result" THEN o ELSE result
           /\ IF measured' # NoFrame /\ result' # None
              THEN built' = TwinState(measured', result') /\ Goto("save")
              ELSE Goto("commit") /\ UNCHANGED built
           /\ UNCHANGED <<source, stopped>>
  <2>1. message \in Messages /\ message[1] = source
    BY <1>1, AtAMessage DEF IInv
  <2>2. measured' \in [Tags -> 0..Len(Measured)] /\ result' \in 0..Len(Results)
    BY <1>3, <2>1, MessageFacts, LogFacts DEF IInv, Types, Memory
  <2>3. built' \in States /\ (pc' = "save" => built' # NoTwin)
    <3>1. CASE measured' # NoFrame /\ result' # None
      <4>1. built' = [measured |-> measured', result |-> result']
        BY <1>3, <3>1 DEF TwinState
      <4>2. NoTwin.measured = NoFrame
        BY DEF NoTwin, TwinState
      <4> QED
        BY <4>1, <4>2, <2>2, <3>1 DEF States
    <3>2. CASE ~(measured' # NoFrame /\ result' # None)
      BY <1>3, <3>2 DEF Goto, IInv, Types, Memory
    <3> QED
      BY <3>1, <3>2
  <2>4. Memory'
    BY <1>1, <1>3, <2>2, <2>3 DEF IInv, Types, Memory, Goto, Pcs, bounds
  <2>5. AtMessage'
    BY <1>1, <1>3 DEF IInv, AtMessage
  <2>6. InHand'
    <3>1. message' = message /\ publication' = publication
      BY <1>1, <1>3 DEF message, postgres
    <3>2. Unpublished'
      BY <1>1, <3>1 DEF IInv, InHand, Unpublished
    <3>3. pc' \in {"save", "commit"}
      BY <1>3 DEF Goto
    <3> QED
      BY <2>3, <3>2, <3>3 DEF InHand
  <2> QED
    BY <1>1, <2>4, <2>5, <2>6, ReadingHolds DEF IInv, Types
<1> QED
  BY <1>2, <1>3 DEF Project

LEMMA DownHolds ==
  ASSUME IInv, Exit \/ Crash
  PROVE  IInv'
<1>1. Down /\ (NoFault \/ Fault)
  BY DEF Exit, Crash
<1>2. Memory'
  BY <1>1, NoTwinType, LogFacts, BoundsAssumption
  DEF IInv, Types, Memory, Down, Goto, Fault, NoFault, Pcs, Sources, None
<1>3. AtMessage' /\ InHand'
  BY <1>1 DEF AtMessage, InHand, Down, Goto
<1> QED
  BY <1>1, <1>2, <1>3, ReadingHolds DEF IInv, Types, Down

LEMMA RestartHolds ==
  ASSUME IInv, Restart
  PROVE  IInv'
<1>1. Memory'
  BY ShownType DEF IInv, Types, Memory, Restart, Goto, Pcs, bounds
<1>2. AtMessage' /\ InHand'
  BY DEF AtMessage, InHand, Restart, Goto
<1> QED
  BY <1>1, <1>2, ReadingHolds DEF IInv, Types, Restart

(* A publication is saved once per key, so that none of its events is on   *)
(* the topic before.                                                       *)
LEMMA SavedHolds ==
  ASSUME IInv, pc = "save", SaveTwinStatePublication(message, built),
         UNCHANGED <<committed, topic, lake>>
  PROVE  Stored' /\ Keys' /\ Canonical' /\ Settled'
<1>1. /\ message \in Messages /\ message[1] = source
      /\ message[2] = committed[GroupOf(source)] + 1 /\ committed[GroupOf(source)] \in Nat
  BY AtAMessage DEF IInv
<1>2. built \in States /\ built # NoTwin /\ publication[message] = "none"
  BY DEF IInv, Types, Memory, InHand, Unpublished
<1>3. /\ UNCHANGED rows
      /\ twin' \in States /\ generation' \in Nat
      /\ processed \subseteq processed'
      /\ processed' \subseteq Messages \cup {TwinKey(k) : k \in Messages}
      /\ TwinKey(message) \in processed'
      /\ publication' \in [Messages -> {"none", "pending", "acknowledged"}]
      /\ canonical' \in [Messages -> States]
      /\ \A k \in Messages :
           \/ publication'[k] = publication[k] /\ canonical'[k] = canonical[k]
           \/ /\ k = message /\ TwinKey(message) \notin processed
              /\ publication'[k] = "pending" /\ canonical'[k] = built
  BY <1>1, <1>2, SavePublicationHolds DEF IInv, Types
<1>4. Stored'
  BY <1>3 DEF IInv, Types, Stored
<1>5. Keys'
  BY <1>3 DEF IInv, Keys, Delivered
<1>6. Canonical'
  <2>1. TwinKey(message) \notin processed => \A i \in 1..Len(topic) : topic[i].id # message
    BY <1>1 DEF IInv, Keys, Delivered
  <2>2. \A i \in 1..Len(topic) : topic[i].id \in Messages
    BY TopicFacts DEF IInv
  <2>3. \A i \in 1..Len(topic) :
          publication'[topic[i].id] = "pending" => topic[i].state = canonical'[topic[i].id]
    BY <1>3, <2>1, <2>2 DEF IInv, Canonical
  <2>4. \A m \in Messages : publication'[m] = "pending" <=> canonical'[m] # NoTwin
    BY <1>2, <1>3 DEF IInv, Canonical
  <2> QED
    BY <2>3, <2>4 DEF IInv, Canonical, DeliveredIsCanonical, NoTwin
<1>7. Settled'
  <2> SUFFICES ASSUME NEW m \in Messages,
                      \/ publication'[m] = "acknowledged"
                      \/ publication'[m] = "pending" /\ m[2] <= committed[GroupOf(m[1])]
               PROVE  \E i \in 1..Len(topic) : topic[i].id = m
    BY DEF Settled, CommittedIsDelivered
  <2>1. publication'[m] = publication[m]
    BY <1>1, <1>3
  <2> QED
    BY <2>1 DEF IInv, Settled, CommittedIsDelivered
<1> QED
  BY <1>4, <1>5, <1>6, <1>7

LEMMA SaveHolds ==
  ASSUME IInv, Save
  PROVE  IInv'
<1>1. pc = "save" /\ UNCHANGED <<committed, topic, lake, flushes>>
  BY DEF Save
<1>2. CASE /\ NoFault /\ SaveTwinStatePublication(message, built)
           /\ Goto("canonical") /\ UNCHANGED <<source, measured, result, built, stopped>>
  <2>1. Memory'
    BY <1>1, <1>2 DEF IInv, Types, Memory, Goto, Pcs, NoFault
  <2>2. AtMessage' /\ InHand'
    BY <1>1, <1>2 DEF IInv, AtMessage, InHand, Goto
  <2> QED
    BY <1>1, <1>2, <2>1, <2>2, SavedHolds DEF IInv, Types
<1>3. CASE Fault /\ Fail /\ (SaveTwinStatePublication(message, built) \/ UNCHANGED postgres)
  BY <1>1, <1>3, FailHolds, SavedHolds, ReadingHolds DEF IInv, Types
<1> QED
  BY <1>2, <1>3 DEF Save

(* An event more on the Twin topic: the saved one, if it is still saved.   *)
LEMMA DeliveredHolds ==
  ASSUME IInv, pc = "deliver", topic' = Append(topic, [id |-> message, state |-> built]),
         UNCHANGED <<committed, postgres, lake>>
  PROVE  /\ Stored' /\ Keys' /\ Canonical' /\ Settled'
         /\ \E i \in 1..Len(topic') : topic'[i].id = message
<1> DEFINE event == [id |-> message, state |-> built]
<1>1. message \in Messages /\ event \in Events
  BY AtAMessage DEF IInv, Types, Memory, Events
<1>2. UNCHANGED <<rows, processed, publication, canonical, twin, generation>>
  BY DEF postgres
<1>3. /\ topic' \in Seq(Events) /\ Len(topic) \in Nat /\ Len(topic') = Len(topic) + 1
      /\ \A i \in 1..Len(topic) : topic'[i] = topic[i]
      /\ topic'[Len(topic) + 1] = event
  BY <1>1 DEF IInv, Types, Stored
<1>4. event.id = message /\ event.state = built
  OBVIOUS
<1> HIDE DEF event
<1>5. \A i \in 1..Len(topic') : \/ i \in 1..Len(topic) /\ topic'[i] = topic[i]
                                \/ topic'[i] = event
  BY <1>3
<1>6. \A m \in Messages : (\E i \in 1..Len(topic) : topic[i].id = m)
                          => \E i \in 1..Len(topic') : topic'[i].id = m
  BY <1>3
<1>7. \E i \in 1..Len(topic') : topic'[i].id = message
  BY <1>3, <1>4
<1>8. Stored'
  BY <1>2, <1>3 DEF IInv, Types, Stored
<1>9. Keys'
  BY <1>2, <1>4, <1>5 DEF IInv, Keys, InHand, Delivered
<1>10. Canonical'
  BY <1>1, <1>2, <1>4, <1>5 DEF IInv, Canonical, DeliveredIsCanonical, InHand
<1>11. Settled'
  BY <1>2, <1>6 DEF IInv, Settled, CommittedIsDelivered
<1> QED
  BY <1>7, <1>8, <1>9, <1>10, <1>11

LEMMA DeliverHolds ==
  ASSUME IInv, Deliver
  PROVE  IInv'
<1> DEFINE event == [id |-> message, state |-> built]
<1>1. pc = "deliver" /\ UNCHANGED <<committed, postgres, lake, flushes>>
  BY DEF Deliver
<1>2. CASE /\ NoFault /\ topic' = Append(topic, event)
           /\ Goto("acknowledge") /\ UNCHANGED <<source, measured, result, built, stopped>>
  <2>1. Memory' /\ AtMessage'
    BY <1>1, <1>2 DEF IInv, Types, Memory, AtMessage, Goto, Pcs, NoFault
  <2>2. message' = message
    BY <1>1, <1>2 DEF message
  <2>3. InHand'
    BY <1>1, <1>2, <2>2, DeliveredHolds DEF InHand, Goto, Delivered
  <2> QED
    BY <1>1, <1>2, <2>1, <2>3, DeliveredHolds DEF IInv, Types
<1>3. CASE Fault /\ Fail /\ topic' \in {topic, Append(topic, event)}
  BY <1>1, <1>3, FailHolds, DeliveredHolds, ReadingHolds DEF IInv, Types
<1> QED
  BY <1>2, <1>3 DEF Deliver

LEMMA AcknowledgedHolds ==
  ASSUME IInv, pc = "acknowledge", AcknowledgePublication(message),
         UNCHANGED <<committed, topic, lake>>
  PROVE  Stored' /\ Keys' /\ Canonical' /\ Settled'
<1>1. message \in Messages /\ Delivered(message)
  BY AtAMessage DEF IInv, InHand
<1>2. /\ UNCHANGED <<rows, processed, twin, generation>>
      /\ publication' \in [Messages -> {"none", "pending", "acknowledged"}]
      /\ canonical' \in [Messages -> States]
      /\ \A k \in Messages :
           k # message => publication'[k] = publication[k] /\ canonical'[k] = canonical[k]
      /\ publication'[message] = IF publication[message] = "none" THEN "none" ELSE "acknowledged"
      /\ canonical'[message] = NoTwin
  BY <1>1, AcknowledgeHolds DEF IInv, Types
<1>3. Stored'
  BY <1>2 DEF IInv, Types, Stored
<1>4. Keys'
  BY <1>2 DEF IInv, Keys, Delivered
<1>5. Canonical'
  <2>1. \A i \in 1..Len(topic) : topic[i].id \in Messages
    BY TopicFacts DEF IInv
  <2>2. \A i \in 1..Len(topic) :
          publication'[topic[i].id] = "pending" => topic[i].state = canonical'[topic[i].id]
    BY <1>2, <2>1 DEF IInv, Canonical
  <2>3. \A m \in Messages : publication'[m] = "pending" <=> canonical'[m] # NoTwin
    BY <1>2 DEF IInv, Canonical
  <2> QED
    BY <2>2, <2>3 DEF IInv, Canonical, DeliveredIsCanonical, NoTwin
<1>6. Settled'
  BY <1>1, <1>2 DEF IInv, Settled, CommittedIsDelivered, Delivered
<1> QED
  BY <1>3, <1>4, <1>5, <1>6

LEMMA AcknowledgeActionHolds ==
  ASSUME IInv, Acknowledge
  PROVE  IInv'
<1>1. pc = "acknowledge" /\ UNCHANGED <<committed, topic, lake, flushes>>
  BY DEF Acknowledge
<1>2. CASE /\ NoFault /\ AcknowledgePublication(message)
           /\ Goto("commit") /\ UNCHANGED <<source, measured, result, built, stopped>>
  <2>1. Memory' /\ AtMessage'
    BY <1>1, <1>2 DEF IInv, Types, Memory, AtMessage, Goto, Pcs, NoFault
  <2>2. message' = message /\ Delivered(message)'
    BY <1>1, <1>2 DEF message, IInv, InHand, Delivered
  <2>3. InHand'
    BY <1>2, <2>2 DEF InHand, Goto, Delivered
  <2> QED
    BY <1>1, <1>2, <2>1, <2>3, AcknowledgedHolds DEF IInv, Types
<1>3. CASE Fault /\ Fail /\ (AcknowledgePublication(message) \/ UNCHANGED postgres)
  BY <1>1, <1>3, FailHolds, AcknowledgedHolds, ReadingHolds DEF IInv, Types
<1> QED
  BY <1>2, <1>3 DEF Acknowledge

(* The offset of a message that has been delivered or never was published. *)
LEMMA CommittedHolds ==
  ASSUME IInv, pc = "commit", committed' = [committed EXCEPT ![GroupOf(source)] = @ + 1],
         UNCHANGED <<topic, postgres, lake>>
  PROVE  Stored' /\ Keys' /\ Canonical' /\ Settled'
<1>1. /\ message \in Messages /\ message = <<source, committed[GroupOf(source)] + 1>>
      /\ committed[GroupOf(source)] \in Nat /\ source \in Sources
      /\ committed \in [Groups -> Nat] /\ GroupOf(source) \in Groups
  BY AtAMessage, GroupFacts DEF IInv, Types, Stored, Memory, message
<1>2. UNCHANGED <<rows, processed, publication, canonical, twin, generation>>
  BY DEF postgres
<1>3. Stored'
  BY <1>1, <1>2 DEF IInv, Types, Stored
<1>4. Keys'
  BY <1>2 DEF IInv, Keys, Delivered
<1>5. Canonical'
  BY <1>2 DEF IInv, Canonical, DeliveredIsCanonical
<1>6. Settled'
  <2> SUFFICES ASSUME NEW m \in Messages,
                      \/ publication[m] = "acknowledged"
                      \/ publication[m] = "pending" /\ m[2] <= committed'[GroupOf(m[1])]
               PROVE  Delivered(m)
    BY <1>2 DEF Settled, CommittedIsDelivered, Delivered
  <2>1. CASE m = message
    BY <2>1 DEF IInv, InHand, Unpublished, Settled, CommittedIsDelivered, Delivered
  <2>2. CASE m # message
    <3>1. m = <<m[1], m[2]>> /\ m[1] \in Sources /\ m[2] \in Nat
      BY MessageFacts
    <3>2. CASE m[1] = source
      <4>1. m[2] # committed[GroupOf(source)] + 1
        BY <1>1, <2>2, <3>1, <3>2
      <4>2. committed'[GroupOf(source)] = committed[GroupOf(source)] + 1
        BY <1>1
      <4> QED
        BY <1>1, <3>1, <3>2, <4>1, <4>2 DEF IInv, Settled, CommittedIsDelivered, Delivered
    <3>3. CASE m[1] # source
      <4>1. GroupOf(m[1]) # GroupOf(source) /\ GroupOf(m[1]) \in Groups
        BY <1>1, <3>1, <3>3, GroupFacts
      <4>2. committed'[GroupOf(m[1])] = committed[GroupOf(m[1])]
        BY <1>1, <4>1
      <4> QED
        BY <4>2 DEF IInv, Settled, CommittedIsDelivered, Delivered
    <3> QED
      BY <3>2, <3>3
  <2> QED
    BY <2>1, <2>2
<1> QED
  BY <1>3, <1>4, <1>5, <1>6

LEMMA CommitSourceHolds ==
  ASSUME IInv, CommitSource
  PROVE  IInv'
<1>1. pc = "commit" /\ UNCHANGED <<topic, postgres, lake, flushes>>
  BY DEF CommitSource
<1>2. CASE /\ NoFault /\ committed' = [committed EXCEPT ![GroupOf(source)] = @ + 1]
           /\ Goto("idle") /\ built' = NoTwin
           /\ UNCHANGED <<source, measured, result, stopped>>
  <2>1. Memory'
    BY <1>1, <1>2, NoTwinType DEF IInv, Types, Memory, Goto, Pcs, NoFault
  <2>2. AtMessage' /\ InHand'
    BY <1>2 DEF AtMessage, InHand, Goto
  <2> QED
    BY <1>1, <1>2, <2>1, <2>2, CommittedHolds DEF IInv, Types
<1>3. CASE /\ Fault /\ Fail
           /\ committed' \in {committed, [committed EXCEPT ![GroupOf(source)] = @ + 1]}
  BY <1>1, <1>3, FailHolds, CommittedHolds, ReadingHolds DEF IInv, Types
<1> QED
  BY <1>2, <1>3 DEF CommitSource

LEMMA StutterHolds ==
  ASSUME IInv, UNCHANGED vars
  PROVE  IInv'
<1>1. /\ UNCHANGED <<committed, topic, lake, flushes, faults>>
      /\ UNCHANGED <<rows, processed, publication, canonical, twin, generation>>
      /\ UNCHANGED <<pc, source, measured, result, built, stopped>>
  BY DEF vars, postgres, projector, bounds
<1>2. Types'
  BY <1>1 DEF IInv, Types, Stored, Memory
<1>3. AtMessage'
  BY <1>1 DEF IInv, AtMessage
<1>4. Keys'
  BY <1>1 DEF IInv, Keys, Delivered
<1>5. Canonical'
  BY <1>1 DEF IInv, Canonical, DeliveredIsCanonical
<1>6. InHand'
  <2>1. message' = message
    BY <1>1 DEF message
  <2> QED
    BY <1>1, <2>1 DEF IInv, InHand, Unpublished, Delivered
<1>7. Settled'
  BY <1>1 DEF IInv, Settled, CommittedIsDelivered, Delivered
<1> QED
  BY <1>2, <1>3, <1>4, <1>5, <1>6, <1>7 DEF IInv

LEMMA NextHolds == IInv /\ [Next]_vars => IInv'
<1> SUFFICES ASSUME IInv, [Next]_vars PROVE IInv'
  OBVIOUS
<1>1. CASE Next
  BY <1>1, ConsumeHolds, BeginHolds, ResumeHolds, ProjectHolds, SaveHolds,
     ReadCanonicalHolds, DeliverHolds, AcknowledgeActionHolds, CommitSourceHolds,
     DownHolds, RestartHolds, FlushHolds, PruneHolds DEF Next, ProjectorStep
<1>2. CASE UNCHANGED vars
  BY <1>2, StutterHolds
<1> QED
  BY <1>1, <1>2

LEMMA InvariantHolds == Spec => []IInv
BY InitHolds, NextHolds, PTL DEF Spec

-------------------------------------------------------------------------------
(* The theorems.                                                           *)

(* Every variable keeps its type, and a publication its Twin State for as  *)
(* long as it is pending, whatever is flushed, pruned or fails             *)
(* (SaveTwinStatePublication, AcknowledgeTwinStatePublication).            *)
THEOREM TypeCorrect == Spec => []TypeOK
<1>1. IInv => TypeOK
  <2> SUFFICES ASSUME IInv PROVE TypeOK
    OBVIOUS
  <2>1. \A i \in 1..Len(topic) : topic[i].id \in Messages /\ topic[i].state \in States
    BY TopicFacts DEF IInv
  <2> QED
    BY <2>1 DEF IInv, Types, Stored, Memory, Canonical, TypeOK, Pcs
<1> QED
  BY <1>1, InvariantHolds, PTL

(* Two deliveries of one publication carry the same Twin State, whatever   *)
(* the projector had in its memory at each (Resume, Publish).              *)
THEOREM OneStatePerPublication == Spec => []DeliveredIsCanonical
<1>1. IInv => DeliveredIsCanonical
  BY DEF IInv, Canonical
<1> QED
  BY <1>1, InvariantHolds, PTL

(* A source message is committed, and its publication acknowledged, after  *)
(* the saved Twin State is on the topic (finishSourceMessage).             *)
THEOREM DeliveredBeforeCommitted == Spec => []CommittedIsDelivered
<1>1. IInv => CommittedIsDelivered
  BY DEF IInv, Settled
<1> QED
  BY <1>1, InvariantHolds, PTL

(* What a step does to the rows and the Twin State: a row is inserted with *)
(* the key of its message, and any other change lowers rows.  Whatever     *)
(* changes either moves the generation.                                    *)
LEMMA RowsAndGeneration ==
  ASSUME IInv, [Next]_vars
  PROVE  /\ \A m \in Messages : rows'[m] > rows[m] => rows[m] = 0 /\ m \notin processed
         /\ UNCHANGED <<rows, twin>> \/ generation' > generation
<1>1. rows \in [Messages -> Nat] /\ generation \in Nat
  BY DEF IInv, Types, Stored
<1>2. ASSUME UNCHANGED postgres
      PROVE  UNCHANGED <<rows, twin>>
  BY <1>2 DEF postgres
<1>3. ASSUME NEW c \in Consumers, Consume(c)
      PROVE  /\ \A m \in Messages : rows'[m] > rows[m] => rows[m] = 0 /\ m \notin processed
             /\ UNCHANGED <<rows, twin>> \/ generation' > generation
  <2>1. CASE c \in Sources
    <3>1. Waiting(c) /\ SaveFrame(<<c, NextOf(c)>>) /\ committed[c] \in Nat
      BY <1>3, <2>1, GroupFacts DEF Consume, Store, Sources, IInv, Types, Stored
    <3>2. <<c, NextOf(c)>> \in Messages
      BY <3>1, <2>1, LogFacts, MessageFacts DEF Waiting, NextOf
    <3> DEFINE new == <<c, NextOf(c)>>
    <3> HIDE DEF new
    <3>3. new \in Messages /\ SaveFrame(new)
      BY <3>1, <3>2 DEF new
    <3>4. CASE new \in processed
      BY <3>3, <3>4, <1>1 DEF SaveFrame, postgres
    <3>5. CASE new \notin processed
      <4>1. rows' = [rows EXCEPT ![new] = @ + 1] /\ generation' = generation + 1
        BY <3>3, <3>5 DEF SaveFrame, AdvanceGeneration
      <4>2. rows[new] = 0
        BY <1>1, <3>3, <3>5 DEF IInv, Keys
      <4> QED
        BY <1>1, <3>3, <3>5, <4>1, <4>2
    <3> QED
      BY <3>4, <3>5
  <2>2. CASE c = "twin"
    <3>1. SaveTwinStateProjection(Event(c).id, Event(c).state)
      BY <1>3, <2>2 DEF Consume, Store, Sources
    <3> QED
      BY <1>1, <3>1 DEF SaveTwinStateProjection, SaveTwin, AdvanceGeneration, postgres
  <2>3. CASE c = "lake"
    <3>1. UNCHANGED postgres
      BY <1>3, <2>3 DEF Consume, Store, Sources
    <3> QED
      BY <1>1, <1>2, <3>1
  <2> QED
    BY <2>1, <2>2, <2>3 DEF Consumers, Sources
<1>4. CASE Flush
  <2>1. rows' = [m \in Messages |-> 0] /\ generation' = generation + 1
    BY <1>4 DEF Flush, AdvanceGeneration
  <2> QED
    BY <1>1, <2>1
<1>5. CASE PruneDynamicMeasured
  <2>1. PICK expired : rows' = [m \in Messages |-> IF m \in expired THEN 0 ELSE rows[m]]
    BY <1>5 DEF PruneDynamicMeasured
  <2>2. generation' = generation + 1
    BY <1>5 DEF PruneDynamicMeasured, AdvanceGeneration
  <2> QED
    BY <1>1, <2>1, <2>2
<1>6. CASE Save
  <2>1. SaveTwinStatePublication(message, built) \/ UNCHANGED postgres
    BY <1>6 DEF Save
  <2> QED
    BY <1>1, <2>1 DEF SaveTwinStatePublication, SaveTwin, AdvanceGeneration, postgres
<1>7. CASE Acknowledge
  <2>1. UNCHANGED <<rows, twin>>
    BY <1>7 DEF Acknowledge, AcknowledgePublication, postgres
  <2> QED
    BY <1>1, <2>1
<1>8. ASSUME \/ \E s \in Sources : Begin(s)
             \/ Resume \/ Project \/ ReadCanonical \/ Deliver \/ CommitSource
             \/ Exit \/ Crash \/ Restart \/ UNCHANGED vars
      PROVE  UNCHANGED <<rows, twin>>
  BY <1>8, <1>2 DEF Begin, Resume, Project, ReadCanonical, Deliver, CommitSource, Exit, Crash,
     Down, Restart, vars
<1>9. CASE UNCHANGED <<rows, twin>>
  BY <1>1, <1>9
<1> QED
  BY <1>3, <1>4, <1>5, <1>6, <1>7, <1>8, <1>9 DEF Next, ProjectorStep

(* A message has rows at most once, however often it is delivered, and     *)
(* pruned or flushed rows stay away (insertWorkbenchProcessed).            *)
THEOREM InsertedOnce == Spec => ProjectedOnce
<1>1. IInv /\ [Next]_vars =>
        [\A m \in Messages : rows'[m] > rows[m] => rows[m] = 0 /\ m \notin processed]_vars
  BY RowsAndGeneration
<1> QED
  BY <1>1, InvariantHolds, PTL DEF Spec, ProjectedOnce

(* Two snapshots of one generation show the same frames, results and Twin  *)
(* State (advanceWorkbenchSnapshotGeneration).                             *)
THEOREM OneSnapshotPerGeneration == Spec => GenerationMoves
<1>1. UNCHANGED <<rows, twin>> => Shown' = Shown
  BY DEF Shown, StoredFrames, StoredResults
<1>2. IInv /\ [Next]_vars => [Shown' # Shown => generation' > generation]_vars
  BY <1>1, RowsAndGeneration
<1> QED
  BY <1>2, InvariantHolds, PTL DEF Spec, GenerationMoves

-------------------------------------------------------------------------------
(* The pipeline implements TwinPublications.                               *)

InTheHand(m) == IF pc = "deliver" /\ m = message THEN built ELSE NoTwin

(* The content of a publication is what is saved for it, what its events   *)
(* carry, or what the projector holds.                                     *)
ContentIsOne ==
  \A m \in Messages :
    /\ publication[m] = "pending" => Content(m) = canonical[m]
    /\ \A i \in 1..Len(topic) : topic[i].id = m => topic[i].state = Content(m)
    /\ publication[m] # "pending" /\ ~Delivered(m) => Content(m) = InTheHand(m)

LEMMA ContentFacts == IInv => ContentIsOne
<1> SUFFICES ASSUME IInv, NEW m \in Messages
             PROVE  /\ publication[m] = "pending" => Content(m) = canonical[m]
                    /\ \A i \in 1..Len(topic) : topic[i].id = m => topic[i].state = Content(m)
                    /\ publication[m] # "pending" /\ ~Delivered(m) => Content(m) = InTheHand(m)
  BY DEF ContentIsOne
<1>1. ASSUME NEW state \in StatesDelivered(m)
      PROVE  \E i \in 1..Len(topic) : topic[i].id = m /\ topic[i].state = state
  BY <1>1 DEF StatesDelivered
<1>2. ASSUME NEW i \in 1..Len(topic), topic[i].id = m
      PROVE  topic[i].state \in StatesDelivered(m)
  BY <1>2 DEF StatesDelivered
<1>3. CASE publication[m] = "pending"
  BY <1>3 DEF Content, IInv, Canonical
<1>4. CASE publication[m] # "pending" /\ Delivered(m)
  <2>1. StatesDelivered(m) # {}
    BY <1>2, <1>4 DEF Delivered
  <2>2. Content(m) \in StatesDelivered(m)
    BY <1>4, <2>1 DEF Content
  <2>3. PICK j \in 1..Len(topic) : topic[j].id = m /\ topic[j].state = Content(m)
    BY <1>1, <2>2
  <2> QED
    BY <1>4, <2>3 DEF IInv, Canonical, DeliveredIsCanonical
<1>5. CASE publication[m] # "pending" /\ ~Delivered(m)
  <2>1. StatesDelivered(m) = {}
    BY <1>1, <1>5 DEF Delivered
  <2> QED
    BY <1>5, <2>1 DEF Content, InTheHand, Delivered
<1> QED
  BY <1>3, <1>4, <1>5

LEMMA ContentFactsNext == IInv' => ContentIsOne'
BY ContentFacts, PTL

(* What a step leaves of a publication.                                    *)
LEMMA ContentKept ==
  ASSUME ContentIsOne, ContentIsOne', NEW m \in Messages, topic' = topic,
         publication'[m] = publication[m], canonical'[m] = canonical[m],
         publication[m] = "pending" \/ Delivered(m) \/ InTheHand(m)' = InTheHand(m)
  PROVE  Content(m)' = Content(m)
<1>1. CASE publication[m] = "pending"
  BY <1>1 DEF ContentIsOne
<1>2. CASE Delivered(m)
  BY <1>2 DEF ContentIsOne, Delivered
<1>3. CASE publication[m] # "pending" /\ ~Delivered(m)
  BY <1>3 DEF ContentIsOne, Delivered
<1> QED
  BY <1>1, <1>2, <1>3

(* A step that leaves the publications, but for their tables' other rows,  *)
(* the topic, and what is known of each only from the projector's hand.    *)
LEMMA Stutters ==
  ASSUME ContentIsOne, ContentIsOne', UNCHANGED <<topic, publication, canonical>>,
         \A m \in Messages : TwinKey(m) \in processed' <=> TwinKey(m) \in processed,
         \A m \in Messages :
           publication[m] = "pending" \/ Delivered(m) \/ InTheHand(m)' = InTheHand(m)
  PROVE  UNCHANGED Publications!vars
<1>1. \A m \in Messages : Phase(m)' = Phase(m)
  BY DEF Phase
<1>2. \A m \in Messages : Content(m)' = Content(m)
  BY ContentKept
<1> QED
  BY <1>1, <1>2 DEF Publications!vars

(* The projections, the lake and retention leave the publications: the     *)
(* event they consume has its key already.                                 *)
LEMMA ConsumeStutters ==
  ASSUME IInv, ContentIsOne, ContentIsOne', NEW c \in Consumers, Consume(c)
  PROVE  UNCHANGED Publications!vars
<1>1. /\ Waiting(c) /\ Store(c) /\ UNCHANGED <<topic, projector, flushes>>
      /\ committed' \in {committed, [committed EXCEPT ![c] = @ + 1]}
  BY DEF Consume
<1>2. Types /\ Keys /\ c \in Groups /\ committed[c] \in Nat /\ committed \in [Groups -> Nat]
  BY GroupFacts DEF IInv, Types, Stored
<1>3. message' = message
  BY <1>1, <1>2, GroupFacts DEF message, projector, Types, Memory
<1>4. \A m \in Messages : InTheHand(m)' = InTheHand(m)
  BY <1>1, <1>3 DEF InTheHand, projector
<1>5. UNCHANGED <<publication, canonical>>
      /\ \A m \in Messages : TwinKey(m) \in processed' <=> TwinKey(m) \in processed
  <2>1. CASE c \in Sources
    <3>1. SaveFrame(<<c, NextOf(c)>>)
      BY <1>1, <2>1 DEF Store, Sources
    <3>2. <<c, NextOf(c)>> \in Messages
      BY <1>1, <1>2, <2>1, LogFacts, MessageFacts DEF Waiting, NextOf
    <3> DEFINE new == <<c, NextOf(c)>>
    <3> HIDE DEF new
    <3>3. new \in Messages /\ SaveFrame(new)
      BY <3>1, <3>2 DEF new
    <3>4. processed' \in {processed, processed \cup {new}} /\ UNCHANGED <<publication, canonical>>
      BY <3>3 DEF SaveFrame, postgres
    <3> QED
      BY <3>3, <3>4, KeyFacts
  <2>2. CASE c = "twin"
    <3>1. SaveTwinStateProjection(Event(c).id, Event(c).state)
      BY <1>1, <2>2 DEF Store, Sources
    <3>2. NextOf(c) \in 1..Len(topic)
      BY <1>1, <1>2, <2>2, TopicFacts DEF Waiting, NextOf, Sources
    <3>3. TwinKey(Event(c).id) \in processed
      BY <1>2, <3>2, TopicFacts DEF Event, Keys, Delivered
    <3> QED
      BY <3>1, <3>3 DEF SaveTwinStateProjection, postgres
  <2>3. CASE c = "lake"
    BY <1>1, <2>3 DEF Store, Sources, postgres
  <2> QED
    BY <2>1, <2>2, <2>3 DEF Consumers, Sources
<1> QED
  BY <1>1, <1>4, <1>5, Stutters

LEMMA PruneStutters ==
  ASSUME ContentIsOne, ContentIsOne', PruneDynamicMeasured
  PROVE  UNCHANGED Publications!vars
<1>1. UNCHANGED <<topic, publication, canonical, processed, projector, committed>>
  BY DEF PruneDynamicMeasured
<1>2. \A m \in Messages : InTheHand(m)' = InTheHand(m)
  BY <1>1 DEF InTheHand, message, projector
<1> QED
  BY <1>1, <1>2, Stutters

(* The calls of the projector that do not change the store or the topic    *)
(* and are not made with a delivery in hand: what it takes into its hand   *)
(* is the saved publication.                                               *)
LEMMA ReadingStutters ==
  ASSUME ContentIsOne, ContentIsOne', UNCHANGED <<topic, postgres>>, pc # "deliver",
         pc' = "deliver" => message' = message /\ publication[message] = "pending"
  PROVE  UNCHANGED Publications!vars
<1>1. UNCHANGED <<publication, canonical, processed>>
  BY DEF postgres
<1>2. ASSUME NEW m \in Messages
      PROVE  publication[m] = "pending" \/ InTheHand(m)' = InTheHand(m)
  BY DEF InTheHand, NoTwin, TwinState, NoFrame
<1> QED
  BY <1>1, <1>2, Stutters

LEMMA FollowStutters ==
  ASSUME IInv, ContentIsOne, ContentIsOne', pc \in {"resume", "canonical"}, Follow,
         publication[message] # "none", UNCHANGED <<committed, topic, postgres>>
  PROVE  UNCHANGED Publications!vars
<1>1. message \in Messages
  BY AtAMessage DEF IInv
<1>2. publication[message] \in {"none", "pending", "acknowledged"}
  BY <1>1 DEF IInv, Types, Stored
<1>3. message' = message
  BY DEF Follow, message
<1> QED
  BY <1>2, <1>3, ReadingStutters DEF Follow, Goto

(* A delivery in hand is given up: a withdrawn publication without an      *)
(* event has no Twin State any more.                                       *)
LEMMA GivesUp ==
  ASSUME IInv, ContentIsOne, ContentIsOne', pc = "deliver", pc' # "deliver",
         UNCHANGED <<topic, postgres>>
  PROVE  [Publications!Next]_(Publications!vars)
<1>1. PICK given \in Messages : given = message
  BY AtAMessage DEF IInv
<1>2. UNCHANGED <<publication, canonical, processed>>
  BY DEF postgres
<1>3. \A m \in Messages : m # given => InTheHand(m)' = InTheHand(m)
  BY <1>1 DEF InTheHand, NoTwin, TwinState, NoFrame
<1>4. CASE publication[given] = "pending" \/ Delivered(given)
  BY <1>2, <1>3, <1>4, Stutters
<1>5. CASE publication[given] # "pending" /\ ~Delivered(given)
  <2>1. Phase(given) = "withdrawn"
    BY <1>1, <1>5 DEF IInv, InHand, Types, Stored, Phase
  <2>2. \A m \in Messages : Phase(m)' = Phase(m)
    BY <1>2 DEF Phase
  <2>3. \A m \in Messages : m # given => Content(m)' = Content(m)
    BY <1>2, <1>3, ContentKept
  <2>4. Content(given)' = NoTwin
    BY <1>2, <1>5 DEF ContentIsOne, Delivered, InTheHand, NoTwin, TwinState, NoFrame
  <2>5. Publications!Forgetting({given})
    BY <2>3, <2>4 DEF Publications!Forgetting
  <2>6. Publications!Abandon(given)
    BY <1>5, <2>1, <2>2, <2>5 DEF Publications!Abandon, Publications!Delivered, Delivered
  <2> QED
    BY <2>6 DEF Publications!Next
<1> QED
  BY <1>4, <1>5

(* A flush withdraws every publication that was made; what was saved and   *)
(* is neither on the topic nor in the projector's hand is lost.            *)
LEMMA FlushWithdraws ==
  ASSUME IInv, ContentIsOne, ContentIsOne', Flush
  PROVE  Publications!Next
<1> DEFINE lost == {m \in Messages : ~Delivered(m) /\ InTheHand(m) = NoTwin}
<1>1. /\ publication' = [m \in Messages |-> "none"]
      /\ UNCHANGED <<processed, committed, topic, projector>>
  BY DEF Flush
<1>2. ASSUME NEW m \in Messages
      PROVE  Phase(m)' = IF Phase(m) = "none" THEN "none" ELSE "withdrawn"
  BY <1>1 DEF Phase, IInv, Keys
<1>3. ASSUME NEW m \in Messages
      PROVE  Content(m)' = IF m \in lost THEN NoTwin ELSE Content(m)
  <2>1. publication'[m] = "none" /\ topic' = topic /\ (Delivered(m)' <=> Delivered(m))
    BY <1>1 DEF Delivered
  <2>2. InTheHand(m)' = InTheHand(m)
    BY <1>1 DEF InTheHand, message, projector, NoTwin, TwinState, NoFrame
  <2>3. CASE Delivered(m)
    BY <2>1, <2>3 DEF ContentIsOne, Delivered
  <2>4. CASE ~Delivered(m)
    <3>1. Content(m)' = InTheHand(m)
      BY <2>1, <2>2, <2>4 DEF ContentIsOne
    <3>2. CASE InTheHand(m) = NoTwin
      BY <2>4, <3>1, <3>2
    <3>3. CASE InTheHand(m) # NoTwin
      <4>1. pc = "deliver" /\ m = message /\ InTheHand(m) = built
        BY <3>3 DEF InTheHand
      <4>2. publication[m] = "pending" => Content(m) = built
        BY <4>1 DEF IInv, InHand, ContentIsOne
      <4>3. publication[m] # "pending" => Content(m) = built
        BY <2>4, <4>1 DEF ContentIsOne
      <4> QED
        BY <3>1, <3>3, <4>1, <4>2, <4>3
    <3> QED
      BY <3>2, <3>3
  <2> QED
    BY <2>3, <2>4
<1>4. lost \in SUBSET {m \in Messages : ~Publications!Delivered(m)}
  BY DEF Publications!Delivered, Delivered
<1> HIDE DEF lost
<1>5. Publications!Forgetting(lost)
  BY <1>3 DEF Publications!Forgetting
<1> QED
  BY <1>1, <1>2, <1>4, <1>5 DEF Publications!Next, Publications!Withdraw

(* A publication is made under a key that was not processed.               *)
LEMMA SaveMakes ==
  ASSUME IInv, ContentIsOne, ContentIsOne', Save
  PROVE  [Publications!Next]_(Publications!vars)
<1>1. /\ pc = "save" /\ pc' # "deliver" /\ UNCHANGED topic
      /\ SaveTwinStatePublication(message, built) \/ UNCHANGED postgres
  BY DEF Save, Goto, Fail
<1>2. PICK made \in Messages : made = message
  BY <1>1, AtAMessage DEF IInv
<1>3. CASE TwinKey(made) \in processed \/ UNCHANGED postgres
  <2>1. UNCHANGED postgres
    BY <1>1, <1>2, <1>3 DEF SaveTwinStatePublication
  <2> QED
    BY <1>1, <2>1, ReadingStutters
<1>4. CASE TwinKey(made) \notin processed /\ SaveTwinStatePublication(message, built)
  <2>1. /\ processed' = processed \cup {TwinKey(made)}
        /\ publication' = [publication EXCEPT ![made] = "pending"]
        /\ canonical' = [canonical EXCEPT ![made] = built]
    BY <1>2, <1>4 DEF SaveTwinStatePublication, SaveTwin
  <2>2. /\ publication \in [Messages -> {"none", "pending", "acknowledged"}]
        /\ canonical \in [Messages -> States] /\ built \in States /\ built # NoTwin
        /\ publication[made] = "none"
    BY <1>1, <1>2 DEF IInv, Types, Stored, Memory, InHand, Unpublished
  <2>3. publication'[made] = "pending" /\ canonical'[made] = built
    BY <2>1, <2>2
  <2>4. \A m \in Messages : m # made =>
          /\ publication'[m] = publication[m] /\ canonical'[m] = canonical[m]
          /\ TwinKey(m) \in processed' <=> TwinKey(m) \in processed
    BY <2>1, <2>2, KeyFacts
  <2>5. Phase(made) = "none" /\ Phase(made)' = "pending"
    BY <1>4, <2>2, <2>3 DEF Phase
  <2>6. \A m \in Messages : m # made => Phase(m)' = Phase(m)
    BY <2>4 DEF Phase
  <2>7. Content(made)' = built
    BY <2>3 DEF ContentIsOne
  <2>8. \A m \in Messages : InTheHand(m)' = InTheHand(m)
    BY <1>1 DEF InTheHand, NoTwin, TwinState, NoFrame
  <2>9. \A m \in Messages : m # made => Content(m)' = Content(m)
    BY <1>1, <2>4, <2>8, ContentKept
  <2>10. /\ [m \in Messages |-> Phase(m)]' = [[m \in Messages |-> Phase(m)] EXCEPT ![made] = "pending"]
         /\ [m \in Messages |-> Content(m)]' = [[m \in Messages |-> Content(m)] EXCEPT ![made] = built]
    BY <2>5, <2>6, <2>7, <2>9
  <2>11. Publications!Make(made)
    BY <1>1, <2>2, <2>5, <2>10 DEF Publications!Make
  <2> QED
    BY <2>11 DEF Publications!Next
<1> QED
  BY <1>1, <1>3, <1>4

(* What is delivered is the content, which the event keeps.                *)
LEMMA DeliverDelivers ==
  ASSUME IInv, ContentIsOne, ContentIsOne', Deliver
  PROVE  [Publications!Next]_(Publications!vars)
<1> DEFINE event == [id |-> message, state |-> built]
<1>1. pc = "deliver" /\ pc' # "deliver" /\ UNCHANGED postgres /\ topic' \in {topic, Append(topic, event)}
  BY DEF Deliver, Goto, Fail
<1>2. CASE topic' = topic
  BY <1>1, <1>2, GivesUp
<1>3. CASE topic' = Append(topic, event)
  <2>1. PICK sent \in Messages : sent = message
    BY <1>1, AtAMessage DEF IInv
  <2>2. /\ publication' = publication /\ canonical' = canonical /\ processed' = processed
        /\ publication[sent] \in {"none", "pending"} /\ TwinKey(sent) \in processed
        /\ built \in States
    BY <1>1, <2>1 DEF postgres, IInv, Types, Stored, Memory, InHand
  <2>3. event \in Events /\ event.id = sent /\ event.state = built
    BY <2>1, <2>2 DEF Events
  <2>4. /\ Len(topic) \in Nat /\ Len(topic') = Len(topic) + 1
        /\ \A i \in 1..Len(topic) : topic'[i] = topic[i]
        /\ topic'[Len(topic) + 1] = event
    BY <1>3, <2>3 DEF IInv, Types, Stored
  <2> HIDE DEF event
  <2>5. Content(sent) = built
    <3>1. CASE publication[sent] = "pending"
      BY <1>1, <2>1, <3>1 DEF IInv, InHand, ContentIsOne
    <3>2. CASE publication[sent] # "pending" /\ Delivered(sent)
      BY <1>1, <2>1, <3>2 DEF IInv, InHand, ContentIsOne, Delivered
    <3>3. CASE publication[sent] # "pending" /\ ~Delivered(sent)
      BY <1>1, <2>1, <3>3 DEF ContentIsOne, InTheHand
    <3> QED
      BY <3>1, <3>2, <3>3
  <2>6. Content(sent)' = built
    <3>1. Len(topic) + 1 \in 1..Len(topic')
      BY <2>4
    <3> QED
      BY <2>3, <2>4, <3>1 DEF ContentIsOne
  <2>7. ASSUME NEW m \in Messages, m # sent
        PROVE  Content(m)' = Content(m)
    <3>1. \A i \in 1..Len(topic') : topic'[i].id = m => i \in 1..Len(topic) /\ topic'[i] = topic[i]
      BY <2>3, <2>4, <2>7
    <3>2. Delivered(m)' <=> Delivered(m)
      BY <2>4, <3>1 DEF Delivered
    <3>3. CASE publication[m] = "pending"
      BY <2>2, <3>3 DEF ContentIsOne
    <3>4. CASE Delivered(m)
      <4>1. PICK i \in 1..Len(topic) : topic[i].id = m
        BY <3>4 DEF Delivered
      <4>2. i \in 1..Len(topic') /\ topic'[i] = topic[i]
        BY <2>4, <4>1
      <4> QED
        BY <4>1, <4>2 DEF ContentIsOne
    <3>5. CASE publication[m] # "pending" /\ ~Delivered(m)
      <4>1. InTheHand(m) = NoTwin /\ InTheHand(m)' = NoTwin
        BY <1>1, <2>1, <2>7 DEF InTheHand, NoTwin, TwinState, NoFrame
      <4>2. Content(m) = InTheHand(m) /\ Content(m)' = InTheHand(m)'
        BY <2>2, <3>2, <3>5 DEF ContentIsOne
      <4> QED
        BY <4>1, <4>2 DEF NoTwin, TwinState, NoFrame
    <3> QED
      BY <3>3, <3>4, <3>5
  <2>8. /\ [m \in Messages |-> Phase(m)]' = [m \in Messages |-> Phase(m)]
        /\ [m \in Messages |-> Content(m)]' = [m \in Messages |-> Content(m)]
    <3>1. \A m \in Messages : Phase(m)' = Phase(m)
      BY <2>2 DEF Phase
    <3>2. \A m \in Messages : Content(m)' = Content(m)
      BY <2>5, <2>6, <2>7
    <3> QED
      BY <3>1, <3>2
  <2>9. Phase(sent) \in {"pending", "withdrawn"}
    BY <2>2 DEF Phase
  <2>10. built # NoTwin
    BY <1>1 DEF IInv, InHand
  <2>11. topic' = Append(topic, [id |-> sent, state |-> Content(sent)])
    BY <1>3, <2>1, <2>5 DEF event
  <2>12. Publications!Deliver(sent)
    BY <2>5, <2>8, <2>9, <2>10, <2>11 DEF Publications!Deliver
  <2> QED
    BY <2>12 DEF Publications!Next
<1> QED
  BY <1>1, <1>2, <1>3

(* An acknowledged publication was delivered: its event has its Twin State.*)
LEMMA AcknowledgeAcknowledges ==
  ASSUME IInv, ContentIsOne, ContentIsOne', Acknowledge
  PROVE  [Publications!Next]_(Publications!vars)
<1>1. /\ pc = "acknowledge" /\ pc' # "deliver" /\ UNCHANGED topic
      /\ AcknowledgePublication(message) \/ UNCHANGED postgres
  BY DEF Acknowledge, Goto, Fail
<1>2. PICK done \in Messages : done = message
  BY <1>1, AtAMessage DEF IInv
<1>3. CASE UNCHANGED postgres
  BY <1>1, <1>3, ReadingStutters
<1>4. CASE AcknowledgePublication(message)
  <2>1. /\ UNCHANGED processed
        /\ \A m \in Messages : m # done => publication'[m] = publication[m] /\ canonical'[m] = canonical[m]
        /\ publication'[done] = IF publication[done] = "none" THEN "none" ELSE "acknowledged"
        /\ publication[done] \in {"none", "pending", "acknowledged"}
    BY <1>2, <1>4, AcknowledgeHolds DEF IInv, Types, Stored
  <2>2. Delivered(done)
    BY <1>1, <1>2 DEF IInv, InHand
  <2>3. \A m \in Messages : m # done => Phase(m)' = Phase(m)
    BY <2>1 DEF Phase
  <2>4. \A m \in Messages : InTheHand(m)' = InTheHand(m)
    BY <1>1 DEF InTheHand, NoTwin, TwinState, NoFrame
  <2>5. \A m \in Messages : m # done => Content(m)' = Content(m)
    BY <1>1, <2>1, <2>4, ContentKept
  <2>6. Content(done)' = Content(done)
    BY <1>1, <2>2 DEF ContentIsOne, Delivered
  <2>7. CASE publication[done] = "pending"
    <3>1. Phase(done) = "pending" /\ Phase(done)' = "acknowledged"
      BY <2>1, <2>7 DEF Phase
    <3>2. /\ [m \in Messages |-> Phase(m)]' = [[m \in Messages |-> Phase(m)] EXCEPT ![done] = "acknowledged"]
          /\ [m \in Messages |-> Content(m)]' = [m \in Messages |-> Content(m)]
      BY <2>3, <2>5, <2>6, <3>1
    <3>3. Publications!Acknowledge(done)
      BY <1>1, <2>2, <3>1, <3>2 DEF Publications!Acknowledge, Publications!Delivered, Delivered
    <3> QED
      BY <3>3 DEF Publications!Next
  <2>8. CASE publication[done] # "pending"
    <3>1. Phase(done)' = Phase(done)
      BY <2>1, <2>8 DEF Phase
    <3>2. UNCHANGED Publications!vars
      BY <1>1, <2>3, <2>5, <2>6, <3>1 DEF Publications!vars
    <3> QED
      BY <3>2
  <2> QED
    BY <2>7, <2>8
<1> QED
  BY <1>1, <1>3, <1>4

LEMMA PublicationSteps ==
  ASSUME IInv, IInv', [Next]_vars
  PROVE  [Publications!Next]_(Publications!vars)
<1>1. ContentIsOne /\ ContentIsOne'
  BY ContentFacts, ContentFactsNext
<1>2. ASSUME NEW c \in Consumers, Consume(c) PROVE UNCHANGED Publications!vars
  BY <1>1, <1>2, ConsumeStutters
<1>3. ASSUME NEW s \in Sources, Begin(s) PROVE UNCHANGED Publications!vars
  BY <1>1, <1>3, ReadingStutters DEF Begin, Goto
<1>4. CASE Resume
  <2>1. CASE Follow /\ publication[message] # "none"
    BY <1>1, <1>4, <2>1, FollowStutters DEF Resume
  <2>2. CASE Goto("project") \/ Fail
    BY <1>1, <1>4, <2>2, ReadingStutters DEF Resume, Goto, Fail
  <2> QED
    BY <1>4, <2>1, <2>2 DEF Resume
<1>5. CASE ReadCanonical
  <2>1. CASE Follow /\ publication[message] # "none"
    BY <1>1, <1>5, <2>1, FollowStutters DEF ReadCanonical
  <2>2. CASE Fail
    BY <1>1, <1>5, <2>2, ReadingStutters DEF ReadCanonical, Goto, Fail
  <2> QED
    BY <1>5, <2>1, <2>2 DEF ReadCanonical
<1>6. CASE Project
  <2>1. pc = "project" /\ pc' # "deliver" /\ UNCHANGED <<topic, postgres>>
    BY <1>6 DEF Project, Goto, Fail
  <2> QED
    BY <1>1, <2>1, ReadingStutters
<1>7. CASE CommitSource
  <2>1. pc = "commit" /\ pc' # "deliver" /\ UNCHANGED <<topic, postgres>>
    BY <1>7 DEF CommitSource, Goto, Fail
  <2> QED
    BY <1>1, <2>1, ReadingStutters
<1>8. CASE Save \/ Deliver \/ Acknowledge
  BY <1>1, <1>8, SaveMakes, DeliverDelivers, AcknowledgeAcknowledges
<1>9. CASE Exit \/ Crash \/ Restart
  <2>1. pc' # "deliver" /\ UNCHANGED <<topic, postgres>>
    BY <1>9 DEF Exit, Crash, Restart, Down, Goto
  <2> QED
    BY <1>1, <2>1, ReadingStutters, GivesUp
<1>10. CASE Flush \/ PruneDynamicMeasured
  BY <1>1, <1>10, FlushWithdraws, PruneStutters
<1>11. CASE UNCHANGED vars
  <2>1. UNCHANGED <<topic, publication, canonical, processed, pc, source, built, committed>>
    BY <1>11 DEF vars, postgres, projector
  <2>2. \A m \in Messages : InTheHand(m)' = InTheHand(m)
    BY <2>1 DEF InTheHand, message, NoTwin, TwinState, NoFrame
  <2> QED
    BY <1>1, <2>1, <2>2, Stutters
<1> QED
  BY <1>2, <1>3, <1>4, <1>5, <1>6, <1>7, <1>8, <1>9, <1>10, <1>11 DEF Next, ProjectorStep

(* The projector and what runs around it keep the promise of               *)
(* TwinPublications (SaveTwinStatePublication, Publish, Resume): each step *)
(* makes, delivers, acknowledges, withdraws or abandons publications as it *)
(* allows, or leaves them.                                                 *)
THEOREM PipelineImplementsPublications == Spec => ImplementsPublications
<1>1. Init => Publications!Init
  <2> SUFFICES ASSUME Init PROVE Publications!Init
    OBVIOUS
  <2>1. \A m \in Messages : Phase(m) = "none"
    BY DEF Init, Phase
  <2>2. \A m \in Messages : Content(m) = NoTwin
    BY DEF Init, Content, StatesDelivered
  <2>3. topic = <<>>
    BY DEF Init
  <2> QED
    BY <2>1, <2>2, <2>3 DEF Publications!Init
<1>2. IInv /\ IInv' /\ [Next]_vars => [Publications!Next]_(Publications!vars)
  BY PublicationSteps
<1> QED
  BY <1>1, <1>2, InvariantHolds, PTL DEF Spec, ImplementsPublications, Publications!Spec
===============================================================================
