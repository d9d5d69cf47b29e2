---------------------------- MODULE DeliveryLedger ----------------------------
(***************************************************************************)
(* What a durable Delivery Attempt promises of a batch of telemetry: it is *)
(* opened once, copies of it reach the table only while it is pending, it  *)
(* is held as unknown when the outcome of a write is not known, and it is  *)
(* resolved for good, and only when the table holds a copy.                *)
(***************************************************************************)
EXTENDS Naturals

CONSTANT Batches        \* identities of batches: their run and coordinates

VARIABLES attempt,      \* [Batches -> {"none", "pending", "unknown", "resolved"}]
          copies        \* [Batches -> Nat]: logical appends of the batch

vars == <<attempt, copies>>

Init == /\ attempt = [b \in Batches |-> "none"]
        /\ copies = [b \in Batches |-> 0]

Open(b) == /\ attempt[b] = "none"
           /\ attempt' = [attempt EXCEPT ![b] = "pending"]
           /\ UNCHANGED copies

(* A pending batch may be appended again: the promise is at-least-once.    *)
Append(b) == /\ attempt[b] = "pending"
             /\ copies' = [copies EXCEPT ![b] = @ + 1]
             /\ UNCHANGED attempt

Hold(b) == /\ attempt[b] = "pending"
           /\ attempt' = [attempt EXCEPT ![b] = "unknown"]
           /\ UNCHANGED copies

Resolve(b) == /\ attempt[b] \in {"pending", "unknown"}
              /\ copies[b] > 0
              /\ attempt' = [attempt EXCEPT ![b] = "resolved"]
              /\ UNCHANGED copies

Next == \E b \in Batches : Open(b) \/ Append(b) \/ Hold(b) \/ Resolve(b)

Spec == Init /\ [][Next]_vars
===============================================================================
