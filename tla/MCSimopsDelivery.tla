--------------------------- MODULE MCSimopsDelivery ---------------------------
(* A partition with telemetry of two Runs, an event of another kind and a  *)
(* message that does not decode; every writer with and without attempts.   *)
EXTENDS SimopsDelivery

MCLog == <<[run |-> "r1", kind |-> "telemetry"], [run |-> "r1", kind |-> "garbled"],
           [run |-> "r2", kind |-> "telemetry"], [run |-> "r1", kind |-> "other"],
           [run |-> "r1", kind |-> "telemetry"]>>

MCDeployments ==
  [writer : Writers, durable : {TRUE}, batch : {1}]
    \cup [writer : Writers, durable : {FALSE}, batch : {1, 2}]
===============================================================================
