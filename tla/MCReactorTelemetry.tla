--------------------------- MODULE MCReactorTelemetry ---------------------------
(* A session of two reactors, over either store.                           *)
EXTENDS ReactorTelemetry

CONSTANTS r1, r2

BothStores   == {"memory", "postgres"}
OnlyPostgres == {"postgres"}
===============================================================================
