-------------------------- MODULE MCConsumerProcess --------------------------
(* The five consumer programs; the two writers of three streams are alike.  *)
EXTENDS ConsumerProcess

AllPrograms ==
  {ProjectionWriter, WorkbenchIcebergWriter, SimopsIcebergWriter, TimescaleWriter,
   TwinProjector}
=============================================================================
