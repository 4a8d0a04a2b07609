--------------------------- MODULE MCMeasurementDB ---------------------------
(* Two measurements of a multi-input report sharing one report file.       *)
EXTENDS MeasurementDB

MCMeasurements == {"m1", "m2"}
MCTemps        == {"t1"}
MCTempOf       == [m \in MCMeasurements |-> "t1"]
=============================================================================
