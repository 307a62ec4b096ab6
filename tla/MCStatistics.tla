---------------------------- MODULE MCStatistics ----------------------------
(* Instances of Statistics. *)
EXTENDS Statistics

MCKinds == <<"timed send", "label", "recv", "pause">>
=============================================================================
