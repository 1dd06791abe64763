---------------------------- MODULE MCPeripheral ----------------------------
(* Values of the constants of Peripheral for TLC. *)
EXTENDS Peripheral

OneStream == <<"can">>
TwoStreams == <<"gps", "can">>
=============================================================================
