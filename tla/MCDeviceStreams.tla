--------------------------- MODULE MCDeviceStreams ---------------------------
(* Instance of DeviceStreams for TLC: batches of one or two, a window shorter  *)
(* than the flush period's double, two sample rates, and a `dropped` that      *)
(* saturates at two.                                                           *)
EXTENDS DeviceStreams

MCCeiling == [can |-> 2, imu |-> 3]
MCLinks   == {[can |-> 1, imu |-> 1]}
MCProfiles == {{"can"}, {"imu"}}
MCPeriod  == [hz \in {1, 2} |-> IF hz = 1 THEN 2 ELSE 1]
=============================================================================
