------------------------- MODULE MCDeviceAssignment -------------------------
(* DeviceAssignment for TLC: vehicles and devices are interchangeable.       *)
EXTENDS DeviceAssignment, TLC

Interchangeable == Permutations(Vehicle) \cup Permutations(Device)
=============================================================================
