---------------------------- MODULE MCFuelTwin ----------------------------
(***************************************************************************)
(* FuelTwin for TLC: recordings are interchangeable.                       *)
(***************************************************************************)
EXTENDS FuelTwin, TLC

Recordings == Permutations(Recorder)
=============================================================================
