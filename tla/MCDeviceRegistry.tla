-------------------------- MODULE MCDeviceRegistry --------------------------
(* The registry with model values for the devices.                         *)
EXTENDS DeviceRegistry, TLC

DeviceSymmetry == Permutations(Mains) \cup Permutations(Terminals)
=============================================================================
