-------------------------- MODULE MCDeviceIdentity --------------------------
(* Instances of DeviceIdentity for TLC. *)
EXTENDS DeviceIdentity, TLC

Symmetry == Permutations(Requests) \cup Permutations(Pods)
                \cup Permutations(Machines)
                \cup Permutations(Callers) \cup Permutations(Installations \ Callers)
=============================================================================
