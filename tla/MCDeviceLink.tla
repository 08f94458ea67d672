---------------------------- MODULE MCDeviceLink ----------------------------
(* Finite instances of DeviceLink for TLC.                                 *)
EXTENDS DeviceLink, TLC

CONSTANTS c1, c2, a1, a2

TwoAccounts == c1 :> a1 @@ c2 :> a2

DeviceSymmetry == Permutations(Devices)
=============================================================================
