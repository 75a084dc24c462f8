--------------------------- MODULE MCHubCommands ----------------------------
(* An instance of HubCommands for TLC.  Devices and threads have no order  *)
(* and no names in any property, and all properties are about single       *)
(* states and steps, so states that differ in a permutation of them are    *)
(* taken as one.                                                           *)
EXTENDS HubCommands, TLC

CONSTANTS d1, d2, t1, t2

TwoDevices == {d1, d2}
TwoThreads == {t1, t2}
TwoCommands == {1, 2}

Symmetry == Permutations(TwoDevices) \cup Permutations(TwoThreads)
=============================================================================
