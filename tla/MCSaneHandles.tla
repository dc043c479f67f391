---------------------------- MODULE MCSaneHandles ----------------------------
(***************************************************************************)
(* SaneHandles with two handles, two devices on USB and one on the network.*)
(***************************************************************************)
EXTENDS SaneHandles, TLC

Symmetry == Permutations(Handles) \cup Permutations(UsbDevices)
=============================================================================
