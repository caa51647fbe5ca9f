--------------------------- MODULE MCUsbInterface ---------------------------
(* UsbInterface on one to three objects, two interface numbers and two     *)
(* handles: the device is opened twice at most.                            *)
EXTENDS UsbInterface, TLC

CONSTANTS i1, i2, i3, n1, n2, h1, h2

Symmetry == Permutations(Interfaces) \cup Permutations(Numbers) \cup Permutations(Handles)
=============================================================================
