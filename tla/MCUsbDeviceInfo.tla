--------------------------- MODULE MCUsbDeviceInfo ---------------------------
(* UsbDeviceInfo on a hub and a device plugged into it.  max_depth is 1    *)
(* where the code has 7, for the vector of port_numbers to overflow.       *)
EXTENDS UsbDeviceInfo

CONSTANTS hub, leaf, s1, s2, s3, th1, th2

MCParentOf == [d \in Devs |-> IF d = leaf THEN hub ELSE None]
=============================================================================
