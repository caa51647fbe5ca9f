---------------------------- MODULE MCUsbService ----------------------------
(* UsbService on two or three devices; MaxLost says how many may be        *)
(* destroyed or assigned to while open.                                    *)
EXTENDS UsbService

CONSTANTS d1, d2, d3
=============================================================================
