---------------------------- MODULE MCUsbBuffers ----------------------------
(* UsbBuffers on two blocks and three addresses; Buffers.cfg sets          *)
(* SizeModulus to 64, where buffers of sizes 1 to 14 can be constructed.   *)
EXTENDS UsbBuffers

CONSTANTS b1, b2

MCAddresses == {16, 24, 32}
=============================================================================
