---------------------------- MODULE MCUsbSystem ----------------------------
(* UsbSystem on two devices with a transfer each, one of which is used     *)
(* twice.                                                                  *)
EXTENDS UsbSystem

CONSTANTS t1, t2, a, b, c, d1, d2

MCTransferOf == [o \in Ops |-> IF o = b THEN t2 ELSE t1]
EachItsDevice == [t \in Transfers |-> IF t = t1 THEN d1 ELSE d2]
(* t1 times out, t2 does not.                                              *)
MCTimeout == [t \in Transfers |-> IF t = t1 THEN 3 ELSE 0]
=============================================================================
