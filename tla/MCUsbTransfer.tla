--------------------------- MODULE MCUsbTransfer ---------------------------
(* UsbTransfer on up to two transfer objects with up to two operations     *)
(* each; the .cfg chooses which.                                           *)
EXTENDS UsbTransfer

CONSTANTS t1, t2, a1, a2, b1, b2

MCTransferOf == [o \in Ops |-> IF o \in {a1, a2} THEN t1 ELSE t2]
(* t1 times out; the timeout of t2 is one more than unsigned can hold.      *)
MCTimeout == [t \in Transfers |-> IF t = t1 THEN 3 ELSE 8]
=============================================================================
