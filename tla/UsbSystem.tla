------------------------------ MODULE UsbSystem ------------------------------
(***************************************************************************)
(* The service, its devices and the transfers on them: UsbService and      *)
(* UsbTransfer, in one program.  What each of them leaves open the other   *)
(* one decides:                                                            *)
(*   - completion_callback is called by libusb_handle_events, and that     *)
(*     returns when the callback has;                                      *)
(*   - a transfer is used while its device is open, and a device is closed *)
(*     when its operations have been handled;                              *)
(*   - open, close and everything the execution context runs share the     *)
(*     client's thread, which destroys the context after run() returned.   *)
(*                                                                         *)
(* The client uses a transfer for another operation as the quiescent       *)
(* client of UsbTransfer does, after a later completion of another         *)
(* transfer, but destroys it when the handler was invoked and the device   *)
(* has been closed: libusb_close waits for the event thread, so it needs   *)
(* no other transfer to tell it that completion_callback has returned.     *)
(***************************************************************************)
EXTENDS Integers, Sequences, FiniteSets

CONSTANTS Transfers, Ops, TransferOf, None, Timeout, UintModulus, Devices,
  DeviceOf   \* the device a transfer was made for

ASSUME SystemAssumption ==
  /\ TransferOf \in [Ops -> Transfers] /\ DeviceOf \in [Transfers -> Devices]
  /\ None \notin Ops \cup Transfers
  /\ Timeout \in [Transfers -> Int] /\ UintModulus \in Nat \ {0}
  /\ IsFiniteSet(Devices)

VARIABLES
  life, buffer, handler, storage, lib, wire, freed, called, initiated,
  queue, result, invoked, last, app, evt, running, fault,
  open_devices, lost, stop_requested, loop, dev, owner

Transfer == INSTANCE UsbTransfer WITH Client <- "sequential"
Service == INSTANCE UsbService WITH MaxLost <- 0

transferVars == <<life, buffer, handler, storage, lib, wire, freed, called, initiated,
                  queue, result, invoked, last, app, evt, running, fault>>
serviceVars == <<open_devices, lost, stop_requested, loop, dev, owner>>
vars == <<transferVars, serviceVars>>

Init == Transfer!Init /\ Service!Init

TransferStep(A) == A /\ UNCHANGED serviceVars
ServiceStep(A) == A /\ UNCHANGED transferVars

-----------------------------------------------------------------------------
(* The client's thread.                                                    *)

InNoDeviceCall == \A d \in Devices : dev[d] \in {"closed", "open"}
InNoTransferCall == app = Transfer!AppIdle
Used(t) == \E o \in called : TransferOf[o] = t

(* Transfers of a handle that was closed are destroyed before another is   *)
(* opened.                                                                 *)
Open(d) ==
  /\ running /\ InNoTransferCall /\ InNoDeviceCall
  /\ \A t \in Transfers : DeviceOf[t] = d => life[t] # "alive"
  /\ ServiceStep(Service!Open(d))

Close(d) ==
  /\ InNoTransferCall /\ InNoDeviceCall
  /\ \A o \in initiated \ invoked : DeviceOf[TransferOf[o]] # d
  /\ ServiceStep(Service!Close(d))

UseTransfer(t) ==
  /\ InNoDeviceCall /\ dev[DeviceOf[t]] = "open"
  /\ \/ Transfer!Construct(t) \/ Transfer!Cancel(t)
     \/ \E o \in Ops : TransferOf[o] = t /\ (Transfer!Initiate(o) \/ (t # last /\ Transfer!Call(o)))

Destroy(t) ==
  /\ InNoDeviceCall /\ (Used(t) => dev[DeviceOf[t]] = "closed")
  /\ Transfer!Destroy(t)

RunHandler == InNoDeviceCall /\ Transfer!RunHandler
RunReturns == InNoDeviceCall /\ Transfer!RunReturns

RequestStop == ~running /\ ServiceStep(Service!RequestStop)

ClientStep ==
  \/ \E d \in Devices : Open(d) \/ Close(d)
  \/ \E t \in Transfers : TransferStep(UseTransfer(t)) \/ TransferStep(Destroy(t))
  \/ RequestStop

-----------------------------------------------------------------------------
(* usb_event_thread_                                                       *)

Reap(t) == loop = "handling" /\ Transfer!Reap(t)

(* Mutant of Callback: the callback spins until the client's thread can    *)
(* be had to invoke the handler.                                           *)
CallbackInvoking ==
  IF InNoDeviceCall /\ InNoTransferCall THEN Transfer!CallbackStep
  ELSE evt # Transfer!EvtIdle /\ UNCHANGED transferVars

Callback == Transfer!CallbackStep

(* libusb_handle_events returns from a callback first.                     *)
LoopStep == evt = Transfer!EvtIdle /\ (Service!LoopStep \/ Service!SpuriousWakeup)

Terminated == owner = "exited" /\ UNCHANGED vars

Next ==
  \/ ClientStep
  \/ TransferStep(Transfer!InitiationStep) \/ TransferStep(RunHandler) \/ TransferStep(RunReturns)
  \/ TransferStep(Callback) \/ \E t \in Transfers : TransferStep(Reap(t))
  \/ ServiceStep(LoopStep) \/ ServiceStep(Service!OwnerStep)
  \/ \E d \in Devices : ServiceStep(Service!DeviceStep(d))
  \/ Terminated

(* The fairness of the two modules, but strong where a step waits for what *)
(* the event thread does in each round: what is due is not reaped in every *)
(* call of libusb_handle_events, which may be interrupted, only in one of  *)
(* them; and a mutex that is free again and again is obtained.             *)
Spec ==
  /\ Init /\ [][Next]_vars
  /\ WF_vars(TransferStep(Transfer!InitiationStep))
  /\ WF_vars(TransferStep(RunHandler)) /\ WF_vars(TransferStep(RunReturns))
  /\ WF_vars(TransferStep(Callback))
  /\ \A t \in Transfers : SF_vars(TransferStep(loop = "handling" /\ Transfer!MustReap(t)))
  /\ WF_vars(ServiceStep(evt = Transfer!EvtIdle /\ Service!LoopStep))
  /\ WF_vars(ServiceStep(Service!OwnerStep))
  /\ \A d \in Devices : SF_vars(ServiceStep(Service!DeviceStep(d)))

-----------------------------------------------------------------------------
(* Properties.                                                             *)

(* completion_callback finds its completion context alive, with a handler  *)
(* to post that nobody else deletes, though the transfer is destroyed as   *)
(* soon as the device is closed.                                           *)
CallbackFindsContext ==
  /\ evt # Transfer!EvtIdle => life[evt.t] = "alive"
  /\ evt.pc = "post" => handler[evt.t] # None
  /\ fault = "none"

(* While libusb has a transfer in flight the event thread has not ended,   *)
(* and does not wait for devices, unless it is about to be notified: the   *)
(* client closes no device under its operations, the count of the service  *)
(* is that of the devices, and shutdown() comes when run() has returned.   *)
InFlightIsServed ==
  (\E t \in Transfers : lib[t] # "idle") =>
    /\ loop \notin {"block", "done"}
    /\ loop = "waiting" => \E d \in Devices : dev[d] = "notifying"

(* The execution context is destroyed, with the handlers posted to it,     *)
(* when every operation has been handled and completion_callback has let   *)
(* go of it: its executors are tracked until the handler is deleted, and   *)
(* run(), after which main destroys it, does not return before.            *)
ShutdownIsLast == owner # "using" => initiated = invoked /\ evt = Transfer!EvtIdle

(* From open() over the event thread to the handler: operations that time  *)
(* out are completed, unless devices are closed again and again.  A call   *)
(* of close() that does not return is no excuse: the event thread, which   *)
(* it waits for, must not wait for the client's thread.                    *)
TimedOpsServed ==
  <>[][\A d \in Devices : dev'[d] = "closing" => dev[d] = "closing"]_dev
    => Transfer!TimedOpsComplete
=============================================================================
