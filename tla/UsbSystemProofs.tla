-------------------------- MODULE UsbSystemProofs --------------------------
(***************************************************************************)
(* Safety of UsbSystem, for any devices, transfers and operations.         *)
(*                                                                         *)
(* What was proved of the two modules holds of the program they make up:   *)
(* each of its steps is a step of the service or of the transfers.  For    *)
(* the transfers that is so as long as nothing undefined has happened,     *)
(* and it never does: SystemInv relates the event thread, which is in      *)
(* libusb_handle_events while it is in a callback, to the devices, none of *)
(* which can then finish closing.                                          *)
(***************************************************************************)
EXTENDS UsbSystem, TLAPS

TP == INSTANCE UsbTransferProofs WITH Client <- "sequential"
SP == INSTANCE UsbServiceProofs WITH MaxLost <- 0

(* libusb_handle_events has not returned when completion_callback has not. *)
InHandleEvents == evt # Transfer!EvtIdle => loop = "handling"

(* A device is open while an operation on it is unfinished, and its handle *)
(* is not closed before the callback of its transfer has returned.         *)
DeviceInUse ==
  /\ \A o \in initiated \ invoked : dev[DeviceOf[TransferOf[o]]] = "open"
  /\ evt # Transfer!EvtIdle => dev[DeviceOf[evt.t]] \in {"open", "closing"}

SystemInv ==
  /\ TP!OpInv
  /\ TP!HandlingInv
  /\ TP!QuietInv
  /\ SP!Inv
  /\ InHandleEvents
  /\ DeviceInUse

-----------------------------------------------------------------------------
(* The modules of proofs speak of the same transfers and the same service. *)
LEMMA SameClientSteps ==
  ASSUME NEW t, NEW o
  PROVE  /\ Transfer!Construct(t) <=> TP!Construct(t)
         /\ Transfer!Cancel(t) <=> TP!Cancel(t)
         /\ Transfer!Destroy(t) <=> TP!Destroy(t)
         /\ Transfer!Call(o) <=> TP!Call(o)
         /\ Transfer!Initiate(o) <=> TP!Initiate(o)
BY DEF Transfer!Construct, TP!Construct, Transfer!Cancel, TP!Cancel, Transfer!Destroy, TP!Destroy,
       Transfer!Call, TP!Call, Transfer!Initiate, TP!Initiate, Transfer!InClient, TP!InClient,
       Transfer!MayUse, TP!MayUse, Transfer!Outstanding, TP!Outstanding, Transfer!Delete, TP!Delete,
       Transfer!AppIdle, TP!AppIdle, Transfer!objVars, TP!objVars, Transfer!opVars, TP!opVars

LEMMA SameInitiationStep == Transfer!InitiationStep <=> TP!InitiationStep
BY DEF Transfer!InitiationStep, TP!InitiationStep, Transfer!AssignHandler, TP!AssignHandler,
       Transfer!Submit, TP!Submit, Transfer!SubmitFails, TP!SubmitFails, Transfer!PostError,
       TP!PostError, Transfer!ErrorReset, TP!ErrorReset, Transfer!ErrorDelete, TP!ErrorDelete,
       Transfer!Delete, TP!Delete, Transfer!PostHandler, TP!PostHandler,
       Transfer!AppIdle, TP!AppIdle, Transfer!objVars, TP!objVars, Transfer!opVars, TP!opVars

LEMMA SameOtherSteps ==
  ASSUME NEW t
  PROVE  /\ Transfer!RunHandler <=> TP!RunHandler
         /\ Transfer!RunReturns <=> TP!RunReturns
         /\ Transfer!Reap(t) <=> TP!Reap(t)
         /\ Transfer!CallbackStep <=> TP!CallbackStep
         /\ Transfer!vars = TP!vars
         /\ Transfer!EvtIdle = TP!EvtIdle
BY DEF Transfer!RunHandler, TP!RunHandler, Transfer!RunReturns, TP!RunReturns, Transfer!Reap, TP!Reap,
       Transfer!CallbackStep, TP!CallbackStep, Transfer!CallbackPost, TP!CallbackPost,
       Transfer!CallbackReset, TP!CallbackReset, Transfer!CallbackDelete, TP!CallbackDelete,
       Transfer!InClient, TP!InClient, Transfer!InCallback, TP!InCallback, Transfer!Status, TP!Status,
       Transfer!OutstandingWork, TP!OutstandingWork, Transfer!Delete, TP!Delete,
       Transfer!PostHandler, TP!PostHandler, Transfer!AppIdle, TP!AppIdle, Transfer!EvtIdle, TP!EvtIdle,
       Transfer!objVars, TP!objVars, Transfer!opVars, TP!opVars, Transfer!vars, TP!vars

LEMMA SameTransfers ==
  /\ Transfer!Init <=> TP!Init
  /\ [Transfer!Next]_(Transfer!vars) => [TP!Next]_(TP!vars)
<1>1. Transfer!Init <=> TP!Init
  BY DEF Transfer!Init, TP!Init, Transfer!AppIdle, TP!AppIdle, Transfer!EvtIdle, TP!EvtIdle
<1>2. (Transfer!NullHandler <=> TP!NullHandler) /\ (Transfer!FreedContext <=> TP!FreedContext)
  BY DEF Transfer!NullHandler, TP!NullHandler, Transfer!FreedContext, TP!FreedContext,
         Transfer!Crash, TP!Crash, Transfer!InCallback, TP!InCallback, Transfer!EvtIdle, TP!EvtIdle,
         Transfer!objVars, TP!objVars, Transfer!opVars, TP!opVars
<1>3. Transfer!Terminated => TP!Terminated
  BY DEF Transfer!Terminated, TP!Terminated, Transfer!AppIdle, TP!AppIdle, Transfer!EvtIdle, TP!EvtIdle,
         Transfer!vars, TP!vars, Transfer!objVars, TP!objVars, Transfer!opVars, TP!opVars
<1>4. UNCHANGED Transfer!vars <=> UNCHANGED TP!vars
  BY DEF Transfer!vars, TP!vars, Transfer!objVars, TP!objVars, Transfer!opVars, TP!opVars
<1>5. Transfer!ClientStep => TP!ClientStep
  BY SameClientSteps DEF Transfer!ClientStep, TP!ClientStep
<1>6. Transfer!Step => TP!Step
  BY <1>2, <1>5, SameInitiationStep, SameOtherSteps DEF Transfer!Step, TP!Step
<1> QED
  BY <1>1, <1>3, <1>4, <1>6 DEF Transfer!Next, TP!Next

LEMMA SameService ==
  /\ Service!Init <=> SP!Init
  /\ [Service!Next]_(Service!vars) <=> [SP!Next]_(SP!vars)
BY DEF Service!Init, SP!Init, Service!Next, SP!Next, Service!vars, SP!vars, Service!LoopStep, SP!LoopStep,
       Service!LockMutex, SP!LockMutex, Service!WaitOver, SP!WaitOver, Service!WaitGoesOn, SP!WaitGoesOn,
       Service!Block, SP!Block, Service!Break, SP!Break, Service!HandleEvents, SP!HandleEvents,
       Service!HandleEventsReturns, SP!HandleEventsReturns, Service!Goto, SP!Goto,
       Service!Predicate, SP!Predicate, Service!SpuriousWakeup, SP!SpuriousWakeup, Service!Open, SP!Open,
       Service!Close, SP!Close, Service!DropHandle, SP!DropHandle, Service!DeviceStep, SP!DeviceStep,
       Service!NotifyDevOpened, SP!NotifyDevOpened, Service!NotifyEventLoop, SP!NotifyEventLoop,
       Service!CloseHandle, SP!CloseHandle, Service!MutexFree, SP!MutexFree, Service!NotifyOne, SP!NotifyOne,
       Service!DevGoto, SP!DevGoto, Service!RequestStop, SP!RequestStop, Service!OwnerStep, SP!OwnerStep,
       Service!ShutdownNotify, SP!ShutdownNotify, Service!Join, SP!Join, Service!LibusbExit, SP!LibusbExit,
       Service!OwnerGoto, SP!OwnerGoto, Service!Terminated, SP!Terminated

-----------------------------------------------------------------------------
(* A step of the program is a step of the service, or does not concern it. *)
LEMMA ServiceNext ==
  ASSUME [Next]_vars
  PROVE  [Service!Next]_(Service!vars)
BY DEF Next, vars, serviceVars, Service!vars, TransferStep, ServiceStep, ClientStep, Open, Close, RequestStop,
       LoopStep, Terminated, Service!Next

(* A step of the program is a step of the transfers, or does not concern   *)
(* them, as long as nothing undefined has happened.                        *)
LEMMA TransferNext ==
  ASSUME fault = "none", [Next]_vars
  PROVE  [Transfer!Next]_(Transfer!vars)
<1>1. CASE UNCHANGED transferVars
  BY <1>1 DEF transferVars, Transfer!vars, Transfer!objVars, Transfer!opVars
<1>2. ASSUME NEW t \in Transfers, UseTransfer(t) \/ Destroy(t) \/ Reap(t)
      PROVE  Transfer!Next
  BY <1>2 DEF UseTransfer, Destroy, Reap, Transfer!Next, Transfer!Step, Transfer!ClientStep
<1>3. CASE Transfer!InitiationStep \/ RunHandler \/ RunReturns \/ Callback
  BY <1>3 DEF RunHandler, RunReturns, Callback, Transfer!Next, Transfer!Step
<1> QED
  BY <1>1, <1>2, <1>3
     DEF Next, vars, TransferStep, ServiceStep, ClientStep, Open, Close, RequestStop, Terminated

-----------------------------------------------------------------------------
(* What is assumed of the parameters of the two modules.                   *)
LEMMA Parameters ==
  /\ TransferOf \in [Ops -> Transfers] /\ DeviceOf \in [Transfers -> Devices]
  /\ None \notin Ops /\ None \notin Transfers
  /\ TP!ConstantsAssumption
  /\ SP!ServiceAssumption
BY SystemAssumption DEF IsFiniteSet, SP!IsFiniteSet

(* The transfer whose callback is running has been used, for an operation  *)
(* that has been initiated.                                                *)
LEMMA CallbackUses ==
  ASSUME TP!OpInv, TP!HandlingInv, evt # Transfer!EvtIdle
  PROVE  /\ evt.t \in Transfers
         /\ wire[evt.t] \in initiated /\ TransferOf[wire[evt.t]] = evt.t
         /\ Used(evt.t)
<1>1. TP!TypeOK /\ evt # TP!EvtIdle
  BY SameOtherSteps DEF TP!OpInv
<1>2. evt.t \in Transfers /\ evt.pc \in {"post", "reset", "delete"}
  BY <1>1, TP!ThreadTypes, Parameters
<1>3. wire[evt.t] \in initiated /\ TransferOf[wire[evt.t]] = evt.t
  <2>1. CASE evt.pc = "post"
    BY <1>2, <2>1 DEF TP!OpInv, TP!FlightPending, TP!InFlight, TP!Pending
  <2>2. CASE evt.pc \in {"reset", "delete"}
    BY <2>2 DEF TP!HandlingInv, TP!CallbackKnown, TP!OpInv, TP!Called
  <2> QED
    BY <1>2, <2>1, <2>2
<1>4. initiated \subseteq called
  BY DEF TP!OpInv, TP!Called
<1> QED
  BY <1>2, <1>3, <1>4 DEF Used

(* The client leaves the transfer whose callback is running alone: it uses *)
(* it again after a later completion of another, by QuietInv, and destroys *)
(* it when its device has been closed, by DeviceInUse.                     *)
LEMMA ClientKeepsAway ==
  ASSUME SystemInv, NEW t \in Transfers, UseTransfer(t) \/ Destroy(t)
  PROVE  TP!ClientStepAway
<1>1. evt = Transfer!EvtIdle => evt.t \notin Transfers
  BY Parameters DEF Transfer!EvtIdle
<1>2. ASSUME NEW o \in Ops, TransferOf[o] = t, t # last, Transfer!Call(o)
      PROVE  TP!ClientStepAway
  <2>1. TP!MayUse(t)
    BY <1>2, SameClientSteps DEF TP!Call
  <2>2. evt.t # t
    BY <1>2, <2>1, TP!QuietUse, Parameters DEF SystemInv
  <2> QED
    BY <1>2, <2>2, SameClientSteps DEF TP!ClientStepAway
<1>3. CASE Destroy(t)
  <2>1. evt.t # t
    BY <1>1, <1>3, CallbackUses DEF SystemInv, DeviceInUse, Destroy
  <2> QED
    BY <1>3, <2>1, SameClientSteps DEF TP!ClientStepAway, Destroy
<1>4. ASSUME NEW o \in Ops, Transfer!Initiate(o)
      PROVE  TP!ClientStepAway
  BY <1>4, SameClientSteps DEF TP!ClientStepAway
<1>5. CASE Transfer!Construct(t) \/ Transfer!Cancel(t)
  BY <1>5, SameClientSteps DEF TP!ClientStepAway
<1> QED
  BY <1>2, <1>3, <1>4, <1>5 DEF UseTransfer

(* Every step preserves what is known of the handlers.                     *)
LEMMA HandlingKept ==
  ASSUME SystemInv, [Next]_vars
  PROVE  TP!HandlingInv'
<1>1. TP!OpInv /\ TP!HandlingInv
  BY DEF SystemInv
<1>2. CASE UNCHANGED transferVars
  BY <1>1, <1>2, TP!HandlingUnchanged, Parameters DEF transferVars
<1>3. ASSUME NEW t \in Transfers, UseTransfer(t) \/ Destroy(t)
      PROVE  TP!HandlingInv'
  BY <1>1, <1>3, ClientKeepsAway, TP!HandlingClientStep, Parameters
<1>4. CASE Transfer!InitiationStep
  BY <1>1, <1>4, SameInitiationStep, TP!HandlingInitiationStep, Parameters
<1>5. CASE RunHandler
  BY <1>1, <1>5, SameOtherSteps, TP!HandlingRunStep, Parameters DEF RunHandler
<1>6. CASE RunReturns
  <2>1. UNCHANGED <<life, handler, lib, wire, freed, called, initiated, queue, result, invoked,
                    last, app, evt, fault>>
    BY <1>6 DEF RunReturns, Transfer!RunReturns, Transfer!objVars, Transfer!opVars
  <2> QED
    BY <1>1, <2>1, TP!HandlingUnchanged, Parameters
<1>7. CASE Callback \/ \E t \in Transfers : Reap(t)
  <2>1. TP!CallbackStep \/ \E t \in Transfers : TP!Reap(t)
    BY <1>7, SameOtherSteps DEF Callback, Reap
  <2> QED
    BY <1>1, <2>1, TP!HandlingCallbackStep, Parameters
<1> QED
  BY <1>2, <1>3, <1>4, <1>5, <1>6, <1>7
     DEF Next, vars, TransferStep, ServiceStep, ClientStep, Open, Close, RequestStop, Terminated

(* A callback is entered from libusb_handle_events, which returns when the *)
(* callback has; nothing else takes the event thread out of it.            *)
LEMMA InHandleEventsKept ==
  ASSUME SystemInv, [Next]_vars
  PROVE  InHandleEvents'
<1>1. CASE UNCHANGED <<evt, loop>>
  BY <1>1 DEF SystemInv, InHandleEvents
<1>2. ASSUME NEW t \in Transfers, TransferStep(Reap(t))
      PROVE  InHandleEvents'
  BY <1>2 DEF TransferStep, serviceVars, Reap, InHandleEvents
<1>3. CASE TransferStep(Callback)
  <2>1. evt # Transfer!EvtIdle
    BY <1>3 DEF TransferStep, Callback, Transfer!CallbackStep, Transfer!CallbackPost, Transfer!CallbackReset,
                Transfer!CallbackDelete, Transfer!InCallback, Transfer!EvtIdle
  <2> QED
    BY <1>3, <2>1 DEF TransferStep, serviceVars, SystemInv, InHandleEvents
<1>4. CASE ServiceStep(LoopStep)
  BY <1>4 DEF ServiceStep, transferVars, LoopStep, InHandleEvents
<1>5. CASE UNCHANGED evt /\ Service!NotifyOne
  BY <1>5 DEF Service!NotifyOne, SystemInv, InHandleEvents
<1> QED
  BY <1>1, <1>2, <1>3, <1>4, <1>5
     DEF Next, vars, transferVars, serviceVars, TransferStep, ServiceStep, ClientStep, UseTransfer, Destroy,
         Open, Close, RequestStop, RunHandler, RunReturns, Terminated,
         Transfer!Construct, Transfer!Cancel, Transfer!Call, Transfer!Initiate, Transfer!Destroy,
         Transfer!InitiationStep, Transfer!AssignHandler, Transfer!Submit, Transfer!SubmitFails,
         Transfer!PostError, Transfer!ErrorReset, Transfer!ErrorDelete, Transfer!RunHandler,
         Transfer!RunReturns, Service!Open, Service!Close, Service!RequestStop, Service!OwnerStep,
         Service!ShutdownNotify, Service!Join, Service!LibusbExit, Service!DeviceStep,
         Service!NotifyDevOpened, Service!NotifyEventLoop, Service!CloseHandle

(* A device is closed when its operations have been handled, and then not  *)
(* before the event thread has left libusb_handle_events.                  *)
LEMMA DeviceInUseKept ==
  ASSUME SystemInv, [Next]_vars
  PROVE  DeviceInUse'
<1>0. /\ TransferOf \in [Ops -> Transfers] /\ DeviceOf \in [Transfers -> Devices]
      /\ initiated \subseteq Ops /\ dev \in [Devices -> {"closed", "opened", "notifying", "open", "closing"}]
  BY Parameters DEF SystemInv, TP!OpInv, TP!TypeOK, SP!Inv, SP!TypeOK
<1>1. CASE UNCHANGED <<initiated, invoked, evt, dev>>
  BY <1>1 DEF SystemInv, DeviceInUse
<1>2. ASSUME NEW t \in Transfers, NEW o \in Ops, TransferStep(UseTransfer(t)), TransferOf[o] = t, Transfer!Initiate(o)
      PROVE  DeviceInUse'
  BY <1>2 DEF TransferStep, serviceVars, UseTransfer, Transfer!Initiate, SystemInv, DeviceInUse
<1>3. CASE TransferStep(RunHandler)
  BY <1>3 DEF TransferStep, serviceVars, RunHandler, Transfer!RunHandler, SystemInv, DeviceInUse
<1>4. ASSUME NEW t \in Transfers, TransferStep(Reap(t))
      PROVE  DeviceInUse'
  <2>1. lib[t] # "idle" /\ evt'.t = t /\ UNCHANGED <<initiated, invoked, dev>>
    BY <1>4 DEF TransferStep, serviceVars, Reap, Transfer!Reap, Transfer!opVars
  <2>2. wire[t] \in initiated \ invoked /\ TransferOf[wire[t]] = t
    BY <2>1 DEF SystemInv, TP!OpInv, TP!FlightPending, TP!InFlight, TP!Pending
  <2> QED
    BY <2>1, <2>2 DEF SystemInv, DeviceInUse
<1>5. CASE TransferStep(Callback)
  <2>1. evt # Transfer!EvtIdle /\ UNCHANGED <<initiated, invoked, dev>>
    BY <1>5 DEF TransferStep, serviceVars, Callback, Transfer!CallbackStep, Transfer!CallbackPost,
                Transfer!CallbackReset, Transfer!CallbackDelete, Transfer!InCallback, Transfer!EvtIdle,
                Transfer!opVars
  <2>2. evt' = Transfer!EvtIdle \/ evt'.t = evt.t
    <3>1. evt # TP!EvtIdle /\ TP!TypeOK
      BY <2>1, SameOtherSteps DEF SystemInv, TP!OpInv
    <3> QED
      BY <1>5, <3>1 DEF TransferStep, Callback, Transfer!CallbackStep, Transfer!CallbackPost,
                  Transfer!CallbackReset, Transfer!CallbackDelete, TP!TypeOK
  <2> QED
    BY <2>1, <2>2 DEF SystemInv, DeviceInUse
<1>6. ASSUME NEW d \in Devices, UNCHANGED transferVars, Service!Open(d) \/ Service!DeviceStep(d)
      PROVE  DeviceInUse'
  <2>1. UNCHANGED <<initiated, invoked, evt>>
    BY <1>6 DEF transferVars
  <2>2. \A e \in Devices : dev[e] = "open" => dev'[e] = "open"
    BY <1>0, <1>6 DEF Service!Open, Service!DeviceStep, Service!NotifyDevOpened, Service!NotifyEventLoop,
                Service!CloseHandle, Service!DevGoto
  <2>3. ASSUME evt # Transfer!EvtIdle
        PROVE  dev'[DeviceOf[evt.t]] \in {"open", "closing"}
    <3> DEFINE e == DeviceOf[evt.t]
    <3>1. e \in Devices /\ loop = "handling" /\ dev[e] \in {"open", "closing"}
      BY <1>0, <2>3, CallbackUses DEF SystemInv, InHandleEvents, DeviceInUse
    <3> HIDE DEF e
    <3>2. ASSUME d = e
          PROVE  dev'[e] \in {"open", "closing"}
      BY <1>6, <3>1, <3>2 DEF Service!Open, Service!DeviceStep, Service!NotifyDevOpened,
                  Service!NotifyEventLoop, Service!CloseHandle, Service!DevGoto
    <3>3. ASSUME d # e
          PROVE  dev'[e] \in {"open", "closing"}
      <4>1. PICK x : dev' = [dev EXCEPT ![d] = x]
        BY <1>6 DEF Service!Open, Service!DeviceStep, Service!NotifyDevOpened,
                    Service!NotifyEventLoop, Service!CloseHandle, Service!DevGoto
      <4>2. dev'[e] = dev[e]
        BY <1>0, <3>1, <3>3, <4>1
      <4> QED
        BY <3>1, <4>2
    <3>4. dev'[e] \in {"open", "closing"}
      BY <3>2, <3>3
    <3> QED
      BY <3>4 DEF e
  <2> QED
    BY <1>0, <2>1, <2>2, <2>3 DEF SystemInv, DeviceInUse
<1>7. ASSUME NEW d \in Devices, Close(d)
      PROVE  DeviceInUse'
  <2>1. /\ \A o \in initiated \ invoked : DeviceOf[TransferOf[o]] # d
        /\ dev' = [dev EXCEPT ![d] = "closing"]
        /\ UNCHANGED <<initiated, invoked, evt>>
    BY <1>7 DEF Close, ServiceStep, transferVars, Service!Close, Service!DevGoto
  <2>2. \A e \in Devices : dev'[e] = IF e = d THEN "closing" ELSE dev[e]
    BY <1>0, <2>1
  <2>3. evt # Transfer!EvtIdle => evt.t \in Transfers
    BY CallbackUses DEF SystemInv
  <2> QED
    BY <1>0, <2>1, <2>2, <2>3 DEF SystemInv, DeviceInUse
<1> QED
  BY <1>1, <1>2, <1>3, <1>4, <1>5, <1>6, <1>7
     DEF Next, vars, transferVars, serviceVars, TransferStep, ServiceStep, ClientStep, UseTransfer, Destroy,
         Open, RequestStop, RunReturns, LoopStep, Terminated,
         Transfer!Construct, Transfer!Cancel, Transfer!Call, Transfer!Destroy,
         Transfer!InitiationStep, Transfer!AssignHandler, Transfer!Submit, Transfer!SubmitFails,
         Transfer!PostError, Transfer!ErrorReset, Transfer!ErrorDelete,
         Transfer!RunReturns, Transfer!opVars, Service!RequestStop, Service!OwnerStep,
         Service!ShutdownNotify, Service!Join, Service!LibusbExit, Service!LoopStep, Service!SpuriousWakeup,
         Service!LockMutex, Service!WaitOver, Service!WaitGoesOn, Service!Block, Service!Break,
         Service!HandleEvents, Service!HandleEventsReturns, Service!Goto

-----------------------------------------------------------------------------
LEMMA SystemInit == Init => SystemInv
<1> SUFFICES ASSUME Init PROVE SystemInv
  OBVIOUS
<1>1. TP!OpInv /\ TP!HandlingInv /\ TP!QuietInv
  BY SameTransfers, TP!OpInit, TP!HandlingInit, TP!QuietInit, Parameters DEF Init
<1>2. SP!Inv
  BY SameService, SP!InvInit, Parameters DEF Init
<1> QED
  BY <1>1, <1>2 DEF Init, Transfer!Init, SystemInv, InHandleEvents, DeviceInUse

LEMMA SystemStep ==
  ASSUME SystemInv, [Next]_vars
  PROVE  SystemInv'
<1>1. TP!OpInv' /\ TP!QuietInv'
  <2>1. fault = "none"
    BY DEF SystemInv, TP!HandlingInv
  <2> QED
    BY <2>1, TransferNext, SameTransfers, TP!OpStep, TP!QuietStep, Parameters DEF SystemInv
<1>2. SP!Inv'
  BY ServiceNext, SameService, SP!InvStep, Parameters DEF SystemInv
<1> QED
  BY <1>1, <1>2, HandlingKept, InHandleEventsKept, DeviceInUseKept DEF SystemInv

LEMMA SystemCorrect == Spec => []SystemInv
BY SystemInit, SystemStep, PTL DEF Spec

-----------------------------------------------------------------------------
(* The event thread, its devices and its shutdown behave in the program as *)
(* UsbService says, what the transfers do included.                        *)
THEOREM ServiceImplemented == Spec => Service!Safety
BY ServiceNext, PTL DEF Spec, Init, Service!Safety

(* The transfers behave in the program as UsbTransfer says of a client     *)
(* that starts an operation when the last one has been handled, though it  *)
(* destroys a transfer as soon as the device has been closed.              *)
THEOREM TransferImplemented == Spec => Transfer!Safety
<1>1. SystemInv /\ [Next]_vars => [Transfer!Next]_(Transfer!vars)
  BY TransferNext DEF SystemInv, TP!HandlingInv
<1> QED
  BY <1>1, SystemCorrect, PTL DEF Spec, Init, Transfer!Safety

LEMMA ServiceSafety == Spec => SP!Safety
BY ServiceImplemented, SameService, PTL DEF Service!Safety, SP!Safety

LEMMA TransferSafety == Spec => TP!Safety
BY TransferImplemented, SameTransfers, PTL DEF Transfer!Safety, TP!Safety

(* completion_callback finds its completion context alive and its handler  *)
(* in it: libusb_close, which the client calls before it destroys the      *)
(* transfer, waits for the callback.                                       *)
THEOREM CallbackFindsContextCorrect == Spec => []CallbackFindsContext
<1>1. SystemInv => CallbackFindsContext
  BY SameOtherSteps, TP!CallbackFinds, Parameters DEF SystemInv, TP!HandlingInv, CallbackFindsContext
<1> QED
  BY <1>1, SystemCorrect, PTL

-----------------------------------------------------------------------------
(* run() returns when every handler has been invoked and deleted, and the  *)
(* execution context is destroyed afterwards.                              *)
Drained == ~running => initiated \subseteq freed

AfterRun == owner # "using" => ~running

(* run() returns once, and no operation is initiated after it has.         *)
LEMMA RunFrame ==
  ASSUME [Next]_vars
  PROVE  /\ freed \subseteq freed'
         /\ initiated' = initiated \/ running'
         /\ running' = running \/ (Transfer!RunReturns /\ ~running')
<1> USE DEF Next, vars, transferVars, TransferStep, ServiceStep, ClientStep, UseTransfer, Destroy, Open, Close,
            RequestStop, RunHandler, RunReturns, Callback, Reap, Terminated, Transfer!InClient, Transfer!Delete,
            Transfer!Construct, Transfer!Cancel, Transfer!Call, Transfer!Initiate, Transfer!Destroy,
            Transfer!InitiationStep, Transfer!AssignHandler, Transfer!Submit, Transfer!SubmitFails,
            Transfer!PostError, Transfer!ErrorReset, Transfer!ErrorDelete, Transfer!RunHandler,
            Transfer!RunReturns, Transfer!Reap, Transfer!CallbackStep, Transfer!CallbackPost,
            Transfer!CallbackReset, Transfer!CallbackDelete, Transfer!opVars
<1>1. freed \subseteq freed'
  OBVIOUS
<1>2. initiated' = initiated \/ running'
  OBVIOUS
<1>3. running' = running \/ (Transfer!RunReturns /\ ~running')
  OBVIOUS
<1> QED
  BY <1>1, <1>2, <1>3

LEMMA DrainedStep ==
  ASSUME Drained, [Next]_vars
  PROVE  Drained'
<1>1. Transfer!RunReturns => initiated \subseteq freed
  BY DEF Transfer!RunReturns, Transfer!OutstandingWork
<1> QED
  BY <1>1, RunFrame DEF Drained

LEMMA AfterRunStep ==
  ASSUME AfterRun, [Next]_vars
  PROVE  AfterRun'
<1>1. ~running => ~running'
  BY RunFrame
<1>2. owner' # "using" => owner # "using" \/ ~running
  BY DEF Next, vars, serviceVars, TransferStep, ServiceStep, ClientStep, Open, Close, RequestStop, LoopStep,
         Terminated, Service!Open, Service!Close, Service!RequestStop, Service!OwnerStep,
         Service!ShutdownNotify, Service!Join, Service!LibusbExit, Service!OwnerGoto, Service!DeviceStep,
         Service!NotifyDevOpened, Service!NotifyEventLoop, Service!CloseHandle, Service!LoopStep,
         Service!SpuriousWakeup, Service!LockMutex, Service!WaitOver, Service!WaitGoesOn, Service!Block,
         Service!Break, Service!HandleEvents, Service!HandleEventsReturns, Service!Goto
<1> QED
  BY <1>1, <1>2 DEF AfterRun

LEMMA RunCorrect == Spec => []TP!RunsWhileOutstanding
<1>1. Init => TP!RunsWhileOutstanding
  BY DEF Init, Transfer!Init, TP!RunsWhileOutstanding
<1>2. SystemInv /\ TP!RunsWhileOutstanding /\ [Next]_vars => TP!RunsWhileOutstanding'
  <2>1. SystemInv => fault = "none"
    BY DEF SystemInv, TP!HandlingInv
  <2> QED
    BY <2>1, TransferNext, SameTransfers, TP!ReturnStep, Parameters DEF SystemInv
<1> QED
  BY <1>1, <1>2, SystemCorrect, PTL DEF Spec

(* A callback that has not returned holds a handler that has not been      *)
(* deleted, of an operation that has been initiated.                       *)
LEMMA DrainedMeansQuiet ==
  ASSUME SystemInv, Drained, ~running
  PROVE  evt = Transfer!EvtIdle
<1>1. ASSUME evt # Transfer!EvtIdle
      PROVE  FALSE
  <2>1. evt.t \in Transfers /\ wire[evt.t] \in initiated
    BY <1>1, CallbackUses DEF SystemInv
  <2>2. handler[evt.t] = wire[evt.t]
    BY <2>1, Parameters, TP!ThreadTypes DEF SystemInv, TP!OpInv, TP!HandlingInv, TP!HandlerHeld, TP!Holds, TP!ClientAway
  <2>3. wire[evt.t] # None
    BY <2>1, Parameters DEF SystemInv, TP!OpInv, TP!TypeOK
  <2>4. handler[evt.t] \notin freed
    BY <2>1, <2>2, <2>3 DEF SystemInv, TP!HandlingInv, TP!HandlerFresh
  <2> QED
    BY <2>1, <2>2, <2>4 DEF Drained
<1> QED
  BY <1>1

(* When shutdown() begins every operation has been handled and the event   *)
(* thread is in no completion_callback.                                    *)
THEOREM ShutdownCorrect == Spec => []ShutdownIsLast
<1>1. Init => Drained /\ AfterRun
  BY DEF Init, Transfer!Init, Service!Init, Drained, AfterRun
<1>2. SystemInv /\ TP!RunsWhileOutstanding /\ Drained /\ AfterRun => ShutdownIsLast
  BY DrainedMeansQuiet DEF AfterRun, ShutdownIsLast, TP!RunsWhileOutstanding
<1> QED
  BY <1>1, <1>2, DrainedStep, AfterRunStep, RunCorrect, SystemCorrect, PTL DEF Spec

-----------------------------------------------------------------------------
(* While libusb has a transfer its device is open, so that the service     *)
(* counts it and the event thread is not left asleep, and run() has not    *)
(* returned, so that nobody has told the event thread to end.              *)
THEOREM InFlightServed == Spec => []InFlightIsServed
<1>1. ASSUME SystemInv, SP!WakeupPending, SP!StopKnown, TP!RunsWhileOutstanding, AfterRun
      PROVE  InFlightIsServed
  <2>1. SUFFICES ASSUME NEW t \in Transfers, lib[t] # "idle"
                 PROVE  /\ loop \notin {"block", "done"}
                        /\ loop = "waiting" => \E d \in Devices : dev[d] = "notifying"
    BY DEF InFlightIsServed
  <2> DEFINE o == wire[t]
             d == DeviceOf[TransferOf[o]]
  <2>2. o \in initiated \ invoked
    BY <1>1, <2>1 DEF SystemInv, TP!OpInv, TP!FlightPending, TP!InFlight, TP!Pending
  <2>3. d \in Devices /\ dev[d] = "open"
    BY <1>1, <2>2, Parameters DEF SystemInv, DeviceInUse, TP!OpInv, TP!TypeOK
  <2>4. open_devices > 0
    BY <1>1, <2>3, Parameters, SP!CountedPositive DEF SystemInv
  <2>5. loop # "done"
    BY <1>1, <2>2 DEF SP!StopKnown, AfterRun, TP!RunsWhileOutstanding
  <2>6. open_devices # 0
    BY <2>4
  <2> QED
    BY <1>1, <2>4, <2>5, <2>6 DEF SP!WakeupPending
<1>2. Spec => []SP!WakeupPending /\ []SP!StopKnown
  BY ServiceSafety, SP!NoLostWakeup, SP!StopKnownCorrect, Parameters, PTL
<1>3. Init => AfterRun
  BY DEF Init, Service!Init, AfterRun
<1> QED
  BY <1>1, <1>2, <1>3, AfterRunStep, RunCorrect, SystemCorrect, PTL DEF Spec

-----------------------------------------------------------------------------
(* What was proved of the two modules, of the program.                     *)

(* In the program open_devices_ counts the open devices, and an event      *)
(* thread that is asleep while a device is open is about to be notified.   *)
THEOREM EventThreadCorrect == Spec => [](Service!CounterMatchesDevices /\ Service!WakeupPending)
<1>1. /\ Service!CounterMatchesDevices <=> SP!CounterMatchesDevices
      /\ Service!WakeupPending <=> SP!WakeupPending
  BY DEF Service!CounterMatchesDevices, SP!CounterMatchesDevices, Service!Counted, SP!Counted,
         Service!Cardinality, SP!Cardinality,
         Service!WakeupPending, SP!WakeupPending
<1>2. Spec => []SP!CounterMatchesDevices /\ []SP!WakeupPending
  BY ServiceSafety, SP!CounterCorrect, SP!NoLostWakeup, Parameters, PTL
<1> QED
  BY <1>1, <1>2, PTL

(* In the program async_submit_impl and completion_callback never have the *)
(* handler of the same transfer, no handler is deleted before it has been  *)
(* posted, and run() returns when every operation has been handled: the    *)
(* execution context is not destroyed under an operation.                  *)
THEOREM HandlersCorrect ==
  Spec => [](Transfer!HandlerNotShared /\ Transfer!NoHandlerLost /\ Transfer!RunsWhileOutstanding)
<1>1. /\ Transfer!HandlerNotShared <=> TP!HandlerNotShared
      /\ Transfer!NoHandlerLost <=> TP!NoHandlerLost
      /\ Transfer!RunsWhileOutstanding <=> TP!RunsWhileOutstanding
  BY DEF Transfer!HandlerNotShared, TP!HandlerNotShared, Transfer!AppIdle, TP!AppIdle,
         Transfer!EvtIdle, TP!EvtIdle, Transfer!NoHandlerLost, TP!NoHandlerLost, Transfer!Range, TP!Range,
         Transfer!RunsWhileOutstanding, TP!RunsWhileOutstanding
<1>2. SystemInv => TP!HandlerNotShared /\ TP!NoHandlerLost
  BY TP!HandlingGives, Parameters DEF SystemInv
<1> QED
  BY <1>1, <1>2, RunCorrect, SystemCorrect, PTL

(* In the program every operation completes at most once, in the order in  *)
(* which the handlers were posted, and its handler is invoked with its own *)
(* results, in a transfer that exists; until then somebody has it.         *)
THEOREM ResultsCorrect ==
  Spec => Transfer!AtMostOnce /\ [](Transfer!OwnResults /\ Transfer!NotForgotten)
<1>1. /\ Transfer!OwnResults <=> TP!OwnResults
      /\ Transfer!NotForgotten <=> TP!NotForgotten
  BY DEF Transfer!OwnResults, TP!OwnResults, Transfer!NotForgotten, TP!NotForgotten, Transfer!Range, TP!Range
<1>2. Spec => TP!AtMostOnce /\ []TP!OwnResults /\ []TP!NotForgotten
  BY TransferSafety, TP!RefinementCorrect, TP!OwnResultsCorrect, TP!NotForgottenCorrect, Parameters, PTL
<1>3. /\ Transfer!Abs!AbsInit <=> TP!Abs!AbsInit
      /\ [Transfer!Abs!AbsNext]_(Transfer!Abs!absVars) <=> [TP!Abs!AbsNext]_(TP!Abs!absVars)
  BY DEF Transfer!Abs!AbsInit, TP!Abs!AbsInit, Transfer!Abs!AbsNext, TP!Abs!AbsNext,
         Transfer!Abs!AbsInitiate, TP!Abs!AbsInitiate, Transfer!Abs!AbsComplete, TP!Abs!AbsComplete,
         Transfer!Abs!AbsInvoke, TP!Abs!AbsInvoke, Transfer!Abs!absVars, TP!Abs!absVars,
         Transfer!Range, TP!Range, Transfer!Abs!Range, TP!Abs!Range
<1> QED
  BY <1>1, <1>2, <1>3, PTL
     DEF Transfer!AtMostOnce, TP!AtMostOnce, Transfer!Abs!AbsSafety, TP!Abs!AbsSafety
=============================================================================
